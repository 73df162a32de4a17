------------------------------ MODULE TapeProofs ------------------------------
(***************************************************************************)
(* The deck's cursor stays within the tape and behind the clock, and the   *)
(* deck plays the list of pulses its tape stands for: for every tape,      *)
(* however long it is played and whatever is done to it.                   *)
(***************************************************************************)
EXTENDS TapePlays, SequenceTheorems, WellFoundedInduction, TLAPS

\* A cursor that may stand on a tape at an instant.
Good(d, tape, hc) ==
  /\ d \in Decks
  /\ PointsInto(d, tape)
  /\ d.playing => d.pulse_start <= hc

\* Inductive: the deck's cursor and every saved one are good, each at its own
\* instant, and only a playing tape is walked.
CursorInv ==
  /\ blocks \in Seq(Blocks) /\ now \in Nat /\ ops \in Nat
  /\ at \in {"free", "ear", "advance"}
  /\ Good(deck, blocks, now)
  /\ \A s \in saved : s \in [deck : Decks, now : Nat] /\ Good(s.deck, blocks, s.now)
  /\ at # "free" => deck.playing

-----------------------------------------------------------------------------
(* Cursors.                                                                *)

\* The start of a block, with the motor off, is a place on the tape.
LEMMA StoppedGood ==
  ASSUME NEW tape \in Seq(Blocks), NEW block \in 1..(Len(tape) + 1), NEW hc \in Nat
  PROVE  Good(Stopped(block, tape), tape, hc)
<1>1. Len(tape) \in Nat /\ block \in Nat
  OBVIOUS
<1>2. Stopped(block, tape) \in Decks
  BY <1>1 DEF Stopped, Decks, Phases
<1>3. QED BY <1>1, <1>2 DEF Good, PointsInto, Stopped

\* What a block may be started with is within it.
LEMMA OpeningWithin ==
  ASSUME NEW b \in Blocks
  PROVE  /\ Opening(b).phase \in {"pulses", "pilot", "data", "pause"}
         /\ Opening(b).left \in Nat
         /\ Opening(b).phase = "pulses" => Opening(b).left <= Len(b.pulses)
<1>1. b.pulses \in Seq(Nat) /\ Len(b.pulses) \in Nat /\ b.pilot \in Nat
  BY DEF Blocks
<1>2. CASE b.pulses # <<>>
  <2>1. Opening(b) = [phase |-> "pulses", left |-> Len(b.pulses)]
    BY <1>2 DEF Opening
  <2>2. QED BY <1>1, <2>1
<1>3. CASE b.pulses = <<>> /\ b.pilot > 0
  <2>1. Opening(b) = [phase |-> "pilot", left |-> b.pilot]
    BY <1>3 DEF Opening
  <2>2. QED BY <1>1, <2>1
<1>4. CASE b.pulses = <<>> /\ b.pilot = 0 /\ b.data # <<>>
  <2>1. Opening(b) = [phase |-> "data", left |-> 0]
    BY <1>4 DEF Opening
  <2>2. QED BY <2>1
<1>5. CASE b.pulses = <<>> /\ b.pilot = 0 /\ b.data = <<>>
  <2>1. Opening(b) = [phase |-> "pause", left |-> 0]
    BY <1>5 DEF Opening
  <2>2. QED BY <2>1
<1>6. QED BY <1>1, <1>2, <1>3, <1>4, <1>5

\* The lead-out changes pauses and nothing else.
LEMMA LeadOutTape ==
  ASSUME NEW tape \in Seq(Blocks)
  PROVE  LeadOut(tape) \in Seq(Blocks)
<1>1. \A k \in 1..Len(tape) : LeadOut(tape)[k] \in Blocks
  <2>1. SUFFICES ASSUME NEW k \in 1..Len(tape) PROVE LeadOut(tape)[k] \in Blocks
    OBVIOUS
  <2>2. tape[k] \in Blocks
    OBVIOUS
  <2>3. [tape[k] EXCEPT !.pause = Edge] \in Blocks
    BY <2>2 DEF Blocks, Edge
  <2>4. QED BY <2>2, <2>3 DEF LeadOut
<1>2. LeadOut(tape) = [k \in 1..Len(tape) |-> LeadOut(tape)[k]]
  BY DEF LeadOut
<1>3. QED BY <1>1, <1>2

-----------------------------------------------------------------------------
(* Operations.                                                             *)

\* An empty deck is at the start of no tape.
LEMMA InitGood == Init => CursorInv
<1>1. SUFFICES ASSUME Init PROVE CursorInv
  OBVIOUS
<1>2. <<>> \in Seq(Blocks) /\ 1 \in 1..(Len(<<>>) + 1) /\ 0 \in Nat
  OBVIOUS
<1>3. Good(Stopped(1, <<>>), <<>>, 0)
  BY <1>2, StoppedGood
<1>4. QED BY <1>1, <1>2, <1>3 DEF Init, CursorInv

\* Putting a tape in, or none, leaves no cursor pointing into the one before.
LEMMA LoadGood ==
  ASSUME CursorInv, NEW tape \in Seq(Blocks), Load(tape)
  PROVE  CursorInv'
<1>1. Good(Stopped(1, tape), tape, now)
  BY StoppedGood DEF CursorInv
<1>2. QED BY <1>1 DEF Load, Operation, CursorInv

\* What the panel, the debugger and a reset do to the deck leaves good cursors.
LEMMA OperationsGood ==
  ASSUME CursorInv, Insert \/ Eject \/ Seek \/ Play \/ Stop \/ Reset \/ RestoreState
  PROVE  CursorInv'
<1> USE DEF CursorInv, Operation
<1>1. CASE Insert
  <2>1. PICK image \in Images : Load(LeadOut(image))
    BY <1>1 DEF Insert
  <2>2. LeadOut(image) \in Seq(Blocks)
    BY LeadOutTape, TapeAssumption
  <2>3. QED BY <2>1, <2>2, LoadGood
<1>2. CASE Eject
  <2>1. <<>> \in Seq(Blocks)
    OBVIOUS
  <2>2. QED BY <1>2, <2>1, LoadGood DEF Eject
<1>3. CASE Seek
  <2>1. PICK index \in 1..(Len(blocks) + 1) : deck' = Stopped(index, blocks)
    BY <1>3 DEF Seek
  <2>2. Good(deck', blocks, now)
    BY <2>1, StoppedGood
  <2>3. QED BY <1>3, <2>2 DEF Seek
<1>4. CASE Play
  <2>1. deck' \in Decks
    BY <1>4 DEF Play, Good, Decks
  <2>2. PointsInto(deck', blocks) /\ deck'.pulse_start <= now
    BY <1>4 DEF Play, Good, Decks, PointsInto
  <2>3. QED BY <1>4, <2>1, <2>2 DEF Play, Good
<1>5. ASSUME deck' = [deck EXCEPT !.playing = FALSE], NEW hc \in Nat
      PROVE  Good(deck', blocks, hc)
  <2>1. deck' \in Decks
    BY <1>5 DEF Good, Decks
  <2>2. PointsInto(deck', blocks) /\ ~deck'.playing
    BY <1>5 DEF Good, Decks, PointsInto
  <2>3. QED BY <2>1, <2>2 DEF Good
<1>6. CASE Stop
  <2>1. deck' = [deck EXCEPT !.playing = FALSE] /\ now' \in Nat /\ UNCHANGED <<blocks, at>>
    BY <1>6 DEF Stop
  <2>2. Good(deck', blocks, now')
    BY <1>5, <2>1
  <2>3. QED BY <1>6, <2>1, <2>2 DEF Stop
<1>7. CASE Reset
  <2>1. deck' = [deck EXCEPT !.playing = FALSE] /\ now' \in Nat /\ UNCHANGED <<blocks, at>>
    BY <1>7 DEF Reset
  <2>2. Good(deck', blocks, now')
    BY <1>5, <2>1
  <2>3. QED BY <1>7, <2>1, <2>2 DEF Reset
<1>8. CASE RestoreState
  BY <1>8 DEF RestoreState
<1>9. QED BY <1>1, <1>2, <1>3, <1>4, <1>6, <1>7, <1>8

-----------------------------------------------------------------------------
(* The walk.                                                               *)

\* A new pulse moves nothing but the level.
LEMMA ToggledCursor ==
  ASSUME NEW d \in Decks, NEW length \in Nat
  PROVE  \E t \in Decks :
           /\ t = Toggled(d, length)
           /\ t.playing = d.playing /\ t.block = d.block /\ t.phase = d.phase
           /\ t.byte = d.byte /\ t.bit = d.bit /\ t.second_half = d.second_half
           /\ t.pulses_left = d.pulses_left /\ t.pulse_start = d.pulse_start
<1>1. (~d.level) \in BOOLEAN
  OBVIOUS
<1>2. \E level \in BOOLEAN : Toggled(d, length) = [d EXCEPT !.level = level, !.pulse = length]
  BY <1>1, Zenon DEF Toggled
<1>3. PICK level \in BOOLEAN : Toggled(d, length) = [d EXCEPT !.level = level, !.pulse = length]
  BY <1>2
<1>4. QED BY <1>3 DEF Decks

\* advance() sees a playing cursor at a block of the tape, unless between two.
LEMMA WalkGood ==
  ASSUME CursorInv, Walk
  PROVE  CursorInv'
<1> USE DEF CursorInv
<1>1. deck \in Decks /\ deck.playing /\ PointsInto(deck, blocks) /\ deck.pulse_start <= now
  BY DEF Walk, EndPulse, StartBlock, PlayPulses, PlayPilot, PlaySync1, PlaySync2, PlayData,
         PlayPause, EndBlock, In, Good
<1>2. UNCHANGED <<blocks, now, saved, ops>> /\ at' \in {"free", "ear", "advance"}
  BY DEF Walk, EndPulse, StartBlock, PlayPulses, PlayPilot, PlaySync1, PlaySync2, PlayData,
         PlayPause, EndBlock, In, Continue, Returned, RanOut
<1>3. SUFFICES Good(deck', blocks, now) /\ (at' # "free" => deck'.playing)
  BY <1>2
<1>4. deck.phase # "idle" =>
        /\ Current \in Blocks
        /\ Current.pulses \in Seq(Nat) /\ Current.data \in Seq(Seq(Nat))
        /\ {Current.pilot_t, Current.sync1, Current.sync2, Current.pause} \subseteq Nat
  <2>1. SUFFICES ASSUME deck.phase # "idle"
                 PROVE  /\ Current \in Blocks
                        /\ Current.pulses \in Seq(Nat) /\ Current.data \in Seq(Seq(Nat))
                        /\ {Current.pilot_t, Current.sync1, Current.sync2, Current.pause} \subseteq Nat
    OBVIOUS
  <2>2. deck.block \in 1..Len(blocks)
    BY <1>1, <2>1 DEF PointsInto
  <2>3. Current \in Blocks
    BY <2>2 DEF Current
  <2>4. QED BY <2>3 DEF Blocks
<1>5. CASE EndPulse
  <2>1. CASE Elapsed
    <3>1. deck' = [deck EXCEPT !.pulse_start = @ + deck.pulse] /\ deck.pulse_start + deck.pulse <= now
      BY <1>5, <2>1, <1>1 DEF EndPulse, Elapsed, Decks
    <3>2. deck' \in Decks
      <4>1. deck.pulse_start + deck.pulse \in Nat
        BY <1>1 DEF Decks
      <4>2. QED BY <1>1, <3>1, <4>1 DEF Decks
    <3>3. PointsInto(deck', blocks) /\ deck'.playing /\ deck'.pulse_start <= now
      BY <1>1, <3>1 DEF Decks, PointsInto
    <3>4. QED BY <3>2, <3>3 DEF Good
  <2>2. CASE ~Elapsed
    BY <1>5, <2>2, <1>1 DEF EndPulse, Good
  <2>3. QED BY <2>1, <2>2
<1>6. ASSUME NEW d \in Decks, RanOut(d), PointsInto(d, blocks)
      PROVE  Good(deck', blocks, now) /\ at' = "free"
  <2>1. deck' \in Decks
    <3>1. (d.block > Len(blocks)) \in BOOLEAN
      OBVIOUS
    <3>2. \E ended \in BOOLEAN : deck' = [d EXCEPT !.playing = FALSE, !.at_end = ended]
      BY <1>6, <3>1, Zenon DEF RanOut
    <3>3. QED BY <3>2 DEF Decks
  <2>2. PointsInto(deck', blocks) /\ ~deck'.playing
    BY <1>6 DEF RanOut, Decks, PointsInto
  <2>3. QED BY <1>6, <2>1, <2>2 DEF Good, RanOut
<1>7. ASSUME NEW d \in Decks, deck' = d, PointsInto(d, blocks), d.playing, d.pulse_start <= now
      PROVE  Good(deck', blocks, now) /\ deck'.playing
  BY <1>7 DEF Good
<1>8. CASE StartBlock
  <2>1. CASE deck.block > Len(blocks)
    BY <1>1, <1>6, <1>8, <2>1 DEF StartBlock
  <2>2. CASE deck.block <= Len(blocks)
    <3>1. Current \in Blocks
      BY <1>1, <2>2 DEF Current, PointsInto
    <3>2. Started \in Decks
      BY <1>1, <3>1, OpeningWithin DEF Started, Decks, Phases
    <3>3. /\ Started.block = deck.block /\ Started.playing /\ Started.pulse_start <= now
          /\ Started.phase = Opening(Current).phase /\ Started.pulses_left = Opening(Current).left
          /\ Started.byte = 1 /\ Started.bit = 1
      BY <1>1 DEF Started, Decks
    <3>4. Len(Current.data) \in Nat
      BY <3>1 DEF Blocks
    <3>5. PointsInto(Started, blocks)
      BY <1>1, <2>2, <3>1, <3>3, <3>4, OpeningWithin DEF PointsInto, Current
    <3>6. deck' = Started
      BY <1>8, <1>1, <2>2 DEF StartBlock, Continue, PointsInto, Decks
    <3>7. QED BY <1>7, <3>2, <3>3, <3>5, <3>6
  <2>3. QED BY <2>1, <2>2, <1>1 DEF Decks
\* A step that moves within the block.
<1>9. ASSUME deck.phase # "idle", deck' \in Decks, deck'.phase # "idle",
             deck'.block = deck.block, deck'.playing, deck'.pulse_start = deck.pulse_start,
             deck'.phase = "pulses" => deck'.pulses_left <= Len(Current.pulses),
             deck'.phase \in {"pilot", "sync1", "sync2", "data"} =>
               deck'.byte \in 1..(Len(Current.data) + 1) /\ deck'.bit >= 1
      PROVE  Good(deck', blocks, now) /\ deck'.playing
  <2>1. PointsInto(deck', blocks)
    BY <1>1, <1>9 DEF PointsInto, Current
  <2>2. QED BY <1>1, <1>9, <2>1 DEF Good
<1>10. /\ deck.pulses_left \in Nat /\ deck.byte \in Nat /\ deck.bit \in Nat
       /\ deck.second_half \in BOOLEAN /\ deck.level \in BOOLEAN /\ deck.pulse \in Nat
       /\ deck.phase \in Phases /\ deck.block \in Nat
  BY <1>1 DEF Decks
\* Each of the other actions is such a step.
<1>11. CASE PlayPulses
  <2>1. deck.phase = "pulses" /\ deck.pulses_left <= Len(Current.pulses)
    BY <1>11, <1>1 DEF PlayPulses, In, PointsInto, Current
  <2>2. Current.pulses \in Seq(Nat) /\ Len(Current.pulses) \in Nat
    BY <1>4, <2>1
  <2>3. CASE deck.pulses_left > 0
    <3> DEFINE next == Current.pulses[Len(Current.pulses) - deck.pulses_left + 1]
    <3>1. Len(Current.pulses) - deck.pulses_left + 1 \in 1..Len(Current.pulses)
      BY <1>10, <2>1, <2>2, <2>3
    <3>2. next \in Nat
      BY <2>2, <3>1
    <3> HIDE DEF next
    <3>3. deck.pulses_left - 1 \in Nat /\ deck.pulses_left - 1 <= Len(Current.pulses)
      BY <1>10, <2>1, <2>2, <2>3
    <3>4. PICK t \in Decks :
                 /\ t = Toggled(deck, next)
                 /\ t.playing = deck.playing /\ t.block = deck.block /\ t.phase = deck.phase
                 /\ t.byte = deck.byte /\ t.bit = deck.bit /\ t.second_half = deck.second_half
                 /\ t.pulses_left = deck.pulses_left /\ t.pulse_start = deck.pulse_start
      BY <1>1, <3>2, ToggledCursor
    <3>4a. deck' = [t EXCEPT !.pulses_left = deck.pulses_left - 1]
      BY <1>11, <2>3, <3>4 DEF PlayPulses, Returned, next
    <3>5. deck' \in Decks /\ deck'.phase = "pulses" /\ deck'.pulses_left = deck.pulses_left - 1
          /\ deck'.block = deck.block /\ deck'.playing /\ deck'.pulse_start = deck.pulse_start
      BY <1>1, <2>1, <3>3, <3>4, <3>4a DEF Decks
    <3>6. QED BY <2>1, <3>3, <3>5, <1>9
  <2>4. CASE ~(deck.pulses_left > 0)
    <3>1. deck' = [deck EXCEPT !.phase = "pause"]
      BY <1>11, <2>4 DEF PlayPulses, Continue
    <3>2. QED BY <1>1, <2>1, <3>1, <1>9 DEF Decks, Phases
  <2>5. QED BY <2>3, <2>4
\* Before the data, and in it, the cursor is at a byte of it or just past.
<1>12. /\ deck.phase \in {"pilot", "sync1", "sync2", "data"} =>
            deck.byte \in 1..(Len(Current.data) + 1) /\ deck.bit >= 1
       /\ deck.phase # "idle" => Len(Current.data) \in Nat
  BY <1>1, <1>4 DEF PointsInto, Current
<1>13. CASE PlayPilot
  <2>1. deck.phase = "pilot" /\ Current.pilot_t \in Nat
    BY <1>13, <1>4 DEF PlayPilot, In
  <2>2. CASE deck.pulses_left > 0
    <3>1. deck.pulses_left - 1 \in Nat
      BY <1>10, <2>2
    <3>2. PICK t \in Decks :
                 /\ t = Toggled(deck, Current.pilot_t)
                 /\ t.playing = deck.playing /\ t.block = deck.block /\ t.phase = deck.phase
                 /\ t.byte = deck.byte /\ t.bit = deck.bit /\ t.second_half = deck.second_half
                 /\ t.pulses_left = deck.pulses_left /\ t.pulse_start = deck.pulse_start
      BY <1>1, <2>1, ToggledCursor
    <3>2a. deck' = [t EXCEPT !.pulses_left = deck.pulses_left - 1]
      BY <1>13, <2>2, <3>2 DEF PlayPilot, Returned
    <3>3. deck' \in Decks /\ deck'.phase = "pilot" /\ deck'.byte = deck.byte /\ deck'.bit = deck.bit
          /\ deck'.block = deck.block /\ deck'.playing /\ deck'.pulse_start = deck.pulse_start
      BY <1>1, <2>1, <3>1, <3>2, <3>2a DEF Decks
    <3>4. QED BY <2>1, <3>3, <1>9, <1>12
  <2>3. CASE ~(deck.pulses_left > 0)
    <3>1. deck' = [deck EXCEPT !.phase = "sync1"]
      BY <1>13, <2>3 DEF PlayPilot, Continue
    <3>2. deck' \in Decks /\ deck'.phase = "sync1" /\ deck'.byte = deck.byte /\ deck'.bit = deck.bit
          /\ deck'.block = deck.block /\ deck'.playing /\ deck'.pulse_start = deck.pulse_start
      BY <1>1, <3>1 DEF Decks, Phases
    <3>3. QED BY <2>1, <3>2, <1>9, <1>12
  <2>4. QED BY <2>2, <2>3
<1>14. CASE PlaySync1
  <2>1. deck.phase = "sync1" /\ Current.sync1 \in Nat
    BY <1>14, <1>4 DEF PlaySync1, In
  <2>2. PICK t \in Decks :
                 /\ t = Toggled(deck, Current.sync1)
                 /\ t.playing = deck.playing /\ t.block = deck.block /\ t.phase = deck.phase
                 /\ t.byte = deck.byte /\ t.bit = deck.bit /\ t.second_half = deck.second_half
                 /\ t.pulses_left = deck.pulses_left /\ t.pulse_start = deck.pulse_start
    BY <1>1, <2>1, ToggledCursor
  <2>2a. deck' = [t EXCEPT !.phase = "sync2"]
    BY <1>14, <2>2 DEF PlaySync1, Returned
  <2>3. deck' \in Decks /\ deck'.phase = "sync2" /\ deck'.byte = deck.byte /\ deck'.bit = deck.bit
        /\ deck'.block = deck.block /\ deck'.playing /\ deck'.pulse_start = deck.pulse_start
    BY <1>1, <2>1, <2>2, <2>2a DEF Decks, Phases
  <2>4. QED BY <2>1, <2>3, <1>9, <1>12
<1>15. CASE PlaySync2
  <2>1. deck.phase = "sync2" /\ Current.sync2 \in Nat
    BY <1>15, <1>4 DEF PlaySync2, In
  <2>2. PICK t \in Decks :
                 /\ t = Toggled(deck, Current.sync2)
                 /\ t.playing = deck.playing /\ t.block = deck.block /\ t.phase = deck.phase
                 /\ t.byte = deck.byte /\ t.bit = deck.bit /\ t.second_half = deck.second_half
                 /\ t.pulses_left = deck.pulses_left /\ t.pulse_start = deck.pulse_start
    BY <1>1, <2>1, ToggledCursor
  <2>2a. PICK phase \in {"pause", "data"} : deck' = [t EXCEPT !.phase = phase]
    BY <1>15, <2>2 DEF PlaySync2, Returned
  <2>3. deck' \in Decks /\ deck'.phase = phase /\ deck'.byte = deck.byte /\ deck'.bit = deck.bit
        /\ deck'.block = deck.block /\ deck'.playing /\ deck'.pulse_start = deck.pulse_start
    BY <1>1, <2>1, <2>2, <2>2a DEF Decks, Phases
  <2>4. QED BY <2>1, <2>3, <1>9, <1>12
<1>16. CASE PlayData
  <2>1. deck.phase = "data" /\ Current.data \in Seq(Seq(Nat))
    BY <1>16, <1>4 DEF PlayData, In
  <2>2. CASE deck.byte > Len(Current.data)
    <3>1. deck' = [deck EXCEPT !.phase = "pause"]
      BY <1>16, <2>2 DEF PlayData, Continue
    <3>2. QED BY <1>1, <2>1, <3>1, <1>9 DEF Decks, Phases
  <2>3. CASE deck.byte <= Len(Current.data) /\ deck.bit <= Len(Current.data[deck.byte])
    <3> DEFINE length == Current.data[deck.byte][deck.bit]
    <3>1. length \in Nat
      <4>1. deck.byte \in 1..Len(Current.data)
        BY <1>10, <1>12, <2>1, <2>3
      <4>2. Current.data[deck.byte] \in Seq(Nat)
        BY <2>1, <4>1
      <4>3. deck.bit \in 1..Len(Current.data[deck.byte])
        BY <1>10, <1>12, <2>1, <2>3, <4>2
      <4>4. QED BY <4>2, <4>3
    <3>2. ~(deck.byte > Len(Current.data))
      BY <1>10, <1>12, <2>1, <2>3
    <3>3. PICK t \in Decks :
                 /\ t = Toggled(deck, length)
                 /\ t.playing = deck.playing /\ t.block = deck.block /\ t.phase = deck.phase
                 /\ t.byte = deck.byte /\ t.bit = deck.bit /\ t.second_half = deck.second_half
                 /\ t.pulses_left = deck.pulses_left /\ t.pulse_start = deck.pulse_start
      BY <1>1, <3>1, ToggledCursor
    <3>3a. deck' = [t EXCEPT !.second_half = ~@, !.bit = IF deck.second_half THEN @ + 1 ELSE @]
      BY <1>16, <2>3, <3>2, <3>3 DEF PlayData, Returned
    <3> HIDE DEF length
    <3>4. PICK half \in BOOLEAN, bit \in {deck.bit, deck.bit + 1} :
            deck' = [t EXCEPT !.second_half = half, !.bit = bit]
      <4> DEFINE half == ~t.second_half
                 bit == IF deck.second_half THEN t.bit + 1 ELSE t.bit
      <4>1. half \in BOOLEAN
        OBVIOUS
      <4>2. bit \in {deck.bit, deck.bit + 1}
        BY <3>3
      <4>3. deck' = [t EXCEPT !.second_half = half, !.bit = bit]
        BY <3>3a, Zenon
      <4> HIDE DEF half, bit
      <4>4. QED BY <4>1, <4>2, <4>3
    <3>5. bit \in Nat /\ bit >= 1
      BY <1>10, <1>12, <2>1, <3>4
    <3>6. deck' \in Decks /\ deck'.phase = "data" /\ deck'.byte = deck.byte /\ deck'.bit = bit
          /\ deck'.block = deck.block /\ deck'.playing /\ deck'.pulse_start = deck.pulse_start
      BY <1>1, <2>1, <3>3, <3>4, <3>5 DEF Decks
    <3>7. QED BY <2>1, <3>5, <3>6, <1>9, <1>12
  <2>4. CASE deck.byte <= Len(Current.data) /\ ~(deck.bit <= Len(Current.data[deck.byte]))
    <3>1. ~(deck.byte > Len(Current.data))
      BY <1>10, <1>12, <2>1, <2>4
    <3>2. deck' = [deck EXCEPT !.byte = deck.byte + 1, !.bit = 1, !.second_half = FALSE]
      BY <1>16, <2>4, <3>1 DEF PlayData, Continue
    <3>3. deck.byte + 1 \in 1..(Len(Current.data) + 1)
      BY <1>10, <1>12, <2>1, <2>4
    <3>4a. deck.byte + 1 \in Nat
      BY <1>10
    <3>4. deck' \in Decks /\ deck'.phase = "data" /\ deck'.byte = deck.byte + 1 /\ deck'.bit = 1
          /\ deck'.block = deck.block /\ deck'.playing /\ deck'.pulse_start = deck.pulse_start
      BY <1>1, <2>1, <3>2, <3>4a DEF Decks
    <3>5. QED BY <2>1, <3>3, <3>4, <1>9
  <2>5. QED BY <1>10, <1>12, <2>1, <2>2, <2>3, <2>4
<1>17. CASE PlayPause
  <2>1. deck.phase = "pause" /\ Current.pause \in Nat
    BY <1>17, <1>4 DEF PlayPause, In
  <2>2. CASE Current.pause # 0 /\ ~deck.second_half
    <3>1. Edge \in Nat
      BY DEF Edge
    <3>2. PICK t \in Decks :
                 /\ t = Toggled(deck, Edge)
                 /\ t.playing = deck.playing /\ t.block = deck.block /\ t.phase = deck.phase
                 /\ t.byte = deck.byte /\ t.bit = deck.bit /\ t.second_half = deck.second_half
                 /\ t.pulses_left = deck.pulses_left /\ t.pulse_start = deck.pulse_start
      BY <1>1, <3>1, ToggledCursor
    <3>2a. deck' = [t EXCEPT !.second_half = TRUE]
      BY <1>17, <2>2, <3>2 DEF PlayPause, Returned
    <3>3. deck' \in Decks /\ deck'.phase = "pause"
          /\ deck'.block = deck.block /\ deck'.playing /\ deck'.pulse_start = deck.pulse_start
      BY <1>1, <2>1, <3>2, <3>2a DEF Decks
    <3>4. QED BY <2>1, <3>3, <1>9
  <2>3. CASE Current.pause # 0 /\ deck.second_half /\ Current.pause > Edge
    <3>1. deck' = [deck EXCEPT !.phase = "end", !.level = FALSE, !.pulse = Current.pause - Edge]
      BY <1>17, <2>3 DEF PlayPause, Returned
    <3>2. Current.pause - Edge \in Nat
      BY <2>1, <2>3 DEF Edge
    <3>3. deck' \in Decks /\ deck'.phase = "end"
          /\ deck'.block = deck.block /\ deck'.playing /\ deck'.pulse_start = deck.pulse_start
      BY <1>1, <3>1, <3>2 DEF Decks, Phases
    <3>4. QED BY <2>1, <3>3, <1>9
  <2>4. CASE Current.pause = 0 \/ (deck.second_half /\ ~(Current.pause > Edge))
    <3>1. deck' = [deck EXCEPT !.phase = "end"]
      BY <1>17, <2>4 DEF PlayPause, Continue
    <3>2. QED BY <1>1, <2>1, <3>1, <1>9 DEF Decks, Phases
  <2>5. QED BY <2>2, <2>3, <2>4
<1>18. CASE EndBlock
  <2> DEFINE next == [deck EXCEPT !.block = deck.block + 1, !.phase = "idle", !.block_start = deck.pulse_start]
  <2>1. deck.block \in 1..Len(blocks) /\ deck.pulse_start \in Nat /\ deck.block + 1 \in Nat
    BY <1>18, <1>1, <1>10 DEF EndBlock, In, PointsInto, Decks
  <2>2. next \in Decks /\ next.playing /\ next.pulse_start <= now
    BY <1>1, <2>1 DEF Decks, Phases
  <2>3. PointsInto(next, blocks)
    BY <1>1, <1>10, <2>1 DEF PointsInto, Decks
  <2>4. RanOut(next) \/ (deck' = next /\ at' = "advance")
    BY <1>18 DEF EndBlock, Continue
  <2> HIDE DEF next
  <2>5. QED BY <1>6, <1>7, <2>2, <2>3, <2>4
<1>19. QED BY <1>5, <1>8, <1>11, <1>13, <1>14, <1>15, <1>16, <1>17, <1>18 DEF Walk

-----------------------------------------------------------------------------
(* The rest of the machine.                                                *)

\* The clock only moves away from the cursor.
LEMMA TickGood ==
  ASSUME CursorInv, Tick
  PROVE  CursorInv'
<1>1. now' = now + 1 /\ now' \in Nat /\ UNCHANGED <<blocks, deck, saved, ops, at>>
  BY DEF Tick, CursorInv
<1>2. Good(deck', blocks', now')
  BY <1>1 DEF CursorInv, Good, Decks
<1>3. QED BY <1>1, <1>2 DEF CursorInv

\* Only a playing tape is walked.
LEMMA PullGood ==
  ASSUME CursorInv, Pull
  PROVE  CursorInv'
<1>1. deck.playing /\ deck.pulse_start <= now /\ deck.pulse_start \in Nat /\ now \in Nat
  BY DEF Pull, CursorInv, Good, Decks
<1>2. deck' = deck /\ at' = "ear" /\ UNCHANGED <<blocks, now, saved, ops>>
  BY <1>1 DEF Pull
<1>3. QED BY <1>1, <1>2 DEF CursorInv

\* A consumed block leaves the cursor at the start of the one after.
LEMMA FastLoadGood ==
  ASSUME CursorInv, FastLoad
  PROVE  CursorInv'
<1>1. deck \in Decks /\ now \in Nat /\ deck.block \in 1..Len(blocks) /\ blocks \in Seq(Blocks)
  BY DEF FastLoad, StandardBlock, CursorInv, Good, PointsInto
<1>2. Current \in Blocks
  BY <1>1 DEF Current
<1>2a. Current.pause \in Nat
  BY <1>2 DEF Blocks
<1>2b. deck.block + 1 \in Nat
  BY <1>1 DEF Decks
<1>3. deck' = [deck EXCEPT !.block = deck.block + 1, !.phase = "idle", !.level = FALSE,
                           !.pulse_start = now, !.pulse = Current.pause, !.block_start = now]
  BY DEF FastLoad
<1>4. UNCHANGED <<blocks, now, saved, ops, at>>
  BY DEF FastLoad
<1>5. deck' \in Decks
  BY <1>1, <1>2a, <1>2b, <1>3 DEF Decks, Phases
<1>6. PointsInto(deck', blocks) /\ deck'.pulse_start = now
  BY <1>1, <1>3 DEF PointsInto, Decks
<1>7. at = "free"
  BY DEF FastLoad, Walked
<1>8. QED BY <1>1, <1>4, <1>5, <1>6, <1>7 DEF CursorInv, Good

\* A checkpoint is the deck's own cursor, at its own instant.
LEMMA SaveStateGood ==
  ASSUME CursorInv, SaveState
  PROVE  CursorInv'
<1>1. PICK kept \in SUBSET saved : saved' = kept \cup {[deck |-> deck, now |-> now]}
  BY DEF SaveState
<1>2. \A s \in saved' : s \in [deck : Decks, now : Nat] /\ Good(s.deck, blocks, s.now)
  BY <1>1 DEF CursorInv, Good
<1>3. QED BY <1>2 DEF SaveState, Operation, CursorInv

\* The invariant is inductive.
LEMMA NextGood == CursorInv /\ [Next]_vars => CursorInv'
<1>1. SUFFICES ASSUME CursorInv, [Next]_vars PROVE CursorInv'
  OBVIOUS
<1>2. CASE Insert \/ Eject \/ Seek \/ Play \/ Stop \/ Reset \/ RestoreState
  BY <1>1, <1>2, OperationsGood
<1>3. CASE Walk
  BY <1>1, <1>3, WalkGood
<1>4. CASE Tick
  BY <1>1, <1>4, TickGood
<1>5. CASE Pull
  BY <1>1, <1>5, PullGood
<1>6. CASE FastLoad
  BY <1>1, <1>6, FastLoadGood
<1>7. CASE SaveState
  BY <1>1, <1>7, SaveStateGood
<1>8. CASE UNCHANGED vars
  BY <1>1, <1>8 DEF vars, CursorInv
<1>9. QED BY <1>1, <1>2, <1>3, <1>4, <1>5, <1>6, <1>7, <1>8 DEF Next

-----------------------------------------------------------------------------
(* Theorems.                                                               *)

\* The inductive invariant holds of every state the deck reaches.
THEOREM Invariance == Spec => []CursorInv
<1>1. Init => CursorInv
  BY InitGood
<1>2. CursorInv /\ [Next]_vars => CursorInv'
  BY NextGood
<1>3. QED BY <1>1, <1>2, PTL DEF Spec

\* The deck's state has its shape.
THEOREM TypeCorrect == Spec => []TypeOK
<1>1. CursorInv => TypeOK
  BY DEF CursorInv, TypeOK, Good
<1>2. QED BY <1>1, Invariance, PTL

\* advance() never indexes past a tape, a block, its pulses or its bytes,
\* whatever has been inserted, sought, rewound to or loaded in between; and a
\* playing tape's pulse has always begun: the motor is never stopped for a
\* clock that went backwards.
THEOREM CursorAlwaysFits == Spec => []CursorFits
<1>1. CursorInv => IndicesInRange
  BY DEF CursorInv, IndicesInRange, Good
<1>2. CursorInv => NeverAhead
  BY DEF CursorInv, NeverAhead, Good
<1>3. QED BY <1>1, <1>2, Invariance, PTL DEF CursorFits
-----------------------------------------------------------------------------
(* Numbers and lists.                                                      *)

\* What fails of a number fails of a least one.
LEMMA Least ==
  ASSUME NEW T, T \subseteq Nat, T # {}
  PROVE  \E n \in T : \A m \in T : n <= m
<1> DEFINE R == OpToRel(<, Nat)
<1>1. IsWellFoundedOn(R, Nat)
  BY NatLessThanWellFounded
<1>2. PICK n \in T : \A m \in T : ~(<<m, n>> \in R)
  BY <1>1, WFMin
<1>3. \A m \in T : ~(m < n)
  BY <1>2 DEF OpToRel
<1> QED BY <1>3

\* Induction, up to a bound.
LEMMA Inductive ==
  ASSUME NEW N \in Nat, NEW T, 0 \in T, \A n \in 0..(N - 1) : n \in T => n + 1 \in T
  PROVE  \A n \in 0..N : n \in T
<1> DEFINE U == {n \in 0..N : n \notin T}
<1>1. CASE U = {}
  BY <1>1
<1>2. CASE U # {}
  <2>1. PICK n \in U : \A m \in U : n <= m
    <3>1. U \subseteq Nat
      OBVIOUS
    <3> HIDE DEF U
    <3> QED BY <1>2, <3>1, Least
  <2>2. n - 1 \in 0..(N - 1) /\ n - 1 \in 0..N /\ ~(n <= n - 1) /\ (n - 1) + 1 = n
    BY <2>1
  <2>3. n - 1 \in T
    BY <2>1, <2>2
  <2> QED BY <2>1, <2>2, <2>3
<1> QED BY <1>1, <1>2

\* g[n] is the first n lists of s end to end.
Flat(g, s, S) ==
  g \in [0..Len(s) -> Seq(S)] /\ g[0] = <<>> /\ \A i \in 1..Len(s) : g[i] = g[i - 1] \o s[i]

LEMMA FlatThere ==
  ASSUME NEW S, NEW s \in Seq(Seq(S))
  PROVE  \E g : Flat(g, s, S)
<1> DEFINE N == Len(s)
           Upto(g, n) == g \in [0..n -> Seq(S)] /\ g[0] = <<>> /\ \A i \in 1..n : g[i] = g[i - 1] \o s[i]
           T == {n \in 0..N : \E g : Upto(g, n)}
<1>0. N \in Nat /\ \A i \in 1..N : s[i] \in Seq(S)
  BY LenProperties, ElementOfSeq
<1> HIDE DEF N
<1>1. 0 \in T
  <2>1. <<>> \in Seq(S)
    BY EmptySeq
  <2>2. Upto([i \in 0..0 |-> <<>>], 0)
    BY <2>1
  <2> HIDE DEF Upto
  <2>3. \E g : Upto(g, 0)
    BY <2>2
  <2> QED BY <1>0, <2>3
<1>2. ASSUME NEW n \in 0..(N - 1), n \in T PROVE n + 1 \in T
  <2>1. PICK g : Upto(g, n)
    BY <1>2
  <2>2. n + 1 \in 1..N /\ n + 1 \in 0..N /\ n \in 0..n
    BY <1>0
  <2> DEFINE h == [i \in 0..(n + 1) |-> IF i = n + 1 THEN g[n] \o s[n + 1] ELSE g[i]]
  <2>3. g[n] \o s[n + 1] \in Seq(S)
    <3>1. g[n] \in Seq(S) /\ s[n + 1] \in Seq(S)
      BY <1>0, <2>1, <2>2
    <3> QED BY <3>1, ConcatProperties
  <2>4. h \in [0..(n + 1) -> Seq(S)] /\ h[0] = <<>>
    BY <2>1, <2>3
  <2>5. ASSUME NEW i \in 1..(n + 1) PROVE h[i] = h[i - 1] \o s[i]
    <3>1. CASE i = n + 1
      <4>0. n + 1 \in 0..(n + 1)
        BY <1>0
      <4>1. h[n + 1] = g[n] \o s[n + 1]
        BY <4>0, Zenon
      <4>2. n \in 0..(n + 1) /\ n # n + 1
        BY <1>0
      <4>3. i - 1 = n /\ h[n] = g[n]
        BY <3>1, <4>2
      <4> HIDE DEF h
      <4> QED BY <3>1, <4>1, <4>3
    <3>2. CASE i # n + 1
      <4>1. i \in 1..n /\ h[i] = g[i] /\ h[i - 1] = g[i - 1]
        BY <1>0, <3>2
      <4> HIDE DEF h
      <4> QED BY <2>1, <4>1
    <3> QED BY <3>1, <3>2
  <2> HIDE DEF h
  <2>6. Upto(h, n + 1)
    BY <2>4, <2>5
  <2> QED BY <2>2, <2>6
<1>3. N \in T
  <2> HIDE DEF T
  <2>1. \A n \in 0..N : n \in T
    BY <1>0, <1>1, <1>2, Inductive
  <2> QED BY <1>0, <2>1
<1> QED BY <1>3 DEF Flat, N

\* There is one such g, and for what s begins with it is the same.
Begins(t, s) == Len(t) <= Len(s) /\ \A i \in 1..Len(t) : t[i] = s[i]
SameUpTo(n, g, h) == \A i \in 0..n : g[i] = h[i]

LEMMA FlatOnce ==
  ASSUME NEW S, NEW s \in Seq(Seq(S)), NEW t \in Seq(Seq(S)), Begins(t, s),
         NEW g, Flat(g, s, S), NEW h, Flat(h, t, S)
  PROVE  SameUpTo(Len(t), g, h)
<1> USE DEF Begins
<1> DEFINE N == Len(t)
           T == {n \in 0..N : g[n] = h[n]}
<1>0. N \in Nat /\ Len(s) \in Nat
  BY LenProperties
<1>1. 0 \in T
  BY <1>0 DEF Flat
<1>2. ASSUME NEW n \in 0..(N - 1), n \in T PROVE n + 1 \in T
  <2>1. n + 1 \in 1..N /\ n + 1 \in 1..Len(s) /\ n + 1 \in 0..N /\ (n + 1) - 1 = n
    BY <1>0
  <2>2. g[n + 1] = g[n] \o s[n + 1] /\ h[n + 1] = h[n] \o t[n + 1]
    BY <2>1 DEF Flat
  <2> QED BY <1>2, <2>1, <2>2
<1> HIDE DEF T
<1>3. \A n \in 0..N : n \in T
  BY <1>0, <1>1, <1>2, Inductive
<1> QED BY <1>3 DEF T, SameUpTo

\* FlattenSeq is the last.
LEMMA FlattenIs ==
  ASSUME NEW S, NEW s \in Seq(Seq(S)), NEW g, Flat(g, s, S)
  PROVE  FlattenSeq(s) = g[Len(s)]
<1>0. Len(s) \in Nat /\ (\A i \in 1..Len(s) : s[i] \in Seq(S)) /\ s \in [1..Len(s) -> Seq(S)]
  BY LenProperties, ElementOfSeq
<1>1. CASE Len(s) = 0
  <2>1. s = <<>>
    BY <1>1, EmptySeq
  <2> QED BY <1>1, <2>1 DEF FlattenSeq, Flat
<1>2. CASE Len(s) # 0
  <2> DEFINE N == Len(s)
             Next1(f) == [i \in 1..N |-> IF i = 1 THEN s[i] ELSE f[i - 1] \o s[i]]
             f1 == [i \in 1..N |-> g[i]]
  <2>1. ASSUME NEW i \in 1..N PROVE f1[i] = Next1(f1)[i]
    <3>1. g[i] = g[i - 1] \o s[i] /\ s[i] \in Seq(S)
      BY <1>0 DEF Flat
    <3>2. CASE i = 1
      <4>1. g[i - 1] = <<>>
        BY <3>2 DEF Flat
      <4>2. g[i] = s[i]
        BY <3>1, <4>1, ConcatEmptySeq
      <4> QED BY <3>2, <4>2
    <3>3. CASE i # 1
      <4>1. i - 1 \in 1..N
        BY <1>0, <3>3
      <4> QED BY <3>1, <3>3, <4>1
    <3> QED BY <3>2, <3>3
  <2>2. f1 = Next1(f1)
    BY <2>1
  <2> DEFINE flatten[i \in 1..N] == IF i = 1 THEN s[i] ELSE flatten[i - 1] \o s[i]
  <2>3. flatten = Next1(flatten)
    BY <2>2
  <2>3a. \A i \in 1..N : flatten[i] = IF i = 1 THEN s[i] ELSE flatten[i - 1] \o s[i]
    <3> HIDE DEF flatten
    <3>1. \A i \in 1..N : Next1(flatten)[i] = IF i = 1 THEN s[i] ELSE flatten[i - 1] \o s[i]
      OBVIOUS
    <3> HIDE DEF Next1
    <3> QED BY <2>3, <3>1
  <2>4. FlattenSeq(s) = flatten[N]
    BY <1>2 DEF FlattenSeq
  <2> HIDE DEF flatten, f1
  <2> DEFINE T == {n \in 0..N : n > 0 => flatten[n] = g[n]}
  <2>5. 0 \in T
    BY <1>0
  <2>6. ASSUME NEW n \in 0..(N - 1), n \in T PROVE n + 1 \in T
    <3>1. n + 1 \in 1..N /\ n + 1 \in 0..N /\ (n + 1) - 1 = n
      BY <1>0
    <3>2. g[n + 1] = g[n] \o s[n + 1] /\ s[n + 1] \in Seq(S)
      BY <1>0, <3>1 DEF Flat
    <3>3. CASE n = 0
      <4>1. g[n] = <<>>
        BY <3>3 DEF Flat
      <4>2. g[n + 1] = s[n + 1]
        BY <3>2, <4>1, ConcatEmptySeq
      <4> QED BY <2>3a, <3>1, <3>3, <4>2
    <3>4. CASE n # 0
      <4>1. flatten[n] = g[n]
        BY <2>6, <3>4
      <4>2. flatten[n + 1] = flatten[n] \o s[n + 1]
        <5>1. flatten[n + 1] = flatten[(n + 1) - 1] \o s[n + 1]
          <6>1. n + 1 # 1
            BY <3>1, <3>4
          <6> QED BY <2>3a, <3>1, <6>1
        <5> QED BY <3>1, <5>1
      <4> QED BY <3>1, <3>2, <4>1, <4>2
    <3> QED BY <3>3, <3>4
  <2>7. N \in T
    <3> HIDE DEF T
    <3>1. \A n \in 0..N : n \in T
      BY <1>0, <2>5, <2>6, Inductive
    <3> QED BY <1>0, <3>1
  <2> QED BY <1>0, <1>2, <2>4, <2>7
<1> QED BY <1>1, <1>2

-----------------------------------------------------------------------------
(* The pulses of a block.                                                  *)

\* The bits of the block's first n bytes.
Bits(b, n) == FlattenSeq(SubSeq(b.data, 1, n))

\* A piece of a list from its start.
LEMMA Front1 ==
  ASSUME NEW S, NEW s \in Seq(S), NEW n \in 0..Len(s)
  PROVE  /\ SubSeq(s, 1, n) \in Seq(S) /\ Len(SubSeq(s, 1, n)) = n
         /\ \A i \in 1..n : SubSeq(s, 1, n)[i] = s[i]
<1>1. Len(s) \in Nat /\ n \in Int /\ 1 \in Int /\ n \in Nat
  BY LenProperties
<1>2. \A i \in 1..n : s[i] \in S
  BY <1>1, ElementOfSeq
<1> DEFINE p == SubSeq(s, 1, n)
<1>3. p \in Seq(S) /\ Len(p) = (IF 1 <= n THEN n - 1 + 1 ELSE 0)
      /\ \A i \in 1..(n - 1 + 1) : p[i] = s[1 + i - 1]
  BY <1>1, <1>2, SubSeqProperties
<1> HIDE DEF p
<1>4. n - 1 + 1 = n /\ (1 <= n \/ n = 0) /\ \A i \in 1..n : 1 + i - 1 = i
  BY <1>1
<1>5. Len(p) = n
  BY <1>3, <1>4
<1>6. \A i \in 1..n : p[i] = s[i]
  BY <1>3, <1>4
<1> QED BY <1>3, <1>5, <1>6 DEF p

\* Byte by byte they grow by the byte's.
LEMMA BitsAre ==
  ASSUME NEW b \in Blocks
  PROVE  /\ \A n \in 0..Len(b.data) : Bits(b, n) \in Seq(Nat)
         /\ Bits(b, 0) = <<>> /\ Bits(b, Len(b.data)) = FlattenSeq(b.data)
         /\ \A n \in 1..Len(b.data) : b.data[n] \in Seq(Nat) /\ Bits(b, n) = Bits(b, n - 1) \o b.data[n]
<1> DEFINE d == b.data
           N == Len(d)
<1>1. d \in Seq(Seq(Nat)) /\ N \in Nat /\ \A n \in 1..N : d[n] \in Seq(Nat)
  BY LenProperties, ElementOfSeq DEF Blocks
<1> HIDE DEF d
<1>2. PICK g : Flat(g, d, Nat)
  BY <1>1, FlatThere
<1>3. ASSUME NEW n \in 0..N PROVE FlattenSeq(SubSeq(d, 1, n)) = g[n] /\ g[n] \in Seq(Nat)
  <2> DEFINE p == SubSeq(d, 1, n)
  <2>1. p \in Seq(Seq(Nat)) /\ Len(p) = n /\ \A i \in 1..n : p[i] = d[i]
    BY <1>1, Front1
  <2> HIDE DEF p
  <2>2. PICK h : Flat(h, p, Nat)
    BY <2>1, FlatThere
  <2>3. FlattenSeq(p) = h[n]
    BY <2>1, <2>2, FlattenIs
  <2>4. n <= N /\ n \in 0..n
    BY <1>1
  <2>5. \A i \in 0..n : g[i] = h[i]
    <3>1. Begins(p, d)
      BY <2>1, <2>4 DEF Begins
    <3>2. SameUpTo(Len(p), g, h)
      BY <1>1, <1>2, <2>1, <2>2, <3>1, FlatOnce
    <3> QED BY <2>1, <3>2 DEF SameUpTo
  <2>6. g[n] \in Seq(Nat)
    BY <1>2 DEF Flat
  <2> QED BY <2>3, <2>4, <2>5, <2>6 DEF p
<1>4. FlattenSeq(d) = g[N]
  BY <1>1, <1>2, FlattenIs
<1>5. 0 \in 0..N /\ N \in 0..N /\ \A n \in 1..N : n \in 0..N /\ n - 1 \in 0..N
  BY <1>1
<1>6. \A n \in 0..N : Bits(b, n) = g[n] /\ Bits(b, n) \in Seq(Nat)
  BY <1>3 DEF Bits, d
<1>7. g[0] = <<>> /\ \A n \in 1..N : g[n] = g[n - 1] \o d[n]
  BY <1>2 DEF Flat
<1> QED BY <1>1, <1>4, <1>5, <1>6, <1>7 DEF d

\* So each byte's are where its place says, among all of them.
LEMMA BitIs ==
  ASSUME NEW b \in Blocks, NEW n \in 1..Len(b.data), NEW k \in 1..Len(b.data[n])
  PROVE  /\ Len(Bits(b, n - 1)) \in Nat
         /\ Len(Bits(b, n - 1)) + k \in 1..Len(FlattenSeq(b.data))
         /\ FlattenSeq(b.data)[Len(Bits(b, n - 1)) + k] = b.data[n][k]
<1> DEFINE N == Len(b.data)
           at1 == Len(Bits(b, n - 1)) + k
           T == {m \in 0..N : m >= n => at1 <= Len(Bits(b, m)) /\ Bits(b, m)[at1] = b.data[n][k]}
<1>0. N \in Nat /\ n \in 1..N /\ n - 1 \in 0..N
  <2>1. b.data \in Seq(Seq(Nat))
    BY DEF Blocks
  <2>2. N \in Nat
    BY <2>1, LenProperties
  <2> QED BY <2>2
<1>1. /\ \A m \in 0..N : Bits(b, m) \in Seq(Nat) /\ Len(Bits(b, m)) \in Nat
      /\ \A m \in 1..N : b.data[m] \in Seq(Nat) /\ Len(b.data[m]) \in Nat /\ Bits(b, m) = Bits(b, m - 1) \o b.data[m]
      /\ Bits(b, N) = FlattenSeq(b.data)
  BY BitsAre, LenProperties
<1>2. Len(Bits(b, n - 1)) \in Nat /\ at1 \in Nat /\ at1 >= 1 /\ k \in 1..Len(b.data[n])
  BY <1>0, <1>1
<1>3. ASSUME NEW m \in 1..N
      PROVE  /\ Len(Bits(b, m)) = Len(Bits(b, m - 1)) + Len(b.data[m])
             /\ \A i \in 1..(Len(Bits(b, m - 1)) + Len(b.data[m])) :
                   Bits(b, m)[i] = IF i <= Len(Bits(b, m - 1)) THEN Bits(b, m - 1)[i]
                                   ELSE b.data[m][i - Len(Bits(b, m - 1))]
  <2>1. m - 1 \in 0..N
    BY <1>0
  <2>2. Bits(b, m - 1) \in Seq(Nat) /\ b.data[m] \in Seq(Nat) /\ Bits(b, m) = Bits(b, m - 1) \o b.data[m]
    BY <1>1, <2>1
  <2> DEFINE x == Bits(b, m - 1)
             y == b.data[m]
             z == Bits(b, m)
  <2>3. x \in Seq(Nat) /\ y \in Seq(Nat) /\ z = x \o y
    BY <2>2
  <2> HIDE DEF x, y, z
  <2>4. Len(z) = Len(x) + Len(y)
        /\ \A i \in 1..(Len(x) + Len(y)) : z[i] = IF i <= Len(x) THEN x[i] ELSE y[i - Len(x)]
    BY <2>3, ConcatProperties
  <2> QED BY <2>4 DEF x, y, z
<1>4. 0 \in T
  BY <1>0
<1>5. ASSUME NEW m \in 0..(N - 1), m \in T PROVE m + 1 \in T
  <2>1. m + 1 \in 1..N /\ (m + 1) - 1 = m /\ m + 1 \in 0..N /\ m \in 0..N
    BY <1>0
  <2>2. /\ Len(Bits(b, m + 1)) = Len(Bits(b, m)) + Len(b.data[m + 1])
        /\ \A i \in 1..(Len(Bits(b, m)) + Len(b.data[m + 1])) :
              Bits(b, m + 1)[i] = IF i <= Len(Bits(b, m)) THEN Bits(b, m)[i]
                                  ELSE b.data[m + 1][i - Len(Bits(b, m))]
    BY <1>3, <2>1
  <2>3. Len(Bits(b, m)) \in Nat /\ Len(b.data[m + 1]) \in Nat
    BY <1>1, <2>1
  <2>4. CASE m + 1 < n
    BY <1>0, <2>1, <2>4
  <2>5. CASE m + 1 = n
    <3>1. m = n - 1
      BY <1>0, <2>5
    <3>2. at1 = Len(Bits(b, m)) + k
      BY <3>1
    <3> HIDE DEF at1
    <3>3. at1 \in 1..(Len(Bits(b, m)) + Len(b.data[m + 1])) /\ ~(at1 <= Len(Bits(b, m)))
          /\ at1 - Len(Bits(b, m)) = k
      BY <1>2, <2>3, <2>5, <3>2
    <3>4. Bits(b, m + 1)[at1] = b.data[m + 1][k]
      BY <2>2, <3>3
    <3>5. at1 <= Len(Bits(b, m + 1))
      BY <2>2, <3>3
    <3> QED BY <2>1, <2>5, <3>4, <3>5
  <2>6. CASE m + 1 > n
    <3>1. m >= n
      BY <1>0, <2>1, <2>6
    <3>2. at1 <= Len(Bits(b, m)) /\ Bits(b, m)[at1] = b.data[n][k]
      BY <1>5, <3>1
    <3> HIDE DEF at1
    <3>3. at1 \in 1..(Len(Bits(b, m)) + Len(b.data[m + 1])) /\ at1 <= Len(Bits(b, m + 1))
      BY <1>2, <2>2, <2>3, <3>2
    <3>4. Bits(b, m + 1)[at1] = b.data[n][k]
      BY <2>2, <3>2, <3>3
    <3> QED BY <2>1, <3>3, <3>4
  <2> QED BY <1>0, <2>1, <2>4, <2>5, <2>6
<1>6. N \in T
  <2> HIDE DEF T
  <2>1. \A m \in 0..N : m \in T
    BY <1>0, <1>4, <1>5, Inductive
  <2> QED BY <1>0, <2>1
<1>7. at1 <= Len(FlattenSeq(b.data)) /\ FlattenSeq(b.data)[at1] = b.data[n][k]
  BY <1>0, <1>1, <1>6
<1>8. Len(FlattenSeq(b.data)) \in Nat
  BY <1>0, <1>1
<1> HIDE DEF at1
<1>9. at1 \in 1..Len(FlattenSeq(b.data))
  BY <1>2, <1>7, <1>8
<1> QED BY <1>2, <1>7, <1>9 DEF at1

Pulses == [edge : BOOLEAN, length : Nat]

\* The parts of a block are numbers and lists of them.
LEMMA BlockIs ==
  ASSUME NEW b \in Blocks
  PROVE  /\ b.pulses \in Seq(Nat) /\ Len(b.pulses) \in Nat /\ b.data \in Seq(Seq(Nat)) /\ Len(b.data) \in Nat
         /\ b.pilot \in Nat /\ b.pilot_t \in Nat /\ b.sync1 \in Nat /\ b.sync2 \in Nat /\ b.pause \in Nat
         /\ FlattenSeq(b.data) \in Seq(Nat) /\ Len(FlattenSeq(b.data)) \in Nat
<1>1. /\ b.pulses \in Seq(Nat) /\ b.data \in Seq(Seq(Nat))
      /\ b.pilot \in Nat /\ b.pilot_t \in Nat /\ b.sync1 \in Nat /\ b.sync2 \in Nat /\ b.pause \in Nat
  BY DEF Blocks
<1>2. Len(b.pulses) \in Nat /\ Len(b.data) \in Nat
  BY <1>1, LenProperties
<1>3. FlattenSeq(b.data) \in Seq(Nat)
  <2>1. Len(b.data) \in 0..Len(b.data)
    BY <1>2
  <2>2. Bits(b, Len(b.data)) \in Seq(Nat) /\ Bits(b, Len(b.data)) = FlattenSeq(b.data)
    BY <2>1, BitsAre
  <2> QED BY <2>2
<1> QED BY <1>1, <1>2, <1>3, LenProperties

\* The pilot's pulses, and the two after them.
LEMMA LeaderIs ==
  ASSUME NEW b \in Blocks
  PROVE  /\ Leader(b) \in Seq(Pulses)
         /\ Len(Leader(b)) = IF b.pilot = 0 THEN 0 ELSE b.pilot + 2
         /\ b.pilot > 0 => /\ \A k \in 1..b.pilot : Leader(b)[k] = EdgeOf(b.pilot_t)
                           /\ Leader(b)[b.pilot + 1] = EdgeOf(b.sync1)
                           /\ Leader(b)[b.pilot + 2] = EdgeOf(b.sync2)
<1>0. b.pilot \in Nat /\ EdgeOf(b.pilot_t) \in Pulses /\ EdgeOf(b.sync1) \in Pulses /\ EdgeOf(b.sync2) \in Pulses
  BY BlockIs DEF EdgeOf, Pulses
<1>1. CASE b.pilot = 0
  <2>1. Leader(b) = <<>>
    BY <1>1 DEF Leader
  <2> QED BY <1>1, <2>1, EmptySeq
<1>2. CASE b.pilot # 0
  <2> DEFINE p == [k \in 1..b.pilot |-> EdgeOf(b.pilot_t)]
             q == <<EdgeOf(b.sync1), EdgeOf(b.sync2)>>
  <2>1. p \in Seq(Pulses) /\ Len(p) = b.pilot /\ \A k \in 1..b.pilot : p[k] = EdgeOf(b.pilot_t)
    BY <1>0
  <2>2. q \in Seq(Pulses) /\ Len(q) = 2 /\ q[1] = EdgeOf(b.sync1) /\ q[2] = EdgeOf(b.sync2)
    BY <1>0
  <2>3. Leader(b) = p \o q
    BY <1>2 DEF Leader
  <2> DEFINE l == Leader(b)
             n == b.pilot
  <2>3a. l = p \o q
    BY <2>3
  <2> HIDE DEF p, q, l, n
  <2>4. /\ l \in Seq(Pulses) /\ Len(l) = Len(p) + Len(q)
        /\ \A i \in 1..(Len(p) + Len(q)) : l[i] = IF i <= Len(p) THEN p[i] ELSE q[i - Len(p)]
    BY <2>1, <2>2, <2>3a, ConcatProperties
  <2>5. Len(p) = n /\ n \in Nat /\ Len(l) = n + 2
    BY <1>0, <2>1, <2>2, <2>4 DEF n
  <2>6. ASSUME NEW i \in 1..(n + 2) PROVE l[i] = IF i <= n THEN p[i] ELSE q[i - n]
    BY <2>2, <2>4, <2>5
  <2>7. \A k \in 1..n : l[k] = EdgeOf(b.pilot_t)
    <3>1. \A k \in 1..n : k \in 1..(n + 2) /\ k <= n
      BY <2>5
    <3> QED BY <2>1, <2>6, <3>1 DEF n
  <2>8. ASSUME NEW j \in 1..2 PROVE l[n + j] = q[j]
    <3>1. n + j \in 1..(n + 2) /\ ~(n + j <= n) /\ (n + j) - n = j
      BY <2>5
    <3> DEFINE i == n + j
    <3>2. i \in 1..(n + 2) /\ ~(i <= n) /\ i - n = j
      BY <3>1
    <3> HIDE DEF i
    <3>3. l[i] = q[i - n]
      BY <2>6, <3>2
    <3> QED BY <3>2, <3>3 DEF i
  <2>9. l[n + 1] = q[1] /\ l[n + 2] = q[2]
    <3>1. 1 \in 1..2 /\ 2 \in 1..2
      OBVIOUS
    <3> QED BY <2>8, <3>1
  <2> QED BY <1>2, <2>2, <2>4, <2>5, <2>7, <2>9 DEF l, n
<1> QED BY <1>1, <1>2

\* Two pulses a bit.
LEMMA DataIs ==
  ASSUME NEW b \in Blocks
  PROVE  /\ DataOf(b) \in Seq(Pulses)
         /\ Len(DataOf(b)) = 2 * Len(FlattenSeq(b.data))
         /\ \A i \in 1..(2 * Len(FlattenSeq(b.data))) :
               DataOf(b)[i] = EdgeOf(FlattenSeq(b.data)[(i + 1) \div 2])
<1> DEFINE bits == FlattenSeq(b.data)
           n == 2 * Len(bits)
<1>1. bits \in Seq(Nat) /\ Len(bits) \in Nat /\ n \in Nat
  BY BlockIs
<1>2. DataOf(b) = [k \in 1..n |-> EdgeOf(bits[(k + 1) \div 2])]
  BY DEF DataOf
<1>3. ASSUME NEW k \in 1..n PROVE EdgeOf(bits[(k + 1) \div 2]) \in Pulses
  <2> HIDE DEF bits
  <2>1. (k + 1) \div 2 \in 1..Len(bits)
    BY <1>1
  <2>2. bits[(k + 1) \div 2] \in Nat
    BY <1>1, <2>1, ElementOfSeq
  <2> QED BY <2>2 DEF EdgeOf, Pulses
<1> HIDE DEF bits
<1>4. n \in Nat
  BY <1>1
<1> HIDE DEF n
<1>5. DataOf(b) \in Seq(Pulses) /\ Len(DataOf(b)) = n
  BY <1>2, <1>3, <1>4
<1> QED BY <1>2, <1>5 DEF n, bits

\* An edge that ends the last bit, and then quiet.
LEMMA SilenceIs ==
  ASSUME NEW b \in Blocks
  PROVE  /\ Silence(b) \in Seq(Pulses)
         /\ Len(Silence(b)) = IF b.pause = 0 THEN 0 ELSE IF b.pause <= Edge THEN 1 ELSE 2
         /\ b.pause > 0 => Silence(b)[1] = EdgeOf(Edge)
         /\ b.pause > Edge => Silence(b)[2] = [edge |-> FALSE, length |-> b.pause - Edge]
<1> USE DEF Edge
<1>0. b.pause \in Nat /\ EdgeOf(Edge) \in Pulses
  BY BlockIs DEF EdgeOf, Pulses
<1>1. CASE b.pause = 0
  <2>1. Silence(b) = <<>>
    BY <1>1 DEF Silence
  <2> QED BY <1>1, <2>1, EmptySeq
<1>2. CASE b.pause # 0 /\ b.pause <= Edge
  <2>1. Silence(b) = <<EdgeOf(Edge)>>
    BY <1>2 DEF Silence
  <2> QED BY <1>0, <1>2, <2>1
<1>3. CASE b.pause # 0 /\ ~(b.pause <= Edge)
  <2> DEFINE z == [edge |-> FALSE, length |-> b.pause - Edge]
  <2>1. Silence(b) = <<EdgeOf(Edge), z>>
    BY <1>3 DEF Silence
  <2>2. z \in Pulses
    BY <1>0, <1>3 DEF Pulses
  <2> HIDE DEF z
  <2> QED BY <1>0, <1>3, <2>1, <2>2 DEF z
<1> QED BY <1>1, <1>2, <1>3

\* How many pulses come before the silence, and what they are.
Body(b) ==
  IF b.pulses # <<>> THEN [k \in DOMAIN b.pulses |-> EdgeOf(b.pulses[k])] ELSE Leader(b) \o DataOf(b)
Before(b) == IF b.pulses # <<>> THEN Len(b.pulses) ELSE Len(Leader(b)) + Len(DataOf(b))

LEMMA BodyIs ==
  ASSUME NEW b \in Blocks
  PROVE  /\ Body(b) \in Seq(Pulses) /\ Len(Body(b)) = Before(b) /\ Before(b) \in Nat
         /\ b.pulses # <<>> => \A k \in 1..Len(b.pulses) : Body(b)[k] = EdgeOf(b.pulses[k])
         /\ b.pulses = <<>> =>
              /\ \A k \in 1..Len(Leader(b)) : k \in 1..Before(b) /\ Body(b)[k] = Leader(b)[k]
              /\ \A k \in 1..Len(DataOf(b)) : Len(Leader(b)) + k \in 1..Before(b)
                                               /\ Body(b)[Len(Leader(b)) + k] = DataOf(b)[k]
<1>1. CASE b.pulses # <<>>
  <2> DEFINE p == b.pulses
  <2>1. p \in Seq(Nat) /\ Len(p) \in Nat /\ DOMAIN p = 1..Len(p)
    BY BlockIs, LenProperties
  <2> HIDE DEF p
  <2> DEFINE y == [k \in 1..Len(p) |-> EdgeOf(p[k])]
  <2>2. \A k \in 1..Len(p) : EdgeOf(p[k]) \in Pulses
    <3>1. \A k \in 1..Len(p) : p[k] \in Nat
      BY <2>1, ElementOfSeq
    <3> QED BY <3>1 DEF EdgeOf, Pulses
  <2>3. y \in Seq(Pulses) /\ Len(y) = Len(p) /\ \A k \in 1..Len(p) : y[k] = EdgeOf(p[k])
    BY <2>1, <2>2
  <2>4. Body(b) = y
    BY <1>1, <2>1 DEF Body, p
  <2> HIDE DEF y
  <2>5. Before(b) = Len(p)
    BY <1>1 DEF Before, p
  <2> QED BY <1>1, <2>1, <2>3, <2>4, <2>5 DEF p
<1>2. CASE b.pulses = <<>>
  <2> DEFINE l == Leader(b)
             d == DataOf(b)
             y == Body(b)
  <2>1. l \in Seq(Pulses) /\ d \in Seq(Pulses) /\ Len(l) \in Nat /\ Len(d) \in Nat
    BY LeaderIs, DataIs, LenProperties
  <2>2. y = l \o d /\ Before(b) = Len(l) + Len(d)
    BY <1>2 DEF Body, Before
  <2> HIDE DEF l, d, y
  <2>3. y \in Seq(Pulses) /\ Len(y) = Len(l) + Len(d)
        /\ \A i \in 1..(Len(l) + Len(d)) : y[i] = IF i <= Len(l) THEN l[i] ELSE d[i - Len(l)]
    BY <2>1, <2>2, ConcatProperties
  <2>4. ASSUME NEW k \in 1..Len(l) PROVE k \in 1..(Len(l) + Len(d)) /\ y[k] = l[k]
    <3>1. k \in 1..(Len(l) + Len(d)) /\ k <= Len(l)
      BY <2>1
    <3> QED BY <2>3, <3>1
  <2>5. ASSUME NEW k \in 1..Len(d) PROVE Len(l) + k \in 1..(Len(l) + Len(d)) /\ y[Len(l) + k] = d[k]
    <3>1. Len(l) + k \in 1..(Len(l) + Len(d)) /\ ~(Len(l) + k <= Len(l)) /\ Len(l) + k - Len(l) = k
      BY <2>1
    <3>2. y[Len(l) + k] = d[Len(l) + k - Len(l)]
      BY <2>3, <3>1
    <3> QED BY <3>1, <3>2
  <2> QED BY <1>2, <2>1, <2>2, <2>3, <2>4, <2>5 DEF l, d, y
<1> QED BY <1>1, <1>2

\* The whole.
LEMMA SignalIs ==
  ASSUME NEW b \in Blocks
  PROVE  /\ Len(SignalOf(b)) = Before(b) + Len(Silence(b)) /\ Len(SignalOf(b)) \in Nat
         /\ \A k \in 1..Before(b) : k \in 1..Len(SignalOf(b)) /\ SignalOf(b)[k] = Body(b)[k]
         /\ \A k \in 1..Len(Silence(b)) : Before(b) + k \in 1..Len(SignalOf(b))
                                           /\ SignalOf(b)[Before(b) + k] = Silence(b)[k]
<1> DEFINE x == Body(b)
           y == Silence(b)
           z == SignalOf(b)
<1>1. x \in Seq(Pulses) /\ y \in Seq(Pulses) /\ Len(x) = Before(b) /\ Len(x) \in Nat /\ Len(y) \in Nat
  BY BodyIs, SilenceIs, LenProperties
<1>2. z = x \o y
  BY DEF SignalOf, Body
<1> HIDE DEF x, y, z
<1>3. z \in Seq(Pulses) /\ Len(z) = Len(x) + Len(y)
      /\ \A i \in 1..(Len(x) + Len(y)) : z[i] = IF i <= Len(x) THEN x[i] ELSE y[i - Len(x)]
  BY <1>1, <1>2, ConcatProperties
<1>4. ASSUME NEW k \in 1..Len(x) PROVE k \in 1..Len(z) /\ z[k] = x[k]
  <2>1. k \in 1..(Len(x) + Len(y)) /\ k <= Len(x)
    BY <1>1
  <2> QED BY <1>3, <2>1
<1>5. ASSUME NEW k \in 1..Len(y) PROVE Len(x) + k \in 1..Len(z) /\ z[Len(x) + k] = y[k]
  <2>1. Len(x) + k \in 1..(Len(x) + Len(y)) /\ ~(Len(x) + k <= Len(x)) /\ Len(x) + k - Len(x) = k
    BY <1>1
  <2>2. z[Len(x) + k] = y[Len(x) + k - Len(x)]
    BY <1>3, <2>1
  <2> QED BY <1>3, <2>1, <2>2
<1>6. Len(z) \in Nat
  BY <1>1, <1>3
<1> QED BY <1>1, <1>3, <1>4, <1>5, <1>6 DEF x, y, z

-----------------------------------------------------------------------------
(* Where a cursor is among them.                                           *)

\* Gone, for a cursor d at the block b.
Along(d, b) ==
  CASE d.phase = "idle"   -> 0
    [] d.phase = "pulses" -> Len(b.pulses) - d.pulses_left
    [] d.phase = "pilot"  -> b.pilot - d.pulses_left
    [] d.phase = "sync1"  -> b.pilot
    [] d.phase = "sync2"  -> b.pilot + 1
    [] d.phase = "data"   -> Len(Leader(b)) + 2 * Len(Bits(b, d.byte - 1)) + 2 * (d.bit - 1)
                             + (IF d.second_half THEN 1 ELSE 0)
    [] d.phase = "pause"  -> Before(b) + (IF d.second_half THEN 1 ELSE 0)
    [] d.phase = "end"    -> Len(SignalOf(b))

LEMMA GoneIs == \A d : Gone(d) = Along(d, blocks[d.block])
BY DEF Gone, Along, Before, Bits

\* Each phase is one the block has, and the first pulse of a bit or of the
\* silence is followed by its second.
Within(d, b) ==
  /\ d.phase = "pulses" => b.pulses # <<>> /\ d.pulses_left <= Len(b.pulses) /\ ~d.second_half
  /\ d.phase \in {"pilot", "sync1", "sync2", "data"} => b.pulses = <<>>
  /\ d.phase \in {"pilot", "sync1", "sync2"} => b.pilot > 0 /\ d.byte = 1 /\ d.bit = 1 /\ ~d.second_half
  /\ d.phase = "pilot" => d.pulses_left <= b.pilot
  /\ d.phase = "data" =>
       /\ d.byte \in 1..(Len(b.data) + 1) /\ d.bit >= 1
       /\ d.byte <= Len(b.data) =>
            d.bit <= Len(b.data[d.byte]) + 1 /\ (d.bit = Len(b.data[d.byte]) + 1 => ~d.second_half)
       /\ d.byte > Len(b.data) => d.bit = 1 /\ ~d.second_half
  /\ d.phase = "pause" => (d.second_half => b.pause > 0)

\* What no pulse changes.
SameTape(d, e) ==
  e \in Decks /\ e.playing = d.playing /\ e.at_end = d.at_end /\ e.block = d.block /\ e.pulse_start = d.pulse_start

\* From d to e the next pulse of the block begins ...
Sounds(d, e, b) ==
  /\ SameTape(d, e) /\ e.phase # "idle" /\ Within(e, b)
  /\ Along(d, b) \in Nat /\ Along(d, b) + 1 \in 1..Len(SignalOf(b)) /\ Along(e, b) = Along(d, b) + 1
  /\ e.pulse = SignalOf(b)[Along(d, b) + 1].length
  /\ e.level = (IF SignalOf(b)[Along(d, b) + 1].edge THEN ~d.level ELSE FALSE)

\* ... or none does.
Silent(d, e, b) ==
  SameTape(d, e) /\ e.phase # "idle" /\ Within(e, b) /\ e.level = d.level /\ Along(e, b) = Along(d, b)

LEMMA ToggledIs ==
  ASSUME NEW d \in Decks, NEW length \in Nat
  PROVE  \E t \in Decks :
           /\ t = Toggled(d, length) /\ t.level = (~d.level) /\ t.pulse = length
           /\ t.playing = d.playing /\ t.block = d.block /\ t.phase = d.phase /\ t.at_end = d.at_end
           /\ t.byte = d.byte /\ t.bit = d.bit /\ t.second_half = d.second_half
           /\ t.pulses_left = d.pulses_left /\ t.pulse_start = d.pulse_start
           /\ t.block_start = d.block_start
<1> DEFINE level == ~d.level
           t == Toggled(d, length)
<1>1. level \in BOOLEAN
  OBVIOUS
<1>2. t = [d EXCEPT !.level = level, !.pulse = length]
  BY Zenon DEF Toggled
<1> HIDE DEF level, t
<1>3. /\ t \in Decks
      /\ t.level = level /\ t.pulse = length
      /\ t.playing = d.playing /\ t.block = d.block /\ t.phase = d.phase /\ t.at_end = d.at_end
      /\ t.byte = d.byte /\ t.bit = d.bit /\ t.second_half = d.second_half
      /\ t.pulses_left = d.pulses_left /\ t.pulse_start = d.pulse_start
      /\ t.block_start = d.block_start
  BY <1>1, <1>2 DEF Decks
<1> QED BY <1>3, Zenon DEF level, t

\* A pulse that is an edge.
LEMMA Edges ==
  ASSUME NEW d \in Decks, NEW b \in Blocks, NEW length \in Nat, NEW e \in Decks,
         SameTape(d, e), e.phase # "idle", Within(e, b), e.level = (~d.level), e.pulse = length,
         Along(d, b) \in Nat, Along(d, b) + 1 \in 1..Len(SignalOf(b)),
         SignalOf(b)[Along(d, b) + 1] = EdgeOf(length), Along(e, b) = Along(d, b) + 1
  PROVE  Sounds(d, e, b)
<1> DEFINE p == SignalOf(b)[Along(d, b) + 1]
<1>1. p.edge = TRUE /\ p.length = length
  BY DEF EdgeOf
<1> HIDE DEF p
<1>2. e.level = (IF p.edge THEN ~d.level ELSE FALSE)
  BY <1>1, Zenon
<1>3. e.pulse = p.length
  BY <1>1
<1> QED BY <1>2, <1>3, Zenon DEF Sounds, p

\* The pulses of a block of pulses.
LEMMA PulsesGo ==
  ASSUME NEW d \in Decks, NEW b \in Blocks, d.phase = "pulses", Within(d, b)
  PROVE  /\ d.pulses_left > 0 =>
              /\ Sounds(d, [Toggled(d, b.pulses[Len(b.pulses) - d.pulses_left + 1]) EXCEPT !.pulses_left = @ - 1], b)
         /\ ~(d.pulses_left > 0) => Silent(d, [d EXCEPT !.phase = "pause"], b)
<1> DEFINE n == Len(b.pulses)
           l == d.pulses_left
<1>1. b.pulses # <<>> /\ l <= n /\ ~d.second_half /\ l \in Nat /\ n \in Nat /\ b.pulses \in Seq(Nat)
  BY BlockIs DEF Within, Decks
<1>2. Along(d, b) = n - l /\ Before(b) = n
  BY <1>1 DEF Along, Before
<1>3. CASE l > 0
  <2> DEFINE k == n - l + 1
             length == b.pulses[k]
  <2>1. k \in 1..n
    BY <1>1, <1>3
  <2>2. length \in Nat
    BY <1>1, <2>1, ElementOfSeq
  <2>3. SignalOf(b)[k] = EdgeOf(length) /\ k \in 1..Len(SignalOf(b))
    BY <1>1, <1>2, <2>1, SignalIs, BodyIs
  <2> HIDE DEF length
  <2>4. PICK t \in Decks :
           /\ t = Toggled(d, length) /\ t.level = (~d.level) /\ t.pulse = length
           /\ t.playing = d.playing /\ t.block = d.block /\ t.phase = d.phase /\ t.at_end = d.at_end
           /\ t.byte = d.byte /\ t.bit = d.bit /\ t.second_half = d.second_half
           /\ t.pulses_left = d.pulses_left /\ t.pulse_start = d.pulse_start
    BY <2>2, ToggledIs
  <2> DEFINE e == [t EXCEPT !.pulses_left = @ - 1]
  <2>5. l - 1 \in Nat /\ l - 1 <= n /\ n - (l - 1) = (n - l) + 1
    BY <1>1, <1>3
  <2>6. /\ e \in Decks /\ SameTape(d, e) /\ e.phase = "pulses" /\ e.pulses_left = l - 1 /\ e.second_half = d.second_half
        /\ e.level = t.level /\ e.pulse = length
    BY <2>4, <2>5 DEF Decks, SameTape
  <2>7. e = [Toggled(d, length) EXCEPT !.pulses_left = @ - 1]
    BY <2>4
  <2> HIDE DEF e
  <2>8. Within(e, b) /\ Along(e, b) = n - (l - 1)
    BY <1>1, <2>5, <2>6 DEF Within, Along
  <2>9. Along(d, b) \in Nat /\ Along(d, b) + 1 = k /\ Along(e, b) = Along(d, b) + 1
    BY <1>1, <1>2, <2>5, <2>8
  <2>10. e.level = (~d.level)
    BY <2>4, <2>6, Zenon
  <2>11. Sounds(d, e, b)
    <3> HIDE DEF k
    <3> QED BY <2>2, <2>3, <2>6, <2>8, <2>9, <2>10, Edges
  <2> QED BY <1>3, <2>7, <2>11 DEF length
<1>4. CASE ~(l > 0)
  <2> DEFINE e == [d EXCEPT !.phase = "pause"]
  <2>1. e \in Decks /\ SameTape(d, e) /\ e.phase = "pause" /\ e.level = d.level /\ e.second_half = d.second_half
    BY DEF Decks, SameTape, Phases
  <2> HIDE DEF e
  <2>2. Within(e, b) /\ Along(e, b) = Along(d, b)
    BY <1>1, <1>2, <1>4, <2>1 DEF Within, Along
  <2>3. Silent(d, e, b)
    BY <2>1, <2>2 DEF Silent
  <2> QED BY <1>4, <2>3 DEF e
<1> QED BY <1>3, <1>4

\* The leader's, and what follows it.
LEMMA LeaderThere ==
  ASSUME NEW b \in Blocks, b.pulses = <<>>, b.pilot > 0
  PROVE  /\ b.pilot \in Nat /\ Len(Leader(b)) = b.pilot + 2
         /\ \A k \in 1..b.pilot : k \in 1..Len(SignalOf(b)) /\ SignalOf(b)[k] = EdgeOf(b.pilot_t)
         /\ b.pilot + 1 \in 1..Len(SignalOf(b)) /\ SignalOf(b)[b.pilot + 1] = EdgeOf(b.sync1)
         /\ b.pilot + 2 \in 1..Len(SignalOf(b)) /\ SignalOf(b)[b.pilot + 2] = EdgeOf(b.sync2)
<1>1. b.pilot \in Nat /\ Len(Leader(b)) = b.pilot + 2
  BY BlockIs, LeaderIs
<1>2. ASSUME NEW k \in 1..(b.pilot + 2) PROVE k \in 1..Len(SignalOf(b)) /\ SignalOf(b)[k] = Leader(b)[k]
  <2>1. k \in 1..Before(b) /\ Body(b)[k] = Leader(b)[k]
    BY <1>1, BodyIs
  <2> QED BY <2>1, SignalIs
<1>3. /\ \A k \in 1..b.pilot : k \in 1..(b.pilot + 2)
      /\ b.pilot + 1 \in 1..(b.pilot + 2) /\ b.pilot + 2 \in 1..(b.pilot + 2)
  BY <1>1
<1> QED BY <1>1, <1>2, <1>3, LeaderIs

\* The pilot's pulses.
LEMMA PilotGo ==
  ASSUME NEW d \in Decks, NEW b \in Blocks, d.phase = "pilot", Within(d, b)
  PROVE  /\ d.pulses_left > 0 => Sounds(d, [Toggled(d, b.pilot_t) EXCEPT !.pulses_left = @ - 1], b)
         /\ ~(d.pulses_left > 0) => Silent(d, [d EXCEPT !.phase = "sync1"], b)
<1> DEFINE n == b.pilot
           l == d.pulses_left
           length == b.pilot_t
<1>1. /\ b.pulses = <<>> /\ n > 0 /\ l <= n /\ l \in Nat /\ n \in Nat /\ length \in Nat
      /\ d.byte = 1 /\ d.bit = 1 /\ ~d.second_half
  BY BlockIs DEF Within, Decks
<1>2. Along(d, b) = n - l
  BY DEF Along
<1>3. CASE l > 0
  <2> DEFINE k == n - l + 1
  <2>1. k \in 1..n
    BY <1>1, <1>3
  <2>3. SignalOf(b)[k] = EdgeOf(length) /\ k \in 1..Len(SignalOf(b))
    BY <1>1, <2>1, LeaderThere
  <2> HIDE DEF length
  <2>4. PICK t \in Decks :
           /\ t = Toggled(d, length) /\ t.level = (~d.level) /\ t.pulse = length
           /\ t.playing = d.playing /\ t.block = d.block /\ t.phase = d.phase /\ t.at_end = d.at_end
           /\ t.byte = d.byte /\ t.bit = d.bit /\ t.second_half = d.second_half
           /\ t.pulses_left = d.pulses_left /\ t.pulse_start = d.pulse_start
    BY <1>1, ToggledIs
  <2> DEFINE e == [t EXCEPT !.pulses_left = @ - 1]
  <2>5. l - 1 \in Nat /\ l - 1 <= n /\ n - (l - 1) = (n - l) + 1
    BY <1>1, <1>3
  <2>6. /\ e \in Decks /\ SameTape(d, e) /\ e.phase = "pilot" /\ e.pulses_left = l - 1
        /\ e.byte = d.byte /\ e.bit = d.bit /\ e.second_half = d.second_half
        /\ e.level = t.level /\ e.pulse = length
    BY <2>4, <2>5 DEF Decks, SameTape
  <2>7. e = [Toggled(d, length) EXCEPT !.pulses_left = @ - 1]
    BY <2>4
  <2> HIDE DEF e
  <2>8. Within(e, b) /\ Along(e, b) = n - (l - 1)
    BY <1>1, <2>5, <2>6 DEF Within, Along
  <2>9. Along(d, b) \in Nat /\ Along(d, b) + 1 = k /\ Along(e, b) = Along(d, b) + 1
    BY <1>1, <1>2, <2>5, <2>8
  <2>10. e.level = (~d.level)
    BY <2>4, <2>6, Zenon
  <2>11. Sounds(d, e, b)
    <3> HIDE DEF k
    <3> QED BY <1>1, <2>3, <2>6, <2>8, <2>9, <2>10, Edges
  <2> QED BY <1>3, <2>7, <2>11 DEF length
<1>4. CASE ~(l > 0)
  <2> DEFINE e == [d EXCEPT !.phase = "sync1"]
  <2>1. /\ e \in Decks /\ SameTape(d, e) /\ e.phase = "sync1" /\ e.level = d.level
        /\ e.byte = d.byte /\ e.bit = d.bit /\ e.second_half = d.second_half
    BY DEF Decks, SameTape, Phases
  <2> HIDE DEF e
  <2>2. Within(e, b) /\ Along(e, b) = Along(d, b)
    BY <1>1, <1>2, <1>4, <2>1 DEF Within, Along
  <2>3. Silent(d, e, b)
    BY <2>1, <2>2 DEF Silent
  <2> QED BY <1>4, <2>3 DEF e
<1> QED BY <1>3, <1>4

\* The first pulse after it.
LEMMA Sync1Go ==
  ASSUME NEW d \in Decks, NEW b \in Blocks, d.phase = "sync1", Within(d, b)
  PROVE  Sounds(d, [Toggled(d, b.sync1) EXCEPT !.phase = "sync2"], b)
<1> DEFINE n == b.pilot
           length == b.sync1
           k == n + 1
<1>1. /\ b.pulses = <<>> /\ n > 0 /\ n \in Nat /\ length \in Nat
      /\ d.byte = 1 /\ d.bit = 1 /\ ~d.second_half
  BY BlockIs DEF Within, Decks
<1>2. Along(d, b) = n
  BY DEF Along
<1>3. SignalOf(b)[k] = EdgeOf(length) /\ k \in 1..Len(SignalOf(b))
  BY <1>1, LeaderThere
<1> HIDE DEF length
<1>4. PICK t \in Decks :
         /\ t = Toggled(d, length) /\ t.level = (~d.level) /\ t.pulse = length
         /\ t.playing = d.playing /\ t.block = d.block /\ t.phase = d.phase /\ t.at_end = d.at_end
         /\ t.byte = d.byte /\ t.bit = d.bit /\ t.second_half = d.second_half
         /\ t.pulses_left = d.pulses_left /\ t.pulse_start = d.pulse_start
  BY <1>1, ToggledIs
<1> DEFINE e == [t EXCEPT !.phase = "sync2"]
<1>6. /\ e \in Decks /\ SameTape(d, e) /\ e.phase = "sync2"
      /\ e.byte = d.byte /\ e.bit = d.bit /\ e.second_half = d.second_half
      /\ e.level = t.level /\ e.pulse = length
  BY <1>4 DEF Decks, SameTape, Phases
<1>7. e = [Toggled(d, length) EXCEPT !.phase = "sync2"]
  BY <1>4
<1> HIDE DEF e
<1>8. Within(e, b) /\ Along(e, b) = n + 1
  BY <1>1, <1>6 DEF Within, Along
<1>9. Along(d, b) \in Nat /\ Along(d, b) + 1 = k /\ Along(e, b) = Along(d, b) + 1
  BY <1>1, <1>2, <1>8
<1>10. e.level = (~d.level)
  BY <1>4, <1>6, Zenon
<1>11. Sounds(d, e, b)
  <2> HIDE DEF k
  <2> QED BY <1>1, <1>3, <1>6, <1>8, <1>9, <1>10, Edges
<1> QED BY <1>7, <1>11 DEF length

\* Where the data begins, and where it ends.
LEMMA DataFrom ==
  ASSUME NEW b \in Blocks, b.pulses = <<>>
  PROVE  /\ Len(Bits(b, 0)) = 0 /\ Len(Leader(b)) \in Nat
         /\ Before(b) = Len(Leader(b)) + 2 * Len(Bits(b, Len(b.data)))
         /\ b.data = <<>> => Before(b) = Len(Leader(b))
<1>1. Bits(b, 0) = <<>> /\ Bits(b, Len(b.data)) = FlattenSeq(b.data)
  BY BitsAre
<1>2. Len(Bits(b, 0)) = 0
  BY <1>1, EmptySeq
<1>3. Before(b) = Len(Leader(b)) + 2 * Len(Bits(b, Len(b.data)))
  BY <1>1, DataIs DEF Before
<1>4. Len(Leader(b)) \in Nat
  BY LeaderIs, LenProperties
<1>5. b.data = <<>> => Len(b.data) = 0
  BY EmptySeq
<1> QED BY <1>2, <1>3, <1>4, <1>5

\* The second, before the data or the pause.
LEMMA Sync2Go ==
  ASSUME NEW d \in Decks, NEW b \in Blocks, d.phase = "sync2", Within(d, b)
  PROVE  Sounds(d, [Toggled(d, b.sync2) EXCEPT !.phase = IF b.data = <<>> THEN "pause" ELSE "data"], b)
<1> DEFINE n == b.pilot
           length == b.sync2
           k == n + 2
           next == IF b.data = <<>> THEN "pause" ELSE "data"
<1>1. /\ b.pulses = <<>> /\ n > 0 /\ n \in Nat /\ length \in Nat
      /\ d.byte = 1 /\ d.bit = 1 /\ ~d.second_half
  BY BlockIs DEF Within, Decks
<1>2. Along(d, b) = n + 1
  BY DEF Along
<1>3. SignalOf(b)[k] = EdgeOf(length) /\ k \in 1..Len(SignalOf(b)) /\ Len(Leader(b)) = k
  BY <1>1, LeaderThere
<1> HIDE DEF length
<1>4. PICK t \in Decks :
         /\ t = Toggled(d, length) /\ t.level = (~d.level) /\ t.pulse = length
         /\ t.playing = d.playing /\ t.block = d.block /\ t.phase = d.phase /\ t.at_end = d.at_end
         /\ t.byte = d.byte /\ t.bit = d.bit /\ t.second_half = d.second_half
         /\ t.pulses_left = d.pulses_left /\ t.pulse_start = d.pulse_start
  BY <1>1, ToggledIs
<1> DEFINE e == [t EXCEPT !.phase = next]
<1>5. next \in {"pause", "data"} /\ (next = "pause" <=> b.data = <<>>)
  OBVIOUS
<1>6. /\ e \in Decks /\ SameTape(d, e) /\ e.phase = next
      /\ e.byte = d.byte /\ e.bit = d.bit /\ e.second_half = d.second_half
      /\ e.level = t.level /\ e.pulse = length
  <2> HIDE DEF next
  <2> QED BY <1>4, <1>5 DEF Decks, SameTape, Phases
<1>7. e = [Toggled(d, length) EXCEPT !.phase = next]
  BY <1>4
<1> HIDE DEF e, next
<1>7a. b.data # <<>> => Len(b.data) >= 1
  BY BlockIs, EmptySeq
<1>7b. b.data # <<>> => Len(b.data[1]) \in Nat
  <2>1. b.data # <<>> => 1 \in 1..Len(b.data)
    BY <1>7a, BlockIs
  <2> QED BY <2>1, BitsAre, LenProperties
<1>8. Within(e, b) /\ Along(e, b) = n + 2
  <2>1. CASE b.data = <<>>
    <3>1. e.phase = "pause" /\ ~e.second_half
      BY <1>1, <1>5, <1>6, <2>1
    <3>2. Before(b) = n + 2
      BY <1>1, <1>3, <2>1, DataFrom
    <3> QED BY <1>1, <3>1, <3>2 DEF Within, Along
  <2>2. CASE b.data # <<>>
    <3>1. e.phase = "data" /\ ~e.second_half /\ e.byte = 1 /\ e.bit = 1
      BY <1>1, <1>5, <1>6, <2>2
    <3>2. Len(Bits(b, e.byte - 1)) = 0
      BY <1>1, <3>1, DataFrom
    <3>3. Along(e, b) = n + 2
      BY <1>1, <1>3, <3>1, <3>2 DEF Along
    <3>4. Len(b.data) \in Nat
      BY BlockIs
    <3> QED BY <1>1, <1>7a, <1>7b, <2>2, <3>1, <3>3, <3>4 DEF Within
  <2> QED BY <2>1, <2>2
<1>9. Along(d, b) \in Nat /\ Along(d, b) + 1 = k /\ Along(e, b) = Along(d, b) + 1
  BY <1>1, <1>2, <1>8
<1>10. e.level = (~d.level)
  BY <1>4, <1>6, Zenon
<1>11. e.phase # "idle"
  BY <1>5, <1>6
<1>12. Sounds(d, e, b)
  <2> HIDE DEF k
  <2> QED BY <1>1, <1>3, <1>6, <1>8, <1>9, <1>10, <1>11, Edges
<1> QED BY <1>7, <1>12 DEF length, next

\* A byte is two pulses for each of its bits.
LEMMA BitsGrow ==
  ASSUME NEW b \in Blocks, NEW n \in 1..Len(b.data)
  PROVE  /\ Len(Bits(b, n - 1)) \in Nat /\ Len(b.data[n]) \in Nat
         /\ Len(Bits(b, n)) = Len(Bits(b, n - 1)) + Len(b.data[n])
<1> DEFINE x == Bits(b, n - 1)
           y == b.data[n]
           z == Bits(b, n)
<1>1. n - 1 \in 0..Len(b.data)
  BY BlockIs
<1>2. x \in Seq(Nat) /\ y \in Seq(Nat) /\ z = x \o y
  BY <1>1, BitsAre
<1> HIDE DEF x, y, z
<1>3. Len(z) = Len(x) + Len(y) /\ Len(x) \in Nat /\ Len(y) \in Nat
  BY <1>2, ConcatProperties, LenProperties
<1> QED BY <1>3 DEF x, y, z

\* The pulse of a bit, its first or its second.
LEMMA BitThere ==
  ASSUME NEW b \in Blocks, b.pulses = <<>>, NEW n \in 1..Len(b.data), NEW k \in 1..Len(b.data[n]), NEW h \in 0..1
  PROVE  /\ Len(Leader(b)) + 2 * Len(Bits(b, n - 1)) + 2 * (k - 1) + h + 1 \in 1..Len(SignalOf(b))
         /\ SignalOf(b)[Len(Leader(b)) + 2 * Len(Bits(b, n - 1)) + 2 * (k - 1) + h + 1] = EdgeOf(b.data[n][k])
         /\ b.data[n][k] \in Nat
<1> DEFINE f == FlattenSeq(b.data)
           x == Len(Bits(b, n - 1))
           a == Len(Leader(b))
           i == 2 * x + 2 * (k - 1) + h + 1
<1>1. x \in Nat /\ x + k \in 1..Len(f) /\ f[x + k] = b.data[n][k] /\ Len(f) \in Nat /\ f \in Seq(Nat)
  BY BitIs, BlockIs
<1>2. a \in Nat
  BY DataFrom
<1>3. k \in Nat /\ k >= 1 /\ h \in 0..1
  BY BitsGrow
<1>4. f[x + k] \in Nat
  BY <1>1, ElementOfSeq
<1> HIDE DEF f, x, a
<1>5. i \in 1..(2 * Len(f)) /\ (i + 1) \div 2 = x + k
  BY <1>1, <1>3
<1>6. DataOf(b)[i] = EdgeOf(b.data[n][k]) /\ i \in 1..Len(DataOf(b))
  <2> HIDE DEF i
  <2> QED BY <1>1, <1>5, DataIs DEF f
<1>7. a + i \in 1..Before(b) /\ Body(b)[a + i] = DataOf(b)[i]
  <2> HIDE DEF i
  <2> QED BY <1>6, BodyIs DEF a
<1>8. a + i \in 1..Len(SignalOf(b)) /\ SignalOf(b)[a + i] = EdgeOf(b.data[n][k])
  <2> HIDE DEF i
  <2> QED BY <1>6, <1>7, SignalIs
<1>9. a + 2 * x + 2 * (k - 1) + h + 1 = a + i
  BY <1>1, <1>2, <1>3
<1>10. b.data[n][k] \in Nat
  BY <1>1, <1>4
<1> QED BY <1>8, <1>9, <1>10 DEF a, x

\* Counting them.
LEMMA Halves ==
  ASSUME NEW a \in Nat, NEW x \in Nat, NEW k \in Nat, k >= 1
  PROVE  /\ a + 2 * x + 2 * (k - 1) + 0 \in Nat /\ a + 2 * x + 2 * (k - 1) + 1 \in Nat
         /\ a + 2 * x + 2 * (k - 1) + 0 + 1 = a + 2 * x + 2 * (k - 1) + 1
         /\ a + 2 * x + 2 * ((k + 1) - 1) + 0 = a + 2 * x + 2 * (k - 1) + 1 + 1
OBVIOUS

LEMMA NoHalves ==
  ASSUME NEW a \in Nat, NEW x \in Nat, NEW l \in Nat, NEW k, k = l + 1
  PROVE  a + 2 * (x + l) + 2 * (1 - 1) + 0 = a + 2 * x + 2 * (k - 1) + 0
OBVIOUS

\* The data's.
LEMMA DataGo ==
  ASSUME NEW d \in Decks, NEW b \in Blocks, d.phase = "data", Within(d, b)
  PROVE  /\ d.byte > Len(b.data) => Silent(d, [d EXCEPT !.phase = "pause"], b)
         /\ ~(d.byte > Len(b.data)) /\ d.bit <= Len(b.data[d.byte]) =>
              Sounds(d, [Toggled(d, b.data[d.byte][d.bit])
                           EXCEPT !.second_half = ~@, !.bit = IF d.second_half THEN @ + 1 ELSE @], b)
         /\ ~(d.byte > Len(b.data)) /\ ~(d.bit <= Len(b.data[d.byte])) =>
              Silent(d, [d EXCEPT !.byte = @ + 1, !.bit = 1, !.second_half = FALSE], b)
<1> DEFINE n == d.byte
           k == d.bit
           h == IF d.second_half THEN 1 ELSE 0
           a == Len(Leader(b))
           x == Len(Bits(b, n - 1))
           N == Len(b.data)
<1>1. /\ b.pulses = <<>> /\ n \in 1..(N + 1) /\ k >= 1 /\ N \in Nat /\ n \in Nat /\ k \in Nat
      /\ n <= N => k <= Len(b.data[n]) + 1 /\ (k = Len(b.data[n]) + 1 => ~d.second_half)
      /\ n > N => k = 1 /\ ~d.second_half
      /\ d.second_half \in BOOLEAN
  BY BlockIs DEF Within, Decks
<1>2. Along(d, b) = a + 2 * x + 2 * (k - 1) + h /\ h \in 0..1
  BY DEF Along
<1>3. a \in Nat /\ Before(b) = a + 2 * Len(Bits(b, N))
  BY <1>1, DataFrom
<1>3a. Along(d, b) = a + 2 * x + 2 * (k - 1) + h /\ h \in 0..1 /\ (d.second_half => h = 1) /\ (~d.second_half => h = 0)
  BY <1>2
<1> HIDE DEF a, x, h
<1>4. CASE n > N
  <2> DEFINE e == [d EXCEPT !.phase = "pause"]
  <2>1. /\ e \in Decks /\ SameTape(d, e) /\ e.phase = "pause" /\ e.level = d.level
        /\ e.second_half = d.second_half
    BY DEF Decks, SameTape, Phases
  <2> HIDE DEF e
  <2>2. n - 1 = N /\ ~d.second_half /\ k = 1
    BY <1>1, <1>4
  <2>3. Len(Bits(b, N)) \in Nat
    <3>1. N \in 0..N
      BY <1>1
    <3> QED BY <3>1, BitsAre, LenProperties
  <2>4. Along(d, b) = Before(b)
    <3>1. x = Len(Bits(b, N)) /\ h = 0
      BY <1>3a, <2>2 DEF x
    <3> QED BY <1>3, <1>3a, <2>2, <2>3, <3>1
  <2>5. Within(e, b) /\ Along(e, b) = Before(b)
    BY <1>3, <2>1, <2>2, <2>3 DEF Within, Along
  <2>6. Silent(d, e, b)
    BY <2>1, <2>4, <2>5 DEF Silent
  <2> QED BY <1>4, <2>6 DEF e
<1>5. CASE ~(n > N)
  <2>1. n \in 1..N
    BY <1>1, <1>5
  <2>2. x \in Nat /\ Len(b.data[n]) \in Nat /\ Len(Bits(b, n)) = x + Len(b.data[n])
    BY <2>1, BitsGrow DEF x
  <2>3. CASE k <= Len(b.data[n])
    <3> DEFINE length == b.data[n][k]
               i == a + 2 * x + 2 * (k - 1) + h + 1
    <3>1. k \in 1..Len(b.data[n])
      BY <1>1, <2>2, <2>3
    <3>2. i \in 1..Len(SignalOf(b)) /\ SignalOf(b)[i] = EdgeOf(length) /\ length \in Nat
      BY <1>1, <1>3a, <2>1, <3>1, BitThere DEF a, x
    <3> HIDE DEF length
    <3>4. PICK t \in Decks :
             /\ t = Toggled(d, length) /\ t.level = (~d.level) /\ t.pulse = length
             /\ t.playing = d.playing /\ t.block = d.block /\ t.phase = d.phase /\ t.at_end = d.at_end
             /\ t.byte = d.byte /\ t.bit = d.bit /\ t.second_half = d.second_half
             /\ t.pulses_left = d.pulses_left /\ t.pulse_start = d.pulse_start
      BY <3>2, ToggledIs
    <3> DEFINE half == ~t.second_half
               b1 == IF d.second_half THEN t.bit + 1 ELSE t.bit
               e == [t EXCEPT !.second_half = half, !.bit = b1]
    <3>5. e = [Toggled(d, length)
                 EXCEPT !.second_half = ~@, !.bit = IF d.second_half THEN @ + 1 ELSE @]
      BY <3>4
    <3>6. half \in BOOLEAN /\ b1 \in Nat
      BY <1>1, <3>4
    <3>7. (d.second_half => ~half /\ b1 = k + 1) /\ (~d.second_half => half /\ b1 = k)
      BY <3>4
    <3> HIDE DEF half, b1
    <3>8. /\ e \in Decks /\ SameTape(d, e) /\ e.phase = "data" /\ e.byte = n /\ e.bit = b1
          /\ e.second_half = half /\ e.level = t.level /\ e.pulse = length
      BY <3>4, <3>6 DEF Decks, SameTape
    <3> HIDE DEF e
    <3>9. Along(e, b) = a + 2 * x + 2 * (b1 - 1) + (IF half THEN 1 ELSE 0)
      BY <3>8 DEF Along, a, x
    <3>10. Along(d, b) \in Nat /\ Along(d, b) + 1 = i /\ Along(e, b) = Along(d, b) + 1
      <4>1. CASE d.second_half
        <5>1. ~half /\ b1 = k + 1 /\ h = 1
          BY <1>3a, <3>7, <4>1
        <5>2. Along(e, b) = a + 2 * x + 2 * ((k + 1) - 1) + 0
          BY <3>9, <5>1
        <5> HIDE DEF k
        <5>3. Along(d, b) = a + 2 * x + 2 * (k - 1) + 1 /\ i = a + 2 * x + 2 * (k - 1) + 1 + 1
          BY <1>3a, <5>1
        <5>4. /\ a + 2 * x + 2 * (k - 1) + 1 \in Nat
              /\ a + 2 * x + 2 * ((k + 1) - 1) + 0 = a + 2 * x + 2 * (k - 1) + 1 + 1
          <6>1. a \in Nat /\ x \in Nat /\ k \in Nat /\ k >= 1
            BY <1>1, <1>3, <2>2
          <6> QED BY <6>1, Halves
        <5> HIDE DEF i
        <5> QED BY <5>2, <5>3, <5>4, Zenon
      <4>2. CASE ~d.second_half
        <5>1. half /\ b1 = k /\ h = 0
          BY <1>3a, <3>7, <4>2
        <5>2. Along(e, b) = a + 2 * x + 2 * (k - 1) + 1
          BY <3>9, <5>1
        <5> HIDE DEF k
        <5>3. Along(d, b) = a + 2 * x + 2 * (k - 1) + 0 /\ i = a + 2 * x + 2 * (k - 1) + 0 + 1
          BY <1>3a, <5>1
        <5>4. /\ a + 2 * x + 2 * (k - 1) + 0 \in Nat
              /\ a + 2 * x + 2 * (k - 1) + 0 + 1 = a + 2 * x + 2 * (k - 1) + 1
          <6>1. a \in Nat /\ x \in Nat /\ k \in Nat /\ k >= 1
            BY <1>1, <1>3, <2>2
          <6> QED BY <6>1, Halves
        <5> HIDE DEF i
        <5> QED BY <5>2, <5>3, <5>4, Zenon
      <4> QED BY <4>1, <4>2
    <3>11. Within(e, b)
      <4>1. n <= N /\ b1 >= 1 /\ b1 <= Len(b.data[n]) + 1 /\ (b1 = Len(b.data[n]) + 1 => ~half)
        <5>1. CASE d.second_half
          BY <1>1, <2>1, <2>2, <2>3, <3>7, <5>1
        <5>2. CASE ~d.second_half
          BY <1>1, <2>1, <2>2, <2>3, <3>7, <5>2
        <5> QED BY <5>1, <5>2
      <4> QED BY <1>1, <1>5, <3>8, <4>1 DEF Within
    <3>12. e.level = (~d.level)
      BY <3>4, <3>8, Zenon
    <3>13. Sounds(d, e, b)
      <4> HIDE DEF i
      <4> QED BY <3>2, <3>8, <3>10, <3>11, <3>12, Edges
    <3> QED BY <1>5, <2>3, <3>5, <3>13 DEF length
  <2>4. CASE ~(k <= Len(b.data[n]))
    <3> DEFINE e == [d EXCEPT !.byte = @ + 1, !.bit = 1, !.second_half = FALSE]
    <3>1. k = Len(b.data[n]) + 1 /\ ~d.second_half /\ h = 0 /\ n + 1 \in 1..(N + 1) /\ (n + 1) - 1 = n
      <4> HIDE DEF n, k, N
      <4>1. n <= N /\ n + 1 \in 1..(N + 1) /\ (n + 1) - 1 = n
        BY <1>1, <2>1
      <4>2. k = Len(b.data[n]) + 1
        BY <1>1, <2>2, <2>4, <4>1
      <4> QED BY <1>1, <1>3a, <4>1, <4>2
    <3>2. /\ e \in Decks /\ SameTape(d, e) /\ e.phase = "data" /\ e.level = d.level
          /\ e.byte = n + 1 /\ e.bit = 1 /\ e.second_half = FALSE
      <4> DEFINE m == n + 1
      <4>1. m \in Nat /\ 1 \in Nat /\ FALSE \in BOOLEAN
        BY <1>1
      <4>2. e = [d EXCEPT !.byte = m, !.bit = 1, !.second_half = FALSE]
        OBVIOUS
      <4> HIDE DEF e, m
      <4>3. /\ e \in Decks /\ SameTape(d, e) /\ e.phase = "data" /\ e.level = d.level
            /\ e.byte = m /\ e.bit = 1 /\ e.second_half = FALSE
        BY <4>1, <4>2 DEF Decks, SameTape
      <4> QED BY <4>3 DEF m
    <3> HIDE DEF e
    <3>3. Along(e, b) = a + 2 * Len(Bits(b, n))
      <4>1. Len(Bits(b, n)) \in Nat
        BY <1>1, <2>2
      <4>2. Along(e, b) = a + 2 * Len(Bits(b, e.byte - 1)) + 2 * (e.bit - 1) + 0
        BY <3>2 DEF Along, a
      <4>3. Along(e, b) = a + 2 * Len(Bits(b, n)) + 2 * (1 - 1) + 0
        BY <3>1, <3>2, <4>2
      <4> QED BY <1>3, <4>1, <4>3
    <3>4. Along(e, b) = Along(d, b)
      <4> HIDE DEF k, n
      <4>1. Along(d, b) = a + 2 * x + 2 * (k - 1) + 0
        BY <1>3a, <3>1
      <4>2. Along(e, b) = a + 2 * (x + Len(b.data[n])) + 2 * (1 - 1) + 0
        BY <1>3, <2>2, <3>3
      <4> DEFINE l == Len(b.data[n])
      <4>3. l \in Nat /\ k = l + 1 /\ k \in Nat /\ k >= 1 /\ a \in Nat /\ x \in Nat
            /\ Along(e, b) = a + 2 * (x + l) + 2 * (1 - 1) + 0
        BY <1>1, <1>3, <2>2, <3>1, <4>2
      <4> HIDE DEF l
      <4> QED BY <4>1, <4>3, NoHalves
    <3>5. n + 1 <= N => Len(b.data[n + 1]) \in Nat
      <4>1. n + 1 <= N => n + 1 \in 1..N
        BY <1>1
      <4> QED BY <4>1, BitsGrow
    <3>6. Within(e, b)
      BY <1>1, <3>1, <3>2, <3>5 DEF Within
    <3>7. Silent(d, e, b)
      BY <3>2, <3>4, <3>6 DEF Silent
    <3> QED BY <1>5, <2>4, <3>7 DEF e
  <2> QED BY <2>3, <2>4
<1> QED BY <1>4, <1>5

\* The edge after the last bit, and the quiet.
LEMMA PauseGo ==
  ASSUME NEW d \in Decks, NEW b \in Blocks, d.phase = "pause", Within(d, b)
  PROVE  /\ b.pause = 0 => Silent(d, [d EXCEPT !.phase = "end"], b)
         /\ b.pause # 0 /\ ~d.second_half => Sounds(d, [Toggled(d, Edge) EXCEPT !.second_half = TRUE], b)
         /\ b.pause # 0 /\ d.second_half /\ b.pause > Edge =>
              Sounds(d, [d EXCEPT !.phase = "end", !.level = FALSE, !.pulse = b.pause - Edge], b)
         /\ b.pause # 0 /\ d.second_half /\ ~(b.pause > Edge) => Silent(d, [d EXCEPT !.phase = "end"], b)
<1> DEFINE z == Len(Silence(b))
           n == Before(b)
           N == Len(SignalOf(b))
<1>1. /\ b.pause \in Nat /\ n \in Nat /\ Edge \in Nat /\ Edge = 1
      /\ (d.second_half => b.pause > 0) /\ d.second_half \in BOOLEAN
  BY BlockIs, BodyIs DEF Within, Decks, Edge
<1>2. (~d.second_half => Along(d, b) = n) /\ (d.second_half => Along(d, b) = n + 1)
  BY <1>1 DEF Along
<1>3. N = n + z /\ z = (IF b.pause = 0 THEN 0 ELSE IF b.pause <= Edge THEN 1 ELSE 2)
  BY SignalIs, SilenceIs
<1>4. ASSUME NEW e, e = [d EXCEPT !.phase = "end"], Along(d, b) = N PROVE Silent(d, e, b)
  <2>1. e \in Decks /\ SameTape(d, e) /\ e.phase = "end" /\ e.level = d.level
    BY <1>4 DEF Decks, SameTape, Phases
  <2>2. Within(e, b) /\ Along(e, b) = N
    BY <2>1 DEF Within, Along
  <2> QED BY <1>4, <2>1, <2>2 DEF Silent
<1>5. CASE b.pause = 0
  <2>1. Along(d, b) = N
    BY <1>1, <1>2, <1>3, <1>5
  <2> QED BY <1>4, <1>5, <2>1
<1>6. CASE b.pause # 0 /\ ~d.second_half
  <2> DEFINE k == n + 1
             length == Edge
  <2>0. 1 \in 1..z
    BY <1>3, <1>6
  <2>1. k \in 1..Len(SignalOf(b)) /\ SignalOf(b)[k] = EdgeOf(length) /\ length \in Nat
    <3>1. b.pause > 0
      BY <1>1, <1>6
    <3> QED BY <1>1, <2>0, <3>1, SignalIs, SilenceIs
  <2> HIDE DEF length
  <2>2. PICK t \in Decks :
           /\ t = Toggled(d, length) /\ t.level = (~d.level) /\ t.pulse = length
           /\ t.playing = d.playing /\ t.block = d.block /\ t.phase = d.phase /\ t.at_end = d.at_end
           /\ t.byte = d.byte /\ t.bit = d.bit /\ t.second_half = d.second_half
           /\ t.pulses_left = d.pulses_left /\ t.pulse_start = d.pulse_start
    BY <2>1, ToggledIs
  <2> DEFINE e == [t EXCEPT !.second_half = TRUE]
  <2>3. /\ e \in Decks /\ SameTape(d, e) /\ e.phase = "pause" /\ e.second_half = TRUE
        /\ e.level = t.level /\ e.pulse = length
    BY <2>2 DEF Decks, SameTape
  <2>4. e = [Toggled(d, length) EXCEPT !.second_half = TRUE]
    BY <2>2
  <2> HIDE DEF e
  <2>5. Within(e, b) /\ Along(e, b) = n + 1
    BY <1>1, <1>6, <2>3 DEF Within, Along
  <2>6. Along(d, b) \in Nat /\ Along(d, b) + 1 = k /\ Along(e, b) = Along(d, b) + 1
    BY <1>1, <1>2, <1>6, <2>5
  <2>7. e.level = (~d.level)
    BY <2>2, <2>3, Zenon
  <2>8. Sounds(d, e, b)
    <3> HIDE DEF k
    <3> QED BY <2>1, <2>3, <2>5, <2>6, <2>7, Edges
  <2> QED BY <1>6, <2>4, <2>8 DEF length
<1>7. CASE b.pause # 0 /\ d.second_half /\ b.pause > Edge
  <2> DEFINE k == n + 2
             length == b.pause - Edge
             e == [d EXCEPT !.phase = "end", !.level = FALSE, !.pulse = length]
  <2>0. 2 \in 1..z /\ N = n + 2
    BY <1>1, <1>3, <1>7
  <2>1. k \in 1..N /\ SignalOf(b)[k] = [edge |-> FALSE, length |-> length]
    BY <1>1, <1>7, <2>0, SignalIs, SilenceIs
  <2>2. length \in Nat
    BY <1>1, <1>7
  <2> HIDE DEF length
  <2>3. e \in Decks /\ SameTape(d, e) /\ e.phase = "end" /\ e.level = FALSE /\ e.pulse = length
    BY <2>2 DEF Decks, SameTape, Phases
  <2> HIDE DEF e
  <2>4. Within(e, b) /\ Along(e, b) = N
    BY <2>3 DEF Within, Along
  <2>5. Along(d, b) \in Nat /\ Along(d, b) + 1 = k /\ Along(e, b) = Along(d, b) + 1
    BY <1>1, <1>2, <1>7, <2>0, <2>4
  <2> DEFINE p == SignalOf(b)[k]
  <2>6. p.edge = FALSE /\ p.length = length
    BY <2>1
  <2> HIDE DEF p
  <2>7. e.level = (IF p.edge THEN ~d.level ELSE FALSE) /\ e.pulse = p.length
    BY <2>3, <2>6, Zenon
  <2>8. Along(d, b) + 1 \in 1..Len(SignalOf(b))
    BY <2>1, <2>5
  <2>9. p = SignalOf(b)[Along(d, b) + 1]
    BY <2>5 DEF p
  <2>10. Sounds(d, e, b)
    <3>1. e.phase # "idle"
      BY <2>3
    <3> HIDE DEF k
    <3> QED BY <2>3, <2>4, <2>5, <2>7, <2>8, <2>9, <3>1, Zenon DEF Sounds
  <2> QED BY <1>7, <2>10 DEF e, length
<1>8. CASE b.pause # 0 /\ d.second_half /\ ~(b.pause > Edge)
  <2>1. Along(d, b) = N
    BY <1>1, <1>2, <1>3, <1>8
  <2> QED BY <1>4, <1>8, <2>1
<1> QED BY <1>1, <1>5, <1>6, <1>7, <1>8

\* A block begins with none of its pulses begun.
LEMMA StartGo ==
  ASSUME NEW d \in Decks, NEW b \in Blocks, d.phase = "idle"
  PROVE  Silent(d, [d EXCEPT !.phase = Opening(b).phase, !.pulses_left = Opening(b).left,
                             !.byte = 1, !.bit = 1, !.second_half = FALSE], b)
<1> DEFINE o == Opening(b)
           e == [d EXCEPT !.phase = o.phase, !.pulses_left = o.left,
                          !.byte = 1, !.bit = 1, !.second_half = FALSE]
<1>1. /\ b.pulses \in Seq(Nat) /\ Len(b.pulses) \in Nat /\ b.data \in Seq(Seq(Nat)) /\ Len(b.data) \in Nat
      /\ b.pilot \in Nat
  BY BlockIs
<1>2. Along(d, b) = 0
  BY DEF Along
<1>3. ASSUME NEW phase \in Phases, NEW left \in Nat, o = [phase |-> phase, left |-> left], phase # "idle"
      PROVE  /\ e \in Decks /\ SameTape(d, e) /\ e.level = d.level
             /\ e.phase = phase /\ e.pulses_left = left /\ e.byte = 1 /\ e.bit = 1 /\ ~e.second_half
  <2>1. e = [d EXCEPT !.phase = phase, !.pulses_left = left, !.byte = 1, !.bit = 1, !.second_half = FALSE]
    BY <1>3
  <2> HIDE DEF e, o
  <2>2. 1 \in Nat /\ FALSE \in BOOLEAN
    OBVIOUS
  <2> QED BY <1>3, <2>1, <2>2 DEF Decks, SameTape
<1>4. SUFFICES Within(e, b) /\ Along(e, b) = 0 /\ SameTape(d, e) /\ e.phase # "idle" /\ e.level = d.level
  BY <1>2 DEF Silent
<1>5. CASE b.pulses # <<>>
  <2>1. o = [phase |-> "pulses", left |-> Len(b.pulses)]
    BY <1>5 DEF Opening
  <2>2. "pulses" \in Phases
    BY DEF Phases
  <2>3. /\ e \in Decks /\ SameTape(d, e) /\ e.level = d.level
        /\ e.phase = "pulses" /\ e.pulses_left = Len(b.pulses) /\ ~e.second_half
    BY <1>1, <1>3, <2>1, <2>2
  <2> HIDE DEF e, o
  <2> QED BY <1>1, <1>5, <2>3 DEF Within, Along
<1>6. CASE b.pulses = <<>> /\ b.pilot > 0
  <2>1. o = [phase |-> "pilot", left |-> b.pilot]
    BY <1>6 DEF Opening
  <2>2. "pilot" \in Phases
    BY DEF Phases
  <2>3. /\ e \in Decks /\ SameTape(d, e) /\ e.level = d.level
        /\ e.phase = "pilot" /\ e.pulses_left = b.pilot /\ e.byte = 1 /\ e.bit = 1 /\ ~e.second_half
    BY <1>1, <1>3, <2>1, <2>2
  <2> HIDE DEF e, o
  <2> QED BY <1>1, <1>6, <2>3 DEF Within, Along
<1>7. ASSUME b.pulses = <<>>, b.pilot = 0 PROVE Len(Leader(b)) = 0 /\ Len(Bits(b, 0)) = 0 /\ (b.data = <<>> => Before(b) = 0)
  BY <1>7, LeaderIs, DataFrom
<1>8. CASE b.pulses = <<>> /\ b.pilot = 0 /\ b.data # <<>>
  <2>1. o = [phase |-> "data", left |-> 0]
    BY <1>8 DEF Opening
  <2>2. "data" \in Phases /\ 0 \in Nat
    BY DEF Phases
  <2>3. /\ e \in Decks /\ SameTape(d, e) /\ e.level = d.level
        /\ e.phase = "data" /\ e.byte = 1 /\ e.bit = 1 /\ ~e.second_half
    BY <1>3, <2>1, <2>2
  <2> HIDE DEF e, o
  <2>4. Len(b.data) >= 1
    BY <1>1, <1>8, EmptySeq
  <2>5. Len(b.data[1]) \in Nat
    <3>1. 1 \in 1..Len(b.data)
      BY <1>1, <2>4
    <3> QED BY <3>1, BitsGrow
  <2>6. Len(Bits(b, e.byte - 1)) = 0
    BY <1>7, <1>8, <2>3
  <2>7. Along(e, b) = 0
    BY <1>7, <1>8, <2>3, <2>6 DEF Along
  <2>8. Within(e, b)
    BY <1>1, <1>8, <2>3, <2>4, <2>5 DEF Within
  <2> QED BY <2>3, <2>7, <2>8
<1>9. CASE b.pulses = <<>> /\ b.pilot = 0 /\ b.data = <<>>
  <2>1. o = [phase |-> "pause", left |-> 0]
    BY <1>9 DEF Opening
  <2>2. "pause" \in Phases /\ 0 \in Nat
    BY DEF Phases
  <2>3. /\ e \in Decks /\ SameTape(d, e) /\ e.level = d.level
        /\ e.phase = "pause" /\ ~e.second_half
    BY <1>3, <2>1, <2>2
  <2> HIDE DEF e, o
  <2> QED BY <1>7, <1>9, <2>3 DEF Within, Along
<1> QED BY <1>1, <1>5, <1>6, <1>8, <1>9

-----------------------------------------------------------------------------
(* The deck's steps, and the list's.                                       *)

\* Inductive, with CursorInv: every cursor is where its block has pulses.
Fits(d, tape) == d.phase # "idle" => Within(d, tape[d.block])
PlayInv == CursorInv /\ Fits(deck, blocks) /\ \A s \in saved : Fits(s.deck, blocks)

\* The place in the list, of a cursor on a tape.
On(d, tape, inAdvance) ==
  [motor |-> d.playing, ended |-> d.at_end, block |-> d.block, gone |-> Along(d, tape[d.block]),
   level |-> d.level,
   until |-> IF ~d.playing THEN 0 ELSE IF inAdvance THEN d.pulse_start ELSE d.pulse_start + d.pulse]

Kept(memory, tape) == {[cursor |-> On(s.deck, tape, FALSE), now |-> s.now] : s \in memory}

LEMMA PlaceIs ==
  /\ Place(deck, at = "advance") = On(deck, blocks, at = "advance")
  /\ Place(deck, at = "advance")' = On(deck', blocks', at' = "advance")
  /\ {[cursor |-> Place(s.deck, FALSE), now |-> s.now] : s \in saved} = Kept(saved, blocks)
  /\ {[cursor |-> Place(s.deck, FALSE), now |-> s.now] : s \in saved}' = Kept(saved', blocks')
<1>1. \A d, x : Place(d, x) = On(d, blocks, x)
  BY GoneIs DEF Place, On
<1>2. Place(deck, at = "advance")' = On(deck', blocks', at' = "advance")
  BY DEF Place, On, Gone, Along, Before, Bits
<1>3. {[cursor |-> Place(s.deck, FALSE), now |-> s.now] : s \in saved} = Kept(saved, blocks)
  BY <1>1 DEF Kept
<1>4. {[cursor |-> Place(s.deck, FALSE), now |-> s.now] : s \in saved}' = Kept(saved', blocks')
  BY DEF Kept, Place, On, Gone, Along, Before, Bits
<1> QED BY <1>1, <1>2, <1>3, <1>4

\* The tape in the deck is a list as long.
LEMMA AsListIs ==
  ASSUME blocks \in Seq(Blocks)
  PROVE  /\ Len(AsList) = Len(blocks) /\ Len(blocks) \in Nat
         /\ \A k \in 1..Len(blocks) :
               /\ AsList[k].signal = SignalOf(blocks[k]) /\ AsList[k].lead = Len(Leader(blocks[k]))
               /\ AsList[k].stop = blocks[k].stop /\ AsList[k].pause = blocks[k].pause
               /\ AsList[k].standard = (blocks[k].standard /\ blocks[k].data # <<>>)
<1> DEFINE n == Len(blocks)
<1>1. n \in Nat /\ DOMAIN blocks = 1..n
  BY LenProperties
<1> HIDE DEF n
<1>2. AsList = [k \in 1..n |-> [signal |-> SignalOf(blocks[k]), lead |-> Len(Leader(blocks[k])),
                                stop |-> blocks[k].stop, pause |-> blocks[k].pause,
                                standard |-> blocks[k].standard /\ blocks[k].data # <<>>]]
  BY <1>1 DEF AsList
<1>3. Len(AsList) = n
  BY <1>1, <1>2
<1>4. ASSUME NEW k \in 1..n
      PROVE  /\ AsList[k].signal = SignalOf(blocks[k]) /\ AsList[k].lead = Len(Leader(blocks[k]))
             /\ AsList[k].stop = blocks[k].stop /\ AsList[k].pause = blocks[k].pause
             /\ AsList[k].standard = (blocks[k].standard /\ blocks[k].data # <<>>)
  <2> DEFINE signal == SignalOf(blocks[k])
             lead == Len(Leader(blocks[k]))
             stop == blocks[k].stop
             pause == blocks[k].pause
             standard == blocks[k].standard /\ blocks[k].data # <<>>
  <2>1. AsList[k] = [signal |-> signal, lead |-> lead, stop |-> stop, pause |-> pause, standard |-> standard]
    BY <1>2
  <2> HIDE DEF signal, lead, stop, pause, standard
  <2>2. /\ AsList[k].signal = signal /\ AsList[k].lead = lead /\ AsList[k].stop = stop
        /\ AsList[k].pause = pause /\ AsList[k].standard = standard
    BY <2>1
  <2> QED BY <2>2, Zenon DEF signal, lead, stop, pause, standard
<1> QED BY <1>1, <1>3, <1>4, Zenon DEF n

\* In advance() at a block of the tape.
LEMMA AtBlock ==
  ASSUME PlayInv, at = "advance", deck.phase # "idle"
  PROVE  /\ deck \in Decks /\ deck.playing /\ deck.pulse_start <= now /\ now \in Nat
         /\ deck.block \in 1..Len(blocks) /\ Len(blocks) \in Nat
         /\ Current \in Blocks /\ Current = blocks[deck.block] /\ Within(deck, Current)
<1>1. deck \in Decks /\ deck.playing /\ deck.pulse_start <= now /\ now \in Nat /\ blocks \in Seq(Blocks)
      /\ deck.block \in 1..Len(blocks)
  BY DEF PlayInv, CursorInv, Good, PointsInto
<1>2. blocks[deck.block] \in Blocks /\ Len(blocks) \in Nat
  BY <1>1, ElementOfSeq, LenProperties
<1> QED BY <1>1, <1>2 DEF PlayInv, Fits, Current

\* What changes of a place, one part after another.
IsPlace(c, m, e, k, g, l, u) == c = [motor |-> m, ended |-> e, block |-> k, gone |-> g, level |-> l, until |-> u]

LEMMA Begun ==
  ASSUME NEW m, NEW e, NEW k, NEW g, NEW l, NEW u, NEW g1, NEW l1, NEW u1, NEW c,
         IsPlace(c, m, e, k, g, l, u)
  PROVE  IsPlace([c EXCEPT !.gone = g1, !.until = u1, !.level = l1], m, e, k, g1, l1, u1)
<1> USE DEF IsPlace
<1> DEFINE c1 == [c EXCEPT !.gone = g1]
           c2 == [c1 EXCEPT !.until = u1]
           c3 == [c2 EXCEPT !.level = l1]
<1>1. c1 = [motor |-> m, ended |-> e, block |-> k, gone |-> g1, level |-> l, until |-> u]
  OBVIOUS
<1>2. [c EXCEPT !.gone = g1, !.until = u1, !.level = l1] = c3
  OBVIOUS
<1> HIDE DEF c1
<1>3. c2 = [motor |-> m, ended |-> e, block |-> k, gone |-> g1, level |-> l, until |-> u1]
  BY <1>1
<1> HIDE DEF c2
<1>4. c3 = [motor |-> m, ended |-> e, block |-> k, gone |-> g1, level |-> l1, until |-> u1]
  BY <1>3
<1> QED BY <1>2, <1>4, Zenon

\* A step within a block that begins the next pulse.
LEMMA SoundsStep ==
  ASSUME PlayInv, at = "advance", deck.phase # "idle", Returned(deck'), Sounds(deck, deck', Current)
  PROVE  List!NextPulse
<1>1. /\ deck \in Decks /\ deck.playing /\ deck.pulse_start <= now /\ now \in Nat
      /\ deck.block \in 1..Len(blocks) /\ Len(blocks) \in Nat
      /\ Current \in Blocks /\ Current = blocks[deck.block] /\ blocks \in Seq(Blocks)
  BY AtBlock DEF PlayInv, CursorInv
<1>2. UNCHANGED <<blocks, now, saved>> /\ at' = "ear" /\ AsList' = AsList
  BY DEF Returned, AsList
<1> DEFINE c == Place(deck, at = "advance")
           b == Current
           a == Along(deck, b)
           p == SignalOf(b)[a + 1]
<1>3. /\ c = [motor |-> deck.playing, ended |-> deck.at_end, block |-> deck.block, gone |-> a,
              level |-> deck.level, until |-> deck.pulse_start]
  BY <1>1, PlaceIs DEF On
<1>4. AsList[deck.block].signal = SignalOf(b) /\ Len(AsList) = Len(blocks)
  BY <1>1, AsListIs
<1>5. Place(deck, at = "advance")' =
        [motor |-> deck.playing, ended |-> deck.at_end, block |-> deck.block, gone |-> a + 1,
         level |-> IF p.edge THEN ~deck.level ELSE FALSE, until |-> deck.pulse_start + p.length]
  <2>1. Place(deck, at = "advance")' = On(deck', blocks, FALSE)
    BY <1>2, PlaceIs
  <2>2. /\ deck'.playing = deck.playing /\ deck'.at_end = deck.at_end /\ deck'.block = deck.block
        /\ deck'.pulse_start = deck.pulse_start /\ Along(deck', b) = a + 1
        /\ deck'.pulse = p.length /\ deck'.level = (IF p.edge THEN ~deck.level ELSE FALSE)
    BY Zenon DEF Sounds, SameTape
  <2> HIDE DEF a, p
  <2>3. On(deck', blocks, FALSE) =
          [motor |-> deck.playing, ended |-> deck.at_end, block |-> deck.block, gone |-> a + 1,
           level |-> deck'.level, until |-> deck.pulse_start + p.length]
    BY <1>1, <2>2 DEF On
  <2> QED BY <2>1, <2>2, <2>3, Zenon
<1>6. a \in Nat /\ a < Len(SignalOf(b))
  <2>1. a \in Nat /\ a + 1 \in 1..Len(SignalOf(b)) /\ Len(SignalOf(b)) \in Nat
    BY <1>1, SignalIs DEF Sounds
  <2> QED BY <2>1
<1> HIDE DEF a, p, b
<1>7. List!Due /\ List!Loaded /\ Place(deck, at = "advance").gone < Len(List!Block.signal)
  BY <1>1, <1>3, <1>4, <1>6 DEF List!Due, List!Loaded, List!Block
<1>8. p = List!Block.signal[c.gone + 1]
  BY <1>3, <1>4 DEF List!Block, p
<1>9. Place(deck, at = "advance")' =
        [c EXCEPT !.gone = @ + 1, !.until = @ + p.length, !.level = IF p.edge THEN ~@ ELSE FALSE]
  <2> DEFINE level == IF p.edge THEN ~deck.level ELSE FALSE
  <2>1. [c EXCEPT !.gone = @ + 1, !.until = @ + p.length, !.level = IF p.edge THEN ~@ ELSE FALSE]
          = [c EXCEPT !.gone = @ + 1, !.until = @ + p.length, !.level = level]
    <3>1. c.level = deck.level
      BY <1>3
    <3> QED BY <3>1, Zenon
  <2> HIDE DEF level
  <2>2. [c EXCEPT !.gone = @ + 1, !.until = @ + p.length, !.level = level]
          = [motor |-> deck.playing, ended |-> deck.at_end, block |-> deck.block, gone |-> a + 1,
             level |-> level, until |-> deck.pulse_start + p.length]
    <3>1. c.gone = a /\ c.until = deck.pulse_start
      BY <1>3
    <3> HIDE DEF c
    <3>2. IsPlace(c, deck.playing, deck.at_end, deck.block, a, deck.level, deck.pulse_start)
      BY <1>3, Zenon DEF IsPlace
    <3>3. IsPlace([c EXCEPT !.gone = a + 1, !.until = deck.pulse_start + p.length, !.level = level],
                  deck.playing, deck.at_end, deck.block, a + 1, level, deck.pulse_start + p.length)
      BY <3>2, Begun
    <3> QED BY <3>1, <3>3, Zenon DEF IsPlace
  <2>3. Place(deck, at = "advance")' =
          [motor |-> deck.playing, ended |-> deck.at_end, block |-> deck.block, gone |-> a + 1,
           level |-> level, until |-> deck.pulse_start + p.length]
    BY <1>5 DEF level
  <2> QED BY <2>1, <2>2, <2>3, Zenon
<1>10. {[cursor |-> Place(s.deck, FALSE), now |-> s.now] : s \in saved}'
         = {[cursor |-> Place(s.deck, FALSE), now |-> s.now] : s \in saved}
  BY <1>2, PlaceIs
<1> QED BY <1>2, <1>7, <1>8, <1>9, <1>10 DEF List!NextPulse

LEMMA HaltedPlace ==
  ASSUME NEW m, NEW e, NEW k, NEW g, NEW l, NEW u, NEW c, IsPlace(c, m, e, k, g, l, u)
  PROVE  /\ IsPlace(List!Halted(c), FALSE, e, k, g, l, 0)
         /\ \A e1 : IsPlace([List!Halted(c) EXCEPT !.ended = e1], FALSE, e1, k, g, l, 0)
<1> DEFINE no == FALSE
           c1 == [c EXCEPT !.motor = no]
           c2 == [c1 EXCEPT !.until = 0]
           h == [c EXCEPT !.motor = no, !.until = 0]
<1>1. List!Halted(c) = h
  BY DEF List!Halted
<1> HIDE DEF no
<1>2. c1 = [motor |-> no, ended |-> e, block |-> k, gone |-> g, level |-> l, until |-> u]
  BY DEF IsPlace
<1>3. h = c2
  BY DEF IsPlace
<1> HIDE DEF c1, h
<1>4. c2 = [motor |-> no, ended |-> e, block |-> k, gone |-> g, level |-> l, until |-> 0]
  BY <1>2
<1> HIDE DEF c2
<1>5. ASSUME NEW e1
      PROVE  IsPlace([h EXCEPT !.ended = e1], no, e1, k, g, l, 0)
  <2>1. [c2 EXCEPT !.ended = e1] = [motor |-> no, ended |-> e1, block |-> k, gone |-> g, level |-> l, until |-> 0]
    BY <1>4
  <2> QED BY <1>3, <2>1, Zenon DEF IsPlace
<1>6. IsPlace(h, no, e, k, g, l, 0)
  BY <1>3, <1>4, Zenon DEF IsPlace
<1> QED BY <1>1, <1>5, <1>6, Zenon DEF no

LEMMA PlayedPlace ==
  ASSUME NEW m, NEW e, NEW k, NEW g, NEW l, NEW u, NEW c, IsPlace(c, m, e, k, g, l, u), NEW u1
  PROVE  IsPlace([c EXCEPT !.motor = TRUE, !.ended = FALSE, !.level = TRUE, !.until = u1], TRUE, FALSE, k, g, TRUE, u1)
<1> DEFINE yes == TRUE
           no == FALSE
           p == [c EXCEPT !.motor = yes, !.ended = no, !.level = yes, !.until = u1]
           c1 == [c EXCEPT !.motor = yes]
           c2 == [c1 EXCEPT !.ended = no]
           c3 == [c2 EXCEPT !.level = yes]
           c4 == [c3 EXCEPT !.until = u1]
<1> SUFFICES IsPlace(p, yes, no, k, g, yes, u1)
  OBVIOUS
<1> HIDE DEF yes, no
<1>1. c1 = [motor |-> yes, ended |-> e, block |-> k, gone |-> g, level |-> l, until |-> u]
  BY DEF IsPlace
<1>2. p = c4
  BY DEF IsPlace
<1> HIDE DEF c1
<1>3. c2 = [motor |-> yes, ended |-> no, block |-> k, gone |-> g, level |-> l, until |-> u]
  BY <1>1
<1> HIDE DEF c2
<1>4. c3 = [motor |-> yes, ended |-> no, block |-> k, gone |-> g, level |-> yes, until |-> u]
  BY <1>3
<1> HIDE DEF c3
<1>5. c4 = [motor |-> yes, ended |-> no, block |-> k, gone |-> g, level |-> yes, until |-> u1]
  BY <1>4
<1> HIDE DEF c4, p
<1> QED BY <1>2, <1>5, Zenon DEF IsPlace

LEMMA NextPlace ==
  ASSUME NEW m, NEW e, NEW k, NEW g, NEW l, NEW u, NEW c, IsPlace(c, m, e, k, g, l, u), NEW u1
  PROVE  /\ IsPlace([c EXCEPT !.block = @ + 1, !.gone = 0], m, e, k + 1, 0, l, u)
         /\ IsPlace([c EXCEPT !.block = @ + 1, !.gone = 0, !.level = FALSE, !.until = u1], m, e, k + 1, 0, FALSE, u1)
<1> DEFINE k1 == k + 1
           no == FALSE
           n2 == [c EXCEPT !.block = k1, !.gone = 0]
           n4 == [c EXCEPT !.block = k1, !.gone = 0, !.level = no, !.until = u1]
           c1 == [c EXCEPT !.block = k1]
           c2 == [c1 EXCEPT !.gone = 0]
           c3 == [c2 EXCEPT !.level = no]
           c4 == [c3 EXCEPT !.until = u1]
<1>0. c.block = k
  BY DEF IsPlace
<1>1. [c EXCEPT !.block = @ + 1, !.gone = 0] = n2
      /\ [c EXCEPT !.block = @ + 1, !.gone = 0, !.level = FALSE, !.until = u1] = n4
  BY <1>0, Zenon
<1> HIDE DEF k1, no
<1>2. c1 = [motor |-> m, ended |-> e, block |-> k1, gone |-> g, level |-> l, until |-> u]
  BY DEF IsPlace
<1>3. n2 = c2 /\ n4 = c4
  BY DEF IsPlace
<1> HIDE DEF c1, n2, n4
<1>4. c2 = [motor |-> m, ended |-> e, block |-> k1, gone |-> 0, level |-> l, until |-> u]
  BY <1>2
<1> HIDE DEF c2
<1>5. c3 = [motor |-> m, ended |-> e, block |-> k1, gone |-> 0, level |-> no, until |-> u]
  BY <1>4
<1> HIDE DEF c3
<1>6. c4 = [motor |-> m, ended |-> e, block |-> k1, gone |-> 0, level |-> no, until |-> u1]
  BY <1>5
<1> HIDE DEF c4
<1>7. IsPlace(n2, m, e, k1, 0, l, u) /\ IsPlace(n4, m, e, k1, 0, no, u1)
  BY <1>3, <1>4, <1>6, Zenon DEF IsPlace
<1> QED BY <1>1, <1>7, Zenon DEF k1, no

LEMMA OnePlace ==
  \A c, d, m, e, k, g, l, u : IsPlace(c, m, e, k, g, l, u) /\ IsPlace(d, m, e, k, g, l, u) => c = d
BY DEF IsPlace

\* The deck's place, now and next.
LEMMA CursorIs ==
  /\ IsPlace(Place(deck, at = "advance"), deck.playing, deck.at_end, deck.block, Along(deck, blocks[deck.block]),
             deck.level, IF ~deck.playing THEN 0 ELSE IF at = "advance" THEN deck.pulse_start
                         ELSE deck.pulse_start + deck.pulse)
  /\ IsPlace(Place(deck, at = "advance")', deck'.playing, deck'.at_end, deck'.block,
             Along(deck', blocks'[deck'.block]), deck'.level,
             IF ~deck'.playing THEN 0 ELSE IF at' = "advance" THEN deck'.pulse_start
             ELSE deck'.pulse_start + deck'.pulse)
BY PlaceIs, Zenon DEF On, IsPlace

\* What a place is told from.
LEMMA SamePlace ==
  ASSUME NEW d, NEW e, e.phase = d.phase, e.pulses_left = d.pulses_left, e.byte = d.byte, e.bit = d.bit,
         e.second_half = d.second_half, NEW b
  PROVE  (Within(d, b) <=> Within(e, b)) /\ Along(e, b) = Along(d, b)
BY DEF Within, Along

\* A step within a block that begins no pulse is none of the list's.
LEMMA SilentStep ==
  ASSUME PlayInv, at = "advance", Continue(deck'), Silent(deck, deck', blocks[deck.block])
  PROVE  UNCHANGED List!vars
<1>1. UNCHANGED <<blocks, now, saved>> /\ at' = "advance" /\ AsList' = AsList
  BY DEF Continue, AsList
<1>2. /\ deck'.playing = deck.playing /\ deck'.at_end = deck.at_end /\ deck'.block = deck.block
      /\ deck'.pulse_start = deck.pulse_start /\ deck'.level = deck.level
      /\ Along(deck', blocks[deck.block]) = Along(deck, blocks[deck.block])
  BY Zenon DEF Silent, SameTape
<1>3. On(deck', blocks, TRUE) = On(deck, blocks, TRUE)
  BY <1>2 DEF On
<1>4. Place(deck, at = "advance")' = Place(deck, at = "advance")
  BY <1>1, <1>3, PlaceIs
<1>5. {[cursor |-> Place(s.deck, FALSE), now |-> s.now] : s \in saved}'
        = {[cursor |-> Place(s.deck, FALSE), now |-> s.now] : s \in saved}
  BY <1>1, PlaceIs
<1> QED BY <1>1, <1>4, <1>5 DEF List!vars

\* The list's checkpoints are the deck's, on the tape they were made of.
LEMMA NothingElse ==
  ASSUME UNCHANGED <<blocks, saved>>
  PROVE  /\ AsList' = AsList
         /\ {[cursor |-> Place(s.deck, FALSE), now |-> s.now] : s \in saved}'
              = {[cursor |-> Place(s.deck, FALSE), now |-> s.now] : s \in saved}
BY PlaceIs DEF AsList

\* One turn of ear_at's loop, to the end of a pulse or out.
LEMMA EndPulsePlays ==
  ASSUME PlayInv, EndPulse
  PROVE  UNCHANGED List!vars /\ Fits(deck', blocks')
<1>1. deck \in Decks /\ deck.playing /\ at = "ear" /\ UNCHANGED <<blocks, now, saved>>
  BY DEF PlayInv, CursorInv, Good, EndPulse
<1>2. CASE Elapsed
  <2> DEFINE start == deck.pulse_start + deck.pulse
  <2>1. deck' = [deck EXCEPT !.pulse_start = start] /\ at' = "advance" /\ start \in Nat
    BY <1>1, <1>2 DEF EndPulse, Decks
  <2>2. /\ deck'.playing = deck.playing /\ deck'.at_end = deck.at_end /\ deck'.block = deck.block
        /\ deck'.pulse_start = start /\ deck'.level = deck.level /\ deck'.phase = deck.phase
        /\ deck'.pulses_left = deck.pulses_left /\ deck'.byte = deck.byte /\ deck'.bit = deck.bit
        /\ deck'.second_half = deck.second_half
    <3> HIDE DEF start
    <3> QED BY <1>1, <2>1 DEF Decks
  <2>3. \A b : (Within(deck, b) <=> Within(deck', b)) /\ Along(deck', b) = Along(deck, b)
    BY <2>2, SamePlace
  <2>4. On(deck', blocks, TRUE) = On(deck, blocks, FALSE)
    BY <1>1, <2>2, <2>3 DEF On
  <2>5. Place(deck, at = "advance")' = Place(deck, at = "advance")
    BY <1>1, <2>1, <2>4, PlaceIs
  <2>6. Fits(deck', blocks')
    BY <1>1, <2>2, <2>3 DEF PlayInv, Fits
  <2> QED BY <1>1, <2>5, <2>6, NothingElse DEF List!vars
<1>3. CASE ~Elapsed
  <2>1. deck' = deck /\ at' = "free"
    BY <1>3 DEF EndPulse
  <2>2. Place(deck, at = "advance")' = Place(deck, at = "advance")
    BY <1>1, <2>1, PlaceIs
  <2>3. Fits(deck', blocks')
    BY <1>1, <2>1 DEF PlayInv
  <2> QED BY <1>1, <2>2, <2>3, NothingElse DEF List!vars
<1> QED BY <1>2, <1>3

\* advance() at the start of a block, or past the last.
LEMMA StartBlockPlays ==
  ASSUME PlayInv, StartBlock
  PROVE  (List!Next \/ UNCHANGED List!vars) /\ Fits(deck', blocks')
<1>1. /\ deck \in Decks /\ deck.playing /\ at = "advance" /\ UNCHANGED <<blocks, now, saved>>
      /\ deck.phase = "idle" /\ deck.block \in 1..(Len(blocks) + 1) /\ blocks \in Seq(Blocks)
      /\ deck.pulse_start <= now
  BY DEF PlayInv, CursorInv, Good, PointsInto, StartBlock, In, RanOut, Continue
<1>2. CASE deck.block > Len(blocks)
  <2> DEFINE past == deck.block > Len(blocks)
             yes == TRUE
  <2>1. past = yes
    BY <1>2, Zenon
  <2>2. deck' = [deck EXCEPT !.playing = FALSE, !.at_end = past] /\ at' = "free"
    BY <1>2 DEF StartBlock, RanOut
  <2>3. deck' = [deck EXCEPT !.playing = FALSE, !.at_end = TRUE]
    BY <2>1, <2>2, Zenon
  <2>4. /\ deck'.playing = FALSE /\ deck'.at_end = TRUE /\ deck'.block = deck.block /\ deck'.phase = "idle"
        /\ deck'.level = deck.level
    BY <1>1, <2>3 DEF Decks
  <2>5. Fits(deck', blocks')
    BY <2>4 DEF Fits
  <2>6. Along(deck, blocks[deck.block]) = 0 /\ Along(deck', blocks'[deck'.block]) = 0
    BY <1>1, <2>4 DEF Along
  <2>7. IsPlace(Place(deck, at = "advance"), deck.playing, deck.at_end, deck.block, 0, deck.level, deck.pulse_start)
    BY <1>1, <2>6, CursorIs
  <2>8. IsPlace(Place(deck, at = "advance")', FALSE, TRUE, deck.block, 0, deck.level, 0)
    <3>1. IsPlace(Place(deck, at = "advance")', deck'.playing, deck'.at_end, deck'.block,
                  Along(deck', blocks'[deck'.block]), deck'.level, 0)
      BY <2>4, CursorIs
    <3> QED BY <2>4, <2>6, <3>1, Zenon
  <2>9. Place(deck, at = "advance")' = [List!Halted(Place(deck, at = "advance")) EXCEPT !.ended = TRUE]
    <3> DEFINE c == Place(deck, at = "advance")
    <3>1. IsPlace(c, deck.playing, deck.at_end, deck.block, 0, deck.level, deck.pulse_start)
      BY <2>7
    <3> HIDE DEF c
    <3>2. \A e1 : IsPlace([List!Halted(c) EXCEPT !.ended = e1], FALSE, e1, deck.block, 0, deck.level, 0)
      BY <3>1, HaltedPlace
    <3>3. IsPlace([List!Halted(c) EXCEPT !.ended = TRUE], FALSE, TRUE, deck.block, 0, deck.level, 0)
      BY <3>2, Zenon
    <3>4. Place(deck, at = "advance")' = [List!Halted(c) EXCEPT !.ended = TRUE]
      BY <2>8, <3>3, Zenon DEF IsPlace
    <3> QED BY <3>4 DEF c
  <2>10. Place(deck, at = "advance").motor /\ Place(deck, at = "advance").until <= now
         /\ Place(deck, at = "advance").block = deck.block
    BY <1>1, <2>7 DEF IsPlace
  <2>11. List!Due /\ ~List!Loaded
    <3>1. Len(AsList) = Len(blocks) /\ Len(blocks) \in Nat
      BY <1>1, AsListIs
    <3> QED BY <1>1, <1>2, <2>7, <2>10, <3>1 DEF List!Due, List!Loaded, Decks, IsPlace, PlayInv, CursorInv
  <2>12. List!RunOut
    BY <1>1, <2>9, <2>11, NothingElse DEF List!RunOut
  <2> QED BY <2>5, <2>12 DEF List!Next
<1>3. CASE ~(deck.block > Len(blocks))
  <2> DEFINE b == blocks[deck.block]
  <2>1. deck.block \in 1..Len(blocks)
    BY <1>1, <1>3, LenProperties DEF Decks
  <2>2. b \in Blocks
    BY <1>1, <2>1, ElementOfSeq
  <2>3. deck' = Started /\ at' = "advance" /\ Continue(deck')
    BY <1>3 DEF StartBlock, Continue
  <2>4. Started = [deck EXCEPT !.phase = Opening(b).phase, !.pulses_left = Opening(b).left,
                               !.byte = 1, !.bit = 1, !.second_half = FALSE]
    BY DEF Started, Current
  <2>5. Silent(deck, deck', b)
    <3> HIDE DEF b
    <3> QED BY <1>1, <2>2, <2>3, <2>4, StartGo
  <2>6. UNCHANGED List!vars
    BY <1>1, <2>3, <2>5, SilentStep
  <2>7. Fits(deck', blocks')
    BY <1>1, <2>5 DEF Silent, SameTape, Fits
  <2> QED BY <2>6, <2>7
<1> QED BY <1>2, <1>3

\* And within one.
LEMMA BlockPlays ==
  ASSUME PlayInv, PlayPulses \/ PlayPilot \/ PlaySync1 \/ PlaySync2 \/ PlayData \/ PlayPause
  PROVE  (List!Next \/ UNCHANGED List!vars) /\ Fits(deck', blocks')
<1>1. at = "advance" /\ deck.phase # "idle" /\ UNCHANGED <<blocks, now, saved>>
  BY DEF PlayPulses, PlayPilot, PlaySync1, PlaySync2, PlayData, PlayPause, In, Returned, Continue
<1>2. deck \in Decks /\ Current \in Blocks /\ Current = blocks[deck.block] /\ Within(deck, Current)
  BY <1>1, AtBlock
<1>3. SUFFICES \/ Returned(deck') /\ Sounds(deck, deck', Current)
               \/ Continue(deck') /\ Silent(deck, deck', Current)
  <2>1. CASE Returned(deck') /\ Sounds(deck, deck', Current)
    <3>1. List!NextPulse
      BY <1>1, <2>1, SoundsStep
    <3>2. Fits(deck', blocks')
      BY <1>1, <1>2, <2>1 DEF Sounds, SameTape, Fits
    <3> QED BY <3>1, <3>2 DEF List!Next
  <2>2. CASE Continue(deck') /\ Silent(deck, deck', Current)
    <3>1. UNCHANGED List!vars
      BY <1>1, <1>2, <2>2, SilentStep
    <3>2. Fits(deck', blocks')
      BY <1>1, <1>2, <2>2 DEF Silent, SameTape, Fits
    <3> QED BY <3>1, <3>2
  <2> QED BY <1>3, <2>1, <2>2
<1>4. CASE PlayPulses
  BY <1>2, <1>4, PulsesGo, Zenon DEF PlayPulses, In, Returned, Continue
<1>5. CASE PlayPilot
  BY <1>2, <1>5, PilotGo, Zenon DEF PlayPilot, In, Returned, Continue
<1>6. CASE PlaySync1
  BY <1>2, <1>6, Sync1Go, Zenon DEF PlaySync1, In, Returned
<1>7. CASE PlaySync2
  BY <1>2, <1>7, Sync2Go, Zenon DEF PlaySync2, In, Returned
<1>8. CASE PlayData
  <2> DEFINE b == Current
             d1 == [deck EXCEPT !.phase = "pause"]
             d2 == [Toggled(deck, b.data[deck.byte][deck.bit])
                      EXCEPT !.second_half = ~@, !.bit = IF deck.second_half THEN @ + 1 ELSE @]
             d3 == [deck EXCEPT !.byte = @ + 1, !.bit = 1, !.second_half = FALSE]
  <2>1. /\ deck.byte > Len(b.data) => Silent(deck, d1, b)
        /\ ~(deck.byte > Len(b.data)) /\ deck.bit <= Len(b.data[deck.byte]) => Sounds(deck, d2, b)
        /\ ~(deck.byte > Len(b.data)) /\ ~(deck.bit <= Len(b.data[deck.byte])) => Silent(deck, d3, b)
    <3>1. deck.phase = "data"
      BY <1>8 DEF PlayData, In
    <3> HIDE DEF b
    <3> USE DEF d1, d2, d3
    <3> QED BY <1>2, <3>1, DataGo, Zenon DEF b
  <2>2. IF deck.byte > Len(b.data) THEN Continue(d1)
        ELSE IF deck.bit <= Len(b.data[deck.byte]) THEN Returned(d2) ELSE Continue(d3)
    BY <1>8, Zenon DEF PlayData
  <2> HIDE DEF b, d1, d2, d3
  <2>3. \/ Returned(deck') /\ Sounds(deck, deck', b)
        \/ Continue(deck') /\ Silent(deck, deck', b)
    BY <2>1, <2>2, Zenon DEF Returned, Continue
  <2> QED BY <2>3 DEF b
<1>9. CASE PlayPause
  BY <1>2, <1>9, PauseGo, Zenon DEF PlayPause, In, Returned, Continue
<1> QED BY <1>4, <1>5, <1>6, <1>7, <1>8, <1>9

\* The end of a block is the end of the list's.
LEMMA EndBlockPlays ==
  ASSUME PlayInv, EndBlock
  PROVE  List!NextBlock /\ Fits(deck', blocks')
<1> DEFINE b == blocks[deck.block]
           k1 == deck.block + 1
           next == [deck EXCEPT !.block = k1, !.phase = "idle", !.block_start = deck.pulse_start]
           n == Len(SignalOf(b))
           c == Place(deck, at = "advance")
           cn == [c EXCEPT !.block = @ + 1, !.gone = 0]
           past == k1 > Len(blocks)
<1>1. at = "advance" /\ deck.phase = "end" /\ UNCHANGED <<blocks, now, saved>>
  BY DEF EndBlock, In, RanOut, Continue
<1>2. /\ deck \in Decks /\ deck.playing /\ deck.pulse_start <= now /\ now \in Nat
      /\ deck.block \in 1..Len(blocks) /\ Len(blocks) \in Nat /\ b \in Blocks /\ Current = b
      /\ blocks \in Seq(Blocks)
  BY <1>1, AtBlock DEF PlayInv, CursorInv
<1>3. Along(deck, b) = n
  BY <1>1 DEF Along
<1>4. IsPlace(c, deck.playing, deck.at_end, deck.block, n, deck.level, deck.pulse_start)
  <2>1. IsPlace(c, deck.playing, deck.at_end, deck.block, Along(deck, b), deck.level,
                IF ~deck.playing THEN 0 ELSE IF at = "advance" THEN deck.pulse_start
                ELSE deck.pulse_start + deck.pulse)
    BY CursorIs
  <2> HIDE DEF b, n, c
  <2> QED BY <1>1, <1>2, <1>3, <2>1
<1>5. IsPlace(cn, deck.playing, deck.at_end, k1, 0, deck.level, deck.pulse_start)
  <2> HIDE DEF c, n
  <2> QED BY <1>4, NextPlace
<1>6. c.motor /\ c.until <= now /\ c.block = deck.block /\ c.gone = n /\ cn.block = k1
  <2>1. c.motor = deck.playing /\ c.until = deck.pulse_start /\ c.block = deck.block /\ c.gone = n
    <3> HIDE DEF c, n, b
    <3> QED BY <1>4 DEF IsPlace
  <2>2. cn.block = k1
    <3> HIDE DEF cn, k1
    <3> QED BY <1>5 DEF IsPlace
  <2> HIDE DEF c, cn
  <2> QED BY <1>2, <2>1, <2>2
<1>7. List!Due /\ List!Loaded /\ c.gone = Len(List!Block.signal) /\ List!Block.stop = b.stop
      /\ Len(AsList) = Len(blocks)
  <2>1. /\ Len(AsList) = Len(blocks) /\ AsList[deck.block].signal = SignalOf(b)
        /\ AsList[deck.block].stop = b.stop
    BY <1>2, AsListIs
  <2> HIDE DEF b
  <2> QED BY <1>2, <1>6, <2>1 DEF List!Due, List!Loaded, List!Block
<1>8. /\ next \in Decks /\ next.playing = deck.playing /\ next.at_end = deck.at_end /\ next.block = k1
      /\ next.phase = "idle" /\ next.level = deck.level /\ next.pulse_start = deck.pulse_start
  <2>1. k1 \in Nat
    BY <1>2
  <2> HIDE DEF k1
  <2> QED BY <1>2, <2>1 DEF Decks, Phases
<1>9. IF b.stop THEN RanOut(next) ELSE Continue(next)
  BY <1>2 DEF EndBlock
<1>10. CASE b.stop
  <2>1. deck' = [next EXCEPT !.playing = FALSE, !.at_end = past] /\ at' = "free"
    <3>1. deck' = [next EXCEPT !.playing = FALSE, !.at_end = next.block > Len(blocks)] /\ at' = "free"
      BY <1>9, <1>10 DEF RanOut
    <3> HIDE DEF next
    <3> QED BY <1>8, <3>1, Zenon
  <2>2. /\ deck'.playing = FALSE /\ deck'.at_end = past /\ deck'.block = k1 /\ deck'.phase = "idle"
        /\ deck'.level = deck.level
    <3> HIDE DEF next, past, k1
    <3> QED BY <1>8, <2>1 DEF Decks
  <2>3. Fits(deck', blocks') /\ Along(deck', blocks'[deck'.block]) = 0
    BY <2>2 DEF Fits, Along
  <2>4. IsPlace(Place(deck, at = "advance")', FALSE, past, k1, 0, deck.level, 0)
    <3>1. IsPlace(Place(deck, at = "advance")', deck'.playing, deck'.at_end, deck'.block,
                  Along(deck', blocks'[deck'.block]), deck'.level, 0)
      BY <2>2, CursorIs
    <3> HIDE DEF past, k1
    <3> QED BY <2>2, <2>3, <3>1, Zenon
  <2>5. \A e1 : IsPlace([List!Halted(cn) EXCEPT !.ended = e1], FALSE, e1, k1, 0, deck.level, 0)
    <3> HIDE DEF cn, k1
    <3> QED BY <1>5, HaltedPlace
  <2>6. Place(deck, at = "advance")' = [List!Halted(cn) EXCEPT !.ended = past]
    <3> HIDE DEF cn, k1, past
    <3>1. IsPlace([List!Halted(cn) EXCEPT !.ended = past], FALSE, past, k1, 0, deck.level, 0)
      BY <2>5, Zenon
    <3> QED BY <2>4, <3>1, Zenon DEF IsPlace
  <2>7. Place(deck, at = "advance")' = [List!Halted(cn) EXCEPT !.ended = cn.block > Len(AsList)]
    <3> HIDE DEF cn, k1
    <3> QED BY <1>6, <1>7, <2>6, Zenon
  <2>8. List!NextBlock
    <3> USE DEF c, cn
    <3> HIDE DEF b
    <3> QED BY <1>1, <1>7, <1>10, <2>7, NothingElse, Zenon DEF List!NextBlock
  <2> QED BY <2>3, <2>8
<1>11. CASE ~b.stop
  <2>1. deck' = next /\ at' = "advance"
    BY <1>9, <1>11 DEF Continue
  <2>2. Fits(deck', blocks') /\ Along(deck', blocks'[deck'.block]) = 0
    <3> HIDE DEF next
    <3> QED BY <1>8, <2>1 DEF Fits, Along
  <2>4. IsPlace(Place(deck, at = "advance")', deck.playing, deck.at_end, k1, 0, deck.level, deck.pulse_start)
    <3> HIDE DEF next, k1
    <3>1. deck'.playing
      BY <1>2, <1>8, <2>1
    <3>2. IsPlace(Place(deck, at = "advance")', deck'.playing, deck'.at_end, deck'.block,
                  Along(deck', blocks'[deck'.block]), deck'.level, deck'.pulse_start)
      BY <2>1, <3>1, CursorIs
    <3> QED BY <1>8, <2>1, <2>2, <3>2, Zenon
  <2>5. Place(deck, at = "advance")' = cn
    <3> HIDE DEF cn, k1
    <3> QED BY <1>5, <2>4, Zenon DEF IsPlace
  <2>8. List!NextBlock
    <3> USE DEF c, cn
    <3> HIDE DEF b
    <3> QED BY <1>1, <1>7, <1>11, <2>5, NothingElse, Zenon DEF List!NextBlock
  <2> QED BY <2>2, <2>8
<1> QED BY <1>10, <1>11

\* The walk plays the list.
LEMMA WalkPlays ==
  ASSUME PlayInv, Walk
  PROVE  (List!Next \/ UNCHANGED List!vars) /\ Fits(deck', blocks') /\ UNCHANGED <<blocks, saved>>
<1>1. UNCHANGED <<blocks, saved>>
  BY DEF Walk, EndPulse, StartBlock, PlayPulses, PlayPilot, PlaySync1, PlaySync2, PlayData,
         PlayPause, EndBlock, Continue, Returned, RanOut
<1>2. CASE EndPulse
  BY <1>1, <1>2, EndPulsePlays
<1>3. CASE StartBlock
  BY <1>1, <1>3, StartBlockPlays
<1>4. CASE PlayPulses \/ PlayPilot \/ PlaySync1 \/ PlaySync2 \/ PlayData \/ PlayPause
  BY <1>1, <1>4, BlockPlays
<1>5. CASE EndBlock
  BY <1>1, <1>5, EndBlockPlays DEF List!Next
<1> QED BY <1>2, <1>3, <1>4, <1>5 DEF Walk

\* Any tape as a list.
ListOf(tape) ==
  [k \in DOMAIN tape |->
     [signal |-> SignalOf(tape[k]), lead |-> Len(Leader(tape[k])), stop |-> tape[k].stop,
      pause |-> tape[k].pause, standard |-> tape[k].standard /\ tape[k].data # <<>>]]

LEMMA ListLong ==
  ASSUME NEW tape \in Seq(Blocks)
  PROVE  Len(ListOf(tape)) = Len(tape) /\ Len(tape) \in Nat
         /\ (ListOf(tape) = <<>> <=> Len(tape) = 0) /\ (tape = <<>> <=> Len(tape) = 0)
<1> DEFINE n == Len(tape)
           l == ListOf(tape)
           F(k) == [signal |-> SignalOf(tape[k]), lead |-> Len(Leader(tape[k])), stop |-> tape[k].stop,
                    pause |-> tape[k].pause, standard |-> tape[k].standard /\ tape[k].data # <<>>]
<1>1. n \in Nat /\ DOMAIN tape = 1..n /\ (tape = <<>> <=> n = 0)
  BY LenProperties, EmptySeq
<1>2. l = [k \in 1..n |-> F(k)]
  BY <1>1 DEF ListOf
<1> HIDE DEF n, l, F
<1>3. Len(l) = n
  BY <1>1, <1>2
<1>4. l = <<>> <=> n = 0
  <2>1. n = 0 => l = <<>>
    <3>1. n = 0 => 1..n = {}
      OBVIOUS
    <3> QED BY <1>2, <3>1
  <2>2. l = <<>> => n = 0
    BY <1>3
  <2> QED BY <2>1, <2>2
<1> QED BY <1>1, <1>3, <1>4 DEF n, l

\* A stopped cursor is the list's.
LEMMA StoppedPlace ==
  ASSUME NEW tape \in Seq(Blocks), NEW k \in 1..(Len(tape) + 1)
  PROVE  On(Stopped(k, tape), tape, FALSE) = List!At(k, ListOf(tape))
<1> DEFINE d == Stopped(k, tape)
           e == tape # <<>> /\ k > Len(tape)
           e1 == ListOf(tape) # <<>> /\ k > Len(ListOf(tape))
           no == FALSE
<1>1. e = e1
  BY ListLong, Zenon
<1>2. /\ d.playing = no /\ d.at_end = e /\ d.block = k /\ d.phase = "idle" /\ d.level = no
  <2>1. d = [playing |-> no, at_end |-> e, block |-> k,
             phase |-> "idle", byte |-> 1, bit |-> 1, second_half |-> no, pulses_left |-> 0,
             level |-> no, pulse_start |-> 0, pulse |-> 0, block_start |-> 0]
    BY DEF Stopped
  <2> HIDE DEF d, e, no
  <2> QED BY <2>1
<1>3. Along(d, tape[d.block]) = 0
  <2> HIDE DEF d
  <2> QED BY <1>2 DEF Along
<1>4. On(d, tape, FALSE) = [motor |-> d.playing, ended |-> d.at_end, block |-> d.block,
                            gone |-> Along(d, tape[d.block]), level |-> d.level, until |-> 0]
  <2>1. ~d.playing
    BY <1>2
  <2> HIDE DEF d
  <2> QED BY <2>1 DEF On
<1>5. On(d, tape, FALSE) = [motor |-> no, ended |-> e1, block |-> k, gone |-> 0, level |-> no, until |-> 0]
  <2> HIDE DEF d, e, e1, no
  <2> QED BY <1>1, <1>2, <1>3, <1>4, Zenon
<1> QED BY <1>5, Zenon DEF List!At

LEMMA InitPlays == Init => PlayInv /\ List!Init
<1> SUFFICES ASSUME Init PROVE PlayInv /\ List!Init
  OBVIOUS
<1>1. CursorInv
  BY InitGood
<1>2. deck = Stopped(1, <<>>) /\ blocks = <<>> /\ now = 0 /\ saved = {} /\ at = "free"
  BY DEF Init
<1>3. deck.phase = "idle"
  BY <1>2 DEF Stopped
<1>4. PlayInv
  BY <1>1, <1>2, <1>3 DEF PlayInv, Fits
<1>5. <<>> \in Seq(Blocks) /\ Len(<<>>) = 0 /\ 1 \in 1..(Len(<<>>) + 1)
  OBVIOUS
<1>6. AsList = <<>>
  <2>1. AsList = ListOf(<<>>)
    BY <1>2 DEF AsList, ListOf
  <2> QED BY <1>5, <2>1, ListLong
<1>7. Place(deck, at = "advance") = List!At(1, <<>>)
  <2>1. Place(deck, at = "advance") = On(Stopped(1, <<>>), <<>>, FALSE)
    BY <1>2, PlaceIs
  <2>2. ListOf(<<>>) = <<>>
    BY <1>5, ListLong
  <2> QED BY <1>5, <2>1, <2>2, StoppedPlace
<1>8. {[cursor |-> Place(s.deck, FALSE), now |-> s.now] : s \in saved} = {}
  BY <1>2
<1> QED BY <1>2, <1>4, <1>6, <1>7, <1>8 DEF List!Init

\* A tape put in, or none.
LEMMA LoadPlays ==
  ASSUME CursorInv, NEW tape \in Seq(Blocks), Load(tape)
  PROVE  List!Load /\ Fits(deck', blocks') /\ saved' = {}
<1>1. blocks' = tape /\ deck' = Stopped(1, tape) /\ saved' = {} /\ now' = now /\ at' = "free"
  BY DEF Load, Operation
<1>2. deck'.phase = "idle"
  BY <1>1 DEF Stopped
<1>3. AsList' = ListOf(tape)
  BY <1>1 DEF AsList, ListOf
<1>4. 1 \in 1..(Len(tape) + 1)
  BY LenProperties
<1>5. Place(deck, at = "advance")' = List!At(1, AsList')
  <2>1. Place(deck, at = "advance")' = On(Stopped(1, tape), tape, FALSE)
    BY <1>1, PlaceIs
  <2> QED BY <1>3, <1>4, <2>1, StoppedPlace
<1>6. {[cursor |-> Place(s.deck, FALSE), now |-> s.now] : s \in saved}' = {}
  BY <1>1, PlaceIs DEF Kept
<1> QED BY <1>1, <1>2, <1>5, <1>6 DEF List!Load, Fits

\* The transport.
LEMMA TransportPlays ==
  ASSUME PlayInv, Seek \/ Play \/ Stop \/ Reset
  PROVE  List!Next /\ Fits(deck', blocks') /\ saved' \subseteq saved /\ blocks' = blocks
<1>0. deck \in Decks /\ now \in Nat /\ blocks \in Seq(Blocks) /\ Fits(deck, blocks)
  BY DEF PlayInv, CursorInv, Good
<1> DEFINE c == Place(deck, at = "advance")
           a == Along(deck, blocks[deck.block])
           u == IF ~deck.playing THEN 0 ELSE deck.pulse_start + deck.pulse
<1>1. at = "free" /\ at' = "free" /\ blocks' = blocks
  BY DEF Seek, Play, Stop, Reset, Operation
<1>1a. IsPlace(c, deck.playing, deck.at_end, deck.block, a, deck.level, u)
  <2>1. IsPlace(c, deck.playing, deck.at_end, deck.block, a, deck.level,
                IF ~deck.playing THEN 0 ELSE IF at = "advance" THEN deck.pulse_start
                ELSE deck.pulse_start + deck.pulse)
    BY CursorIs
  <2> HIDE DEF c, a
  <2> QED BY <1>1, <2>1
<1>2. CASE Seek
  <2>1. PICK k \in 1..(Len(blocks) + 1) : deck' = Stopped(k, blocks)
    BY <1>2 DEF Seek
  <2>2. deck'.phase = "idle" /\ UNCHANGED <<now, saved>>
    BY <1>2, <2>1 DEF Seek, Stopped
  <2>3. AsList = ListOf(blocks)
    BY DEF AsList, ListOf
  <2>4. Place(deck, at = "advance")' = List!At(k, AsList)
    <3>1. Place(deck, at = "advance")' = On(Stopped(k, blocks), blocks, FALSE)
      BY <1>1, <2>1, PlaceIs
    <3> QED BY <1>0, <2>3, <3>1, StoppedPlace
  <2>5. k \in 1..(Len(AsList) + 1)
    BY <1>0, AsListIs
  <2>6. List!Seek
    BY <1>1, <2>2, <2>4, <2>5, NothingElse DEF List!Seek
  <2> QED BY <1>1, <2>2, <2>6 DEF Fits, List!Next
<1>3. CASE Play
  <2> DEFINE bs == IF deck.phase = "idle" THEN now ELSE deck.block_start
  <2>1. /\ deck.block <= Len(blocks) /\ UNCHANGED <<now, saved>>
        /\ deck' = [deck EXCEPT !.playing = TRUE, !.at_end = FALSE, !.pulse_start = now,
                                !.pulse = 0, !.level = TRUE, !.block_start = bs]
    BY <1>3 DEF Play
  <2> HIDE DEF bs
  <2>2. /\ deck'.playing = TRUE /\ deck'.at_end = FALSE /\ deck'.block = deck.block /\ deck'.pulse_start = now
        /\ deck'.pulse = 0 /\ deck'.level = TRUE /\ deck'.phase = deck.phase
        /\ deck'.pulses_left = deck.pulses_left /\ deck'.byte = deck.byte /\ deck'.bit = deck.bit
        /\ deck'.second_half = deck.second_half
    BY <1>0, <2>1 DEF Decks
  <2>3. \A b : (Within(deck, b) <=> Within(deck', b)) /\ Along(deck', b) = Along(deck, b)
    BY <2>2, SamePlace
  <2>4. Fits(deck', blocks') /\ Along(deck', blocks'[deck'.block]) = a
    BY <1>0, <1>1, <2>2, <2>3 DEF Fits
  <2>5. IsPlace(Place(deck, at = "advance")', TRUE, FALSE, deck.block, a, TRUE, now)
    <3>1. IsPlace(Place(deck, at = "advance")', deck'.playing, deck'.at_end, deck'.block,
                  Along(deck', blocks'[deck'.block]), deck'.level, deck'.pulse_start + deck'.pulse)
      BY <1>1, <2>2, CursorIs
    <3>2. deck'.pulse_start + deck'.pulse = now
      BY <1>0, <2>2
    <3> HIDE DEF a
    <3> QED BY <2>2, <2>4, <3>1, <3>2, Zenon
  <2>6. Place(deck, at = "advance")' =
          [c EXCEPT !.motor = TRUE, !.ended = FALSE, !.level = TRUE, !.until = now]
    <3> HIDE DEF a, c, u
    <3>1. IsPlace([c EXCEPT !.motor = TRUE, !.ended = FALSE, !.level = TRUE, !.until = now],
                  TRUE, FALSE, deck.block, a, TRUE, now)
      BY <1>1a, PlayedPlace
    <3> QED BY <2>5, <3>1, Zenon DEF IsPlace
  <2>7. List!Loaded
    <3>1. c.block = deck.block
      <4> HIDE DEF c, a, u
      <4> QED BY <1>1a DEF IsPlace
    <3> QED BY <1>0, <2>1, <3>1, AsListIs DEF List!Loaded
  <2>8. List!Play
    BY <1>1, <2>1, <2>6, <2>7, NothingElse DEF List!Play
  <2> QED BY <1>1, <2>1, <2>4, <2>8 DEF List!Next
<1>4. ASSUME deck' = [deck EXCEPT !.playing = FALSE]
      PROVE  Place(deck, at = "advance")' = List!Halted(c) /\ Fits(deck', blocks')
  <2>2. /\ deck'.playing = FALSE /\ deck'.at_end = deck.at_end /\ deck'.block = deck.block
        /\ deck'.level = deck.level /\ deck'.phase = deck.phase
        /\ deck'.pulses_left = deck.pulses_left /\ deck'.byte = deck.byte /\ deck'.bit = deck.bit
        /\ deck'.second_half = deck.second_half
    BY <1>0, <1>4 DEF Decks
  <2>3. \A b : (Within(deck, b) <=> Within(deck', b)) /\ Along(deck', b) = Along(deck, b)
    BY <2>2, SamePlace
  <2>4. Fits(deck', blocks') /\ Along(deck', blocks'[deck'.block]) = a
    BY <1>0, <1>1, <2>2, <2>3 DEF Fits
  <2>5. IsPlace(Place(deck, at = "advance")', FALSE, deck.at_end, deck.block, a, deck.level, 0)
    <3>1. IsPlace(Place(deck, at = "advance")', deck'.playing, deck'.at_end, deck'.block,
                  Along(deck', blocks'[deck'.block]), deck'.level, 0)
      BY <1>1, <2>2, CursorIs
    <3> HIDE DEF a
    <3> QED BY <2>2, <2>4, <3>1, Zenon
  <2>6. Place(deck, at = "advance")' = List!Halted(c)
    <3> HIDE DEF a, c, u
    <3>1. IsPlace(List!Halted(c), FALSE, deck.at_end, deck.block, a, deck.level, 0)
      BY <1>1a, HaltedPlace
    <3> QED BY <2>5, <3>1, Zenon DEF IsPlace
  <2> QED BY <2>4, <2>6
<1>5. CASE Stop
  <2>1. deck' = [deck EXCEPT !.playing = FALSE] /\ UNCHANGED <<now, saved>>
    BY <1>5 DEF Stop
  <2>2. List!Stop
    BY <1>1, <1>4, <2>1, NothingElse DEF List!Stop
  <2> QED BY <1>1, <1>4, <2>1, <2>2 DEF List!Next
<1>6. CASE Reset
  <2>1. deck' = [deck EXCEPT !.playing = FALSE] /\ now' = 0 /\ saved' = {}
    BY <1>6 DEF Reset
  <2>2. {[cursor |-> Place(s.deck, FALSE), now |-> s.now] : s \in saved}' = {} /\ AsList' = AsList
    BY <1>1, <2>1, PlaceIs DEF Kept, AsList
  <2>3. List!Reset
    BY <1>4, <2>1, <2>2 DEF List!Reset
  <2> QED BY <1>1, <1>4, <2>1, <2>3 DEF List!Next
<1> QED BY <1>2, <1>3, <1>5, <1>6

\* The clock, and a look at the port begun.
LEMMA WaitingPlays ==
  ASSUME PlayInv, Tick \/ Pull
  PROVE  (List!Next \/ UNCHANGED List!vars) /\ deck' = deck /\ UNCHANGED <<blocks, saved>>
<1>1. CASE Tick
  <2>1. Place(deck, at = "advance")' = Place(deck, at = "advance")
    BY <1>1, PlaceIs DEF Tick
  <2>2. List!Tick
    BY <1>1, <2>1, NothingElse DEF Tick, List!Tick
  <2> QED BY <1>1, <2>2 DEF Tick, List!Next
<1>2. CASE Pull
  <2>1. at = "free" /\ at' = "ear" /\ deck' = deck /\ UNCHANGED <<blocks, now, saved>>
    <3>1. deck \in Decks /\ now \in Nat /\ deck.pulse_start <= now
      BY <1>2 DEF Pull, PlayInv, CursorInv, Good
    <3>2. ~(now < deck.pulse_start)
      BY <3>1 DEF Decks
    <3> QED BY <1>2, <3>2 DEF Pull
  <2>2. Place(deck, at = "advance")' = Place(deck, at = "advance")
    BY <2>1, PlaceIs
  <2> QED BY <2>1, <2>2, NothingElse DEF List!vars
<1> QED BY <1>1, <1>2

\* The trap skips a block of which the list's lead has not been passed.
LEMMA FastLoadPlays ==
  ASSUME PlayInv, FastLoad
  PROVE  List!Next /\ Fits(deck', blocks') /\ UNCHANGED <<blocks, saved>>
<1> DEFINE b == blocks[deck.block]
           c == Place(deck, at = "advance")
           k1 == deck.block + 1
           a == Along(deck, b)
           u == deck.pulse_start + deck.pulse
           u1 == now + b.pause
           cn == [c EXCEPT !.block = @ + 1, !.gone = 0, !.level = FALSE, !.until = u1]
<1>1. /\ deck \in Decks /\ now \in Nat /\ blocks \in Seq(Blocks) /\ Fits(deck, blocks)
      /\ at = "free" /\ at' = "free" /\ UNCHANGED <<blocks, now, saved>>
      /\ deck.playing /\ deck.block <= Len(blocks) /\ deck.block \in 1..(Len(blocks) + 1)
      /\ deck.phase \in {"idle", "pilot", "sync1", "sync2"} /\ Current = b /\ b.standard /\ b.data # <<>>
  BY DEF PlayInv, CursorInv, Good, PointsInto, FastLoad, Walked, StandardBlock, Current
<1>2. Len(blocks) \in Nat /\ deck.block \in 1..Len(blocks) /\ b \in Blocks /\ b.pause \in Nat
  <2>1. Len(blocks) \in Nat /\ deck.block \in 1..Len(blocks)
    BY <1>1, LenProperties
  <2>2. b \in Blocks
    BY <1>1, <2>1, ElementOfSeq
  <2> QED BY <2>1, <2>2, BlockIs
<1>3. a <= Len(Leader(b))
  <2>1. CASE deck.phase = "idle"
    <3>1. a = 0
      BY <2>1 DEF Along
    <3>2. Len(Leader(b)) \in Nat
      BY <1>2, LeaderIs, LenProperties
    <3> QED BY <3>1, <3>2
  <2>2. CASE deck.phase \in {"pilot", "sync1", "sync2"}
    <3>1. Within(deck, b) /\ b.pulses = <<>> /\ b.pilot > 0 /\ deck.pulses_left \in Nat
      BY <1>1, <2>2 DEF Fits, Within, Decks
    <3>2. b.pilot \in Nat /\ Len(Leader(b)) = b.pilot + 2
      BY <1>2, <3>1, LeaderThere
    <3>3. a = b.pilot - deck.pulses_left \/ a = b.pilot \/ a = b.pilot + 1
      BY <2>2 DEF Along
    <3> HIDE DEF a
    <3> QED BY <3>1, <3>2, <3>3
  <2> QED BY <1>1, <2>1, <2>2
<1>4. IsPlace(c, deck.playing, deck.at_end, deck.block, a, deck.level, u)
  <2>1. IsPlace(c, deck.playing, deck.at_end, deck.block, a, deck.level,
                IF ~deck.playing THEN 0 ELSE IF at = "advance" THEN deck.pulse_start
                ELSE deck.pulse_start + deck.pulse)
    BY CursorIs
  <2> HIDE DEF c, a
  <2> QED BY <1>1, <2>1
<1>5. c.motor = deck.playing /\ c.block = deck.block /\ c.gone = a
  <2> HIDE DEF c, a, u, b
  <2> QED BY <1>4 DEF IsPlace
<1>6. IsPlace(cn, deck.playing, deck.at_end, k1, 0, FALSE, u1)
  <2> HIDE DEF c, a, u, u1
  <2> QED BY <1>4, NextPlace
<1>7. /\ deck'.playing = deck.playing /\ deck'.at_end = deck.at_end /\ deck'.block = k1 /\ deck'.phase = "idle"
      /\ deck'.level = FALSE /\ deck'.pulse_start = now /\ deck'.pulse = b.pause
  <2>1. deck' = [deck EXCEPT !.block = k1, !.phase = "idle", !.level = FALSE,
                             !.pulse_start = now, !.pulse = b.pause, !.block_start = now]
    BY <1>1 DEF FastLoad
  <2> HIDE DEF b, k1
  <2> QED BY <1>1, <2>1 DEF Decks
<1>8. Fits(deck', blocks') /\ Along(deck', blocks'[deck'.block]) = 0
  BY <1>7 DEF Fits, Along
<1>9. Place(deck, at = "advance")' = cn
  <2> HIDE DEF cn, k1, b
  <2>1. IsPlace(Place(deck, at = "advance")', deck'.playing, deck'.at_end, deck'.block,
                Along(deck', blocks'[deck'.block]), deck'.level, deck'.pulse_start + deck'.pulse)
    BY <1>1, <1>7, CursorIs
  <2>2. deck'.pulse_start + deck'.pulse = u1
    BY <1>7
  <2> HIDE DEF u1
  <2>3. IsPlace(Place(deck, at = "advance")', deck.playing, deck.at_end, k1, 0, FALSE, u1)
    BY <1>7, <1>8, <2>1, <2>2, Zenon
  <2> QED BY <1>6, <2>3, Zenon DEF IsPlace
<1>10. /\ List!Loaded /\ c.motor /\ List!Block.standard /\ c.gone <= List!Block.lead
       /\ List!Block.pause = b.pause
  <2>1. /\ Len(AsList) = Len(blocks) /\ AsList[deck.block].lead = Len(Leader(b))
        /\ AsList[deck.block].pause = b.pause /\ AsList[deck.block].standard = (b.standard /\ b.data # <<>>)
    BY <1>1, <1>2, AsListIs
  <2>2. AsList[deck.block].standard
    BY <1>1, <2>1
  <2> HIDE DEF b
  <2> QED BY <1>1, <1>2, <1>3, <1>5, <2>1, <2>2 DEF List!Loaded, List!Block
<1>11. List!Skip
  <2>1. Place(deck, at = "advance")' =
          [c EXCEPT !.block = @ + 1, !.gone = 0, !.level = FALSE, !.until = now + List!Block.pause]
    <3> HIDE DEF b
    <3> QED BY <1>9, <1>10, Zenon
  <2> HIDE DEF b
  <2> QED BY <1>1, <1>10, <2>1, NothingElse, Zenon DEF List!Skip
<1> QED BY <1>1, <1>8, <1>11 DEF List!Next

\* A checkpoint remembers the place.
LEMMA SaveStatePlays ==
  ASSUME PlayInv, SaveState
  PROVE  List!Next /\ PlayInv'
<1>1. at = "free" /\ at' = "free" /\ UNCHANGED <<blocks, deck, now>>
  BY DEF SaveState, Operation
<1>2. PICK kept \in SUBSET saved : saved' = kept \cup {[deck |-> deck, now |-> now]}
  BY DEF SaveState
<1>3. AsList' = AsList /\ Place(deck, at = "advance")' = Place(deck, at = "advance")
      /\ Place(deck, at = "advance") = On(deck, blocks, FALSE)
  BY <1>1, PlaceIs DEF AsList
<1>4. Kept(saved', blocks') = Kept(kept, blocks) \cup {[cursor |-> On(deck, blocks, FALSE), now |-> now]}
  <2> DEFINE r == [deck |-> deck, now |-> now]
             tape == blocks
             d == deck
             hc == now
             F(x) == [cursor |-> On(x.deck, tape, FALSE), now |-> x.now]
  <2>1. r.deck = d /\ r.now = hc
    OBVIOUS
  <2>2. saved' = kept \cup {r} /\ blocks' = tape
    BY <1>1, <1>2
  <2> HIDE DEF r, tape, d, hc
  <2>3. F(r) = [cursor |-> On(d, tape, FALSE), now |-> hc]
    BY <2>1
  <2> HIDE DEF F
  <2>4. {F(x) : x \in kept \cup {r}} = {F(x) : x \in kept} \cup {F(r)}
    OBVIOUS
  <2>5. Kept(saved', blocks') = Kept(kept, tape) \cup {[cursor |-> On(d, tape, FALSE), now |-> hc]}
    BY <2>2, <2>3, <2>4 DEF Kept, F
  <2> QED BY <2>5 DEF d, tape, hc
<1>5. Kept(kept, blocks) \subseteq Kept(saved, blocks)
  BY <1>2 DEF Kept
<1>6. List!Remember
  BY <1>1, <1>3, <1>4, <1>5, PlaceIs DEF List!Remember
<1>7. CursorInv'
  BY NextGood DEF PlayInv, Next
<1>8. \A s \in saved' : Fits(s.deck, blocks)
  BY <1>2 DEF PlayInv
<1>9. PlayInv'
  BY <1>1, <1>7, <1>8 DEF PlayInv
<1> QED BY <1>6, <1>9 DEF List!Next

\* And one is gone back to.
LEMMA RestoreStatePlays ==
  ASSUME PlayInv, RestoreState
  PROVE  List!Next /\ Fits(deck', blocks') /\ UNCHANGED <<blocks, saved>>
<1>1. at = "free" /\ at' = "free" /\ UNCHANGED <<blocks, saved>>
  BY DEF RestoreState, Operation
<1>2. PICK s \in saved : deck' = s.deck /\ now' = s.now
  BY DEF RestoreState
<1>3. Place(deck, at = "advance")' = On(s.deck, blocks, FALSE)
  BY <1>1, <1>2, PlaceIs
<1>4. [cursor |-> On(s.deck, blocks, FALSE), now |-> s.now] \in Kept(saved, blocks)
  BY <1>2 DEF Kept
<1>5. \E h \in Kept(saved, blocks) : Place(deck, at = "advance")' = h.cursor /\ now' = h.now
  BY <1>2, <1>3, <1>4
<1>6. List!GoBack
  BY <1>1, <1>5, PlaceIs, NothingElse DEF List!GoBack
<1>7. Fits(deck', blocks')
  BY <1>1, <1>2 DEF PlayInv
<1> QED BY <1>1, <1>6, <1>7 DEF List!Next

\* Every step of the deck is one of the list's, or none.
LEMMA NextPlays == PlayInv /\ [Next]_vars => PlayInv' /\ (List!Next \/ UNCHANGED List!vars)
<1> SUFFICES ASSUME PlayInv, [Next]_vars
             PROVE  PlayInv' /\ (List!Next \/ UNCHANGED List!vars)
  OBVIOUS
<1>1. CursorInv /\ CursorInv'
  BY NextGood DEF PlayInv
<1>2. ASSUME Fits(deck', blocks'), saved' \subseteq saved, blocks' = blocks PROVE PlayInv'
  BY <1>1, <1>2 DEF PlayInv
<1>3. ASSUME NEW tape \in Seq(Blocks), Load(tape)
      PROVE  PlayInv' /\ List!Next
  BY <1>1, <1>3, LoadPlays DEF PlayInv, List!Next
<1>4. CASE Insert
  <2>1. PICK image \in Images : Load(LeadOut(image))
    BY <1>4 DEF Insert
  <2>2. LeadOut(image) \in Seq(Blocks)
    BY LeadOutTape, TapeAssumption
  <2> QED BY <1>3, <2>1, <2>2
<1>5. CASE Eject
  <2>1. <<>> \in Seq(Blocks)
    OBVIOUS
  <2> QED BY <1>3, <1>5, <2>1 DEF Eject
<1>6. CASE Seek \/ Play \/ Stop \/ Reset
  BY <1>2, <1>6, TransportPlays
<1>7. CASE Tick \/ Pull
  <2>1. Fits(deck', blocks')
    BY <1>7, WaitingPlays DEF PlayInv
  <2> QED BY <1>2, <1>7, <2>1, WaitingPlays
<1>8. CASE Walk
  BY <1>2, <1>8, WalkPlays
<1>9. CASE FastLoad
  BY <1>2, <1>9, FastLoadPlays
<1>10. CASE SaveState
  BY <1>10, SaveStatePlays
<1>11. CASE RestoreState
  BY <1>2, <1>11, RestoreStatePlays
<1>12. CASE UNCHANGED vars
  <2>1. UNCHANGED <<blocks, deck, now, saved, at>>
    BY <1>12 DEF vars
  <2>2. PlayInv'
    BY <1>1, <2>1 DEF PlayInv
  <2>3. Place(deck, at = "advance")' = Place(deck, at = "advance")
    BY <2>1, PlaceIs
  <2> QED BY <2>1, <2>2, <2>3, NothingElse DEF List!vars
<1> QED BY <1>4, <1>5, <1>6, <1>7, <1>8, <1>9, <1>10, <1>11, <1>12 DEF Next

\* Whatever order blocks, bytes and bits are walked in, and however late and in
\* however many calls, the deck plays the pulses of its tape's list, each at
\* its own time: any tape's, for as long as it runs and whatever is done to it.
THEOREM DeckPlaysSignal == Spec => PlaysSignal
<1>1. Init => PlayInv /\ List!Init
  BY InitPlays
<1>2. PlayInv /\ [Next]_vars => PlayInv' /\ [List!Next]_List!vars
  BY NextPlays
<1> QED BY <1>1, <1>2, PTL DEF Spec, PlaysSignal, List!Spec

=============================================================================
