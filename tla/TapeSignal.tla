----------------------------- MODULE TapeSignal ------------------------------
(***************************************************************************)
(* What the deck promises (tape.h): a tape is a list of pulses, one after  *)
(* another, and playing it is moving along that list at the pace of the    *)
(* clock, whoever looks and however seldom.  This is the expanded list the *)
(* deck does without.                                                      *)
(***************************************************************************)
EXTENDS Naturals, Sequences

VARIABLES
  tape,     \* each block: [signal, lead, stop, pause, standard]
  cursor,   \* [motor, ended, block, gone, level, until]
  now,
  history   \* [cursor, now] that may be gone back to

vars == <<tape, cursor, now, history>>

\* At the start of a block, with the motor off.
At(block, blocks) ==
  [motor |-> FALSE, ended |-> blocks # <<>> /\ block > Len(blocks),
   block |-> block, gone |-> 0, level |-> FALSE, until |-> 0]

Init == tape = <<>> /\ cursor = At(1, <<>>) /\ now = 0 /\ history = {}

Block == tape[cursor.block]
Loaded == cursor.block <= Len(tape)

Load == cursor' = At(1, tape') /\ history' = {} /\ UNCHANGED now

Seek ==
  /\ \E block \in 1..(Len(tape) + 1) : cursor' = At(block, tape)
  /\ UNCHANGED <<tape, now, history>>

Play ==
  /\ Loaded
  /\ cursor' = [cursor EXCEPT !.motor = TRUE, !.ended = FALSE, !.level = TRUE, !.until = now]
  /\ UNCHANGED <<tape, now, history>>

\* A tape that does not move has no pulse in flight.
Halted(c) == [c EXCEPT !.motor = FALSE, !.until = 0]

Stop == cursor' = Halted(cursor) /\ UNCHANGED <<tape, now, history>>

Reset == now' = 0 /\ cursor' = Halted(cursor) /\ history' = {} /\ UNCHANGED tape

Tick == now' = now + 1 /\ UNCHANGED <<tape, cursor, history>>

Due == cursor.motor /\ now >= cursor.until

\* The next pulse begins when the one before it was due to end.
NextPulse ==
  /\ Due /\ Loaded
  /\ cursor.gone < Len(Block.signal)
  /\ LET pulse == Block.signal[cursor.gone + 1]
     IN cursor' = [cursor EXCEPT !.gone = @ + 1, !.until = @ + pulse.length,
                                 !.level = IF pulse.edge THEN ~@ ELSE FALSE]
  /\ UNCHANGED <<tape, now, history>>

\* After a block's last pulse comes the next block, unless it stops the tape.
NextBlock ==
  /\ Due /\ Loaded
  /\ cursor.gone = Len(Block.signal)
  /\ LET next == [cursor EXCEPT !.block = @ + 1, !.gone = 0]
     IN cursor' = IF Block.stop
                  THEN [Halted(next) EXCEPT !.ended = next.block > Len(tape)]
                  ELSE next
  /\ UNCHANGED <<tape, now, history>>

RunOut ==
  /\ Due /\ ~Loaded
  /\ cursor' = [Halted(cursor) EXCEPT !.ended = TRUE]
  /\ UNCHANGED <<tape, now, history>>

\* A loader that takes a whole block at once: only before any of its data has
\* been heard, and the block's pause still has to pass.
Skip ==
  /\ cursor.motor /\ Loaded
  /\ Block.standard /\ cursor.gone <= Block.lead
  /\ cursor' = [cursor EXCEPT !.block = @ + 1, !.gone = 0, !.level = FALSE,
                              !.until = now + Block.pause]
  /\ UNCHANGED <<tape, now, history>>

Remember ==
  /\ \E kept \in SUBSET history : history' = kept \cup {[cursor |-> cursor, now |-> now]}
  /\ UNCHANGED <<tape, cursor, now>>

GoBack ==
  /\ \E h \in history : cursor' = h.cursor /\ now' = h.now
  /\ UNCHANGED <<tape, history>>

Next ==
  \/ Load \/ Seek \/ Play \/ Stop \/ Reset \/ Tick
  \/ NextPulse \/ NextBlock \/ RunOut
  \/ Skip
  \/ Remember \/ GoBack

Spec == Init /\ [][Next]_vars
=============================================================================
