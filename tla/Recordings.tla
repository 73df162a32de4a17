----------------------------- MODULE Recordings ------------------------------
(***************************************************************************)
(* Recorded sound as tape pulses (cpp-core/src/tape_audio.cpp): the chunks *)
(* of a .wav and the trigger that finds its edges, a .csw's runs, and the  *)
(* one-bit samples of a direct recording, a sample or a run a step.        *)
(*                                                                         *)
(* A sample's level is an integer; rails are rounded to 1, far below any    *)
(* level, where the code's are floats.                                     *)
(***************************************************************************)
EXTENDS Integers, Sequences, SequencesExt, FiniteSetsExt

CONSTANTS
  Wavs,       \* the chunks of a .wav and its samples' levels, as pairs of sequences
  Runs,       \* a .csw's runs, of so many samples each; -1 is one cut short
  Bits,       \* a direct recording's samples
  Floor,      \* NOISE_FLOOR
  Look,       \* the samples PEAK_DECAY_MS has
  TPerSec, Rate,    \* T_PER_SEC, and the sample rate
  TPerSample, \* of a direct recording
  MaxPulses   \* MAX_AUDIO_PULSES

VARIABLES
  decode,     \* which decoder is at work, how far it is, and what it keeps
  out,        \* the EdgeList
  heard       \* what was decoded, and where edges were found (history)

recordingsVars == <<decode, out, heard>>

NoEdges == [pulses |-> <<>>, dropped |-> 0]
NoDetector == [index |-> 0, last_edge |-> 0, started |-> FALSE, have_level |-> FALSE,
               level |-> FALSE, max |-> 0, min |-> 0]

RecordingsInit ==
  /\ out = NoEdges
  /\ \/ \E w \in Wavs :
          /\ decode = [at |-> "chunks", next |-> 1, have_fmt |-> "none", samples |-> "none"]
          /\ heard = [kind |-> "wav", chunks |-> w[1], input |-> w[2], sampled |-> FALSE, edges |-> <<>>]
     \/ \E r \in Runs :
          /\ decode = [at |-> "csw", next |-> 1, at_sample |-> 0, at_t |-> 0]
          /\ heard = [kind |-> "csw", input |-> r]
     \/ \E b \in Bits :
          /\ decode = [at |-> "direct", next |-> 1, level |-> b[1], run |-> 0]
          /\ heard = [kind |-> "direct", input |-> b]

Done(at) == [at |-> at]

\* append_pulse: never shorter than 1, and no more than MaxPulses.
AppendPulse(edges, t) ==
  IF Len(edges.pulses) >= MaxPulses THEN [edges EXCEPT !.dropped = @ + 1]
  ELSE [edges EXCEPT !.pulses = Append(@, IF t < 1 THEN 1 ELSE t)]
Accepting(edges) == Len(edges.pulses) < MaxPulses

tstate_at(sample) == (sample * TPerSec) \div Rate

-----------------------------------------------------------------------------
(* decode_wav: a walk over the chunks, the first cut one its last.         *)

\* A format is one of those understood, or "strange".
Chunk ==
  /\ decode.at = "chunks" /\ decode.next <= Len(heard.chunks)
  /\ LET c == heard.chunks[decode.next]
         stays == [decode EXCEPT !.next = IF c.cut THEN Len(heard.chunks) + 1 ELSE @ + 1]
     IN decode' =
          CASE c.tag = "data" /\ c.cut -> IF decode.have_fmt # "none" THEN [stays EXCEPT !.samples = "cut"] ELSE stays
            [] c.tag = "data" /\ ~c.cut -> [stays EXCEPT !.samples = "whole"]
            [] c.tag \in {"pcm", "strange"} /\ ~c.cut -> [stays EXCEPT !.have_fmt = c.tag]
            [] OTHER -> stays
  /\ UNCHANGED <<out, heard>>

\* What the chunks came to; and the rails opened at the range of the start.
EndOfChunks ==
  /\ decode.at = "chunks" /\ decode.next > Len(heard.chunks)
  /\ IF decode.have_fmt # "pcm" \/ decode.samples = "none" \/ heard.input = <<>>
     THEN decode' = Done("refused")
     ELSE LET first == {heard.input[i] : i \in {j \in DOMAIN heard.input : j <= Look}}
          IN decode' = [at |-> "wav", next |-> 1,
                        det |-> [NoDetector EXCEPT !.min = Min(first), !.max = Max(first)]]
  /\ heard' = [heard EXCEPT !.sampled = decode'.at = "wav"]
  /\ UNCHANGED out

\* Each rail falls back, by half here, to the middle; and gives way to a sample
\* past it.
Decayed(d) ==
  LET mid == (d.max + d.min) \div 2
  IN [d EXCEPT !.max = mid + (@ - mid) \div 2, !.min = mid - (mid - @) \div 2]
Opened(d, x) == [d EXCEPT !.max = IF x > @ THEN x ELSE @, !.min = IF x < @ THEN x ELSE @]

Centre(d) == (d.max + d.min) \div 2
Threshold(d) == Max({(d.max - d.min) \div 8, Floor})

\* push, of the next sample.  The first crossing tells the level, and the first
\* edge starts the clock.
Push ==
  /\ decode.at = "wav" /\ decode.next <= Len(heard.input)
  /\ LET x == heard.input[decode.next]
         d == Opened(Decayed(decode.det), x)
         above == x - Centre(d) > Threshold(d)
         below == x - Centre(d) < -Threshold(d)
         edge == d.have_level /\ IF d.level THEN below ELSE above
         settled == [d EXCEPT !.have_level = @ \/ above \/ below,
                              !.level = IF above THEN TRUE ELSE IF below THEN FALSE ELSE @,
                              !.started = @ \/ edge, !.index = @ + 1]
     IN /\ decode' = [decode EXCEPT !.next = @ + 1,
                        !.det = IF edge /\ (~d.started \/ Accepting(out))
                                THEN [settled EXCEPT !.last_edge = d.index] ELSE settled]
        /\ out' = IF edge /\ d.started
                  THEN AppendPulse(out, tstate_at(d.index) - tstate_at(d.last_edge)) ELSE out
        /\ heard' = IF edge THEN [heard EXCEPT !.edges = Append(@, d.index)] ELSE heard

Finish ==
  /\ decode.at = "wav" /\ decode.next > Len(heard.input)
  /\ decode' = Done(IF out.pulses = <<>> THEN "refused" ELSE "decoded")
  /\ UNCHANGED <<out, heard>>

-----------------------------------------------------------------------------
(* decode_csw_stream, and decode_direct_recording.                         *)

\* Every pulse ends where the samples so far do, whatever it is rounded to.
CswRun ==
  /\ decode.at = "csw" /\ decode.next <= Len(heard.input)
  /\ IF heard.input[decode.next] = -1
     THEN decode' = [decode EXCEPT !.next = Len(heard.input) + 1] /\ UNCHANGED out
     ELSE LET at == decode.at_sample + heard.input[decode.next]
              t == tstate_at(at)
          IN /\ out' = AppendPulse(out, t - decode.at_t)
             /\ decode' = IF Accepting(out)
                          THEN [decode EXCEPT !.next = @ + 1, !.at_sample = at, !.at_t = t]
                          ELSE [decode EXCEPT !.next = Len(heard.input) + 1]
  /\ UNCHANGED heard

EndOfRuns ==
  /\ decode.at = "csw" /\ decode.next > Len(heard.input)
  /\ decode' = Done(IF out.pulses = <<>> THEN "refused" ELSE "decoded")
  /\ UNCHANGED <<out, heard>>

\* A run of equal samples is a pulse, the first and the last included.
DirectSample ==
  /\ decode.at = "direct" /\ decode.next <= Len(heard.input)
  /\ IF heard.input[decode.next] = decode.level
     THEN decode' = [decode EXCEPT !.next = @ + 1, !.run = @ + 1] /\ UNCHANGED out
     ELSE /\ out' = AppendPulse(out, decode.run * TPerSample)
          /\ decode' = IF Accepting(out)
                       THEN [decode EXCEPT !.next = @ + 1, !.run = 1, !.level = ~@]
                       ELSE [decode EXCEPT !.next = Len(heard.input) + 1]
  /\ UNCHANGED heard

EndOfSamples ==
  /\ decode.at = "direct" /\ decode.next > Len(heard.input)
  /\ out' = IF decode.run > 0 THEN AppendPulse(out, decode.run * TPerSample) ELSE out
  /\ decode' = Done("decoded")
  /\ UNCHANGED heard

RecordingsNext ==
  \/ Chunk \/ EndOfChunks \/ Push \/ Finish
  \/ CswRun \/ EndOfRuns \/ DirectSample \/ EndOfSamples

RecordingsSpec == RecordingsInit /\ [][RecordingsNext]_recordingsVars

-----------------------------------------------------------------------------
(* Properties.                                                             *)

Sum(s) == FoldLeft(LAMBDA t, x : t + x, 0, s)
Upto(s, k) == Sum(SubSeq(s, 1, k))

\* The places a wave of two levels changes.
Changes(w) == SelectSeq([i \in 1..(Len(w) - 1) |-> i], LAMBDA i : w[i] # w[i + 1])
Square(w) == Cardinality({w[i] : i \in DOMAIN w}) = 2 /\ \E i, j \in DOMAIN w : w[i] - w[j] > 4 * Floor

\* Between two edges of a wave the signal goes from well above to well below,
\* or back, however its middle has moved: what stays under the floor is silence.
EdgesAreSwings ==
  \A k \in 1..(Len(heard.edges) - 1) :
    LET during == {heard.input[i + 1] : i \in heard.edges[k]..heard.edges[k + 1]}
    IN Max(during) - Min(during) >= 2 * Floor - 4

\* A clean wave's edges are all found, each where it is; but for the one that
\* tells the level, when what came before it was too long for the range to be
\* known by.
CleanEdgesFound ==
  decode.at \in {"decoded", "refused"} /\ heard.sampled /\ Square(heard.input) =>
    LET all == Changes(heard.input)
    IN heard.edges = IF all[1] < Look THEN all ELSE Tail(all)

\* The pulses of a recording keep its time, to a T-state however many there are:
\* each begins where the last one ended, a run of no samples counted as one
\* T-state and a list that is full told of.  A wave's are its clean edges and no
\* hiss; and one whose samples are cut off is heard as far as it goes.
RecordingKeepsTime ==
  LET p == out.pulses
      full == out.dropped > 0
  IN /\ full => Len(p) = MaxPulses
     /\ heard.kind = "csw" =>
          \A k \in DOMAIN p :
            Upto(p, k) - tstate_at(Upto(heard.input, k)) = Cardinality({i \in 1..k : heard.input[i] = 0})
     /\ heard.kind = "direct" =>
          /\ decode.at = "decoded" /\ ~full => Sum(p) = Len(heard.input) * TPerSample
          /\ decode.at = "decoded" =>
               \A i \in DOMAIN heard.input :
                 LET before == {k \in DOMAIN p : Upto(p, k) <= (i - 1) * TPerSample}
                 IN Cardinality(before) < Len(p) =>
                      heard.input[i] = (heard.input[1] = (Cardinality(before) % 2 = 0))
     /\ heard.kind = "wav" =>
          /\ EdgesAreSwings /\ CleanEdgesFound
          /\ heard.edges # <<>> =>
               /\ Len(heard.edges) = 1 + Len(p) + out.dropped
               /\ \A k \in DOMAIN p : Upto(p, k) = tstate_at(heard.edges[k + 1]) - tstate_at(heard.edges[1])
          /\ decode.at = "refused" /\ ~heard.sampled /\ heard.input # <<>> =>
               ~\E i \in DOMAIN heard.chunks : \E j \in (i + 1)..Len(heard.chunks) :
                  /\ heard.chunks[i].tag = "pcm" /\ heard.chunks[j].tag = "data"
                  /\ \A k \in DOMAIN heard.chunks :
                       heard.chunks[k].tag # "strange" /\ (k < j => ~heard.chunks[k].cut)
=============================================================================
