----------------------------- MODULE TapeImages ------------------------------
(***************************************************************************)
(* Inserting a tape (cpp-core/src/tape.cpp): what parse_tzx, parse_tap and *)
(* parse_audio make of an image, one block or one recorded pulse a step,   *)
(* and what insert does with it.                                           *)
(*                                                                         *)
(* The image is read as it goes, so any of Tzx, Tap or Recorded may come   *)
(* next; what has been read is kept, for the properties.  A .tzx block is  *)
(* its id and the fields that decide anything; "truncated" is any block    *)
(* the file ends within.                                                   *)
(***************************************************************************)
EXTENDS Naturals, Sequences, SequencesExt

CONSTANTS
  Tzx,          \* the blocks a .tzx has, as records by id
  Tap,          \* the blocks a .tap has
  Recorded,     \* the pulses a recording has, in T-states
  Before,       \* the tapes that may be in the deck already
  MaxItems,     \* bound: blocks in a .tzx ...
  Flow,         \* ... which has others than these,
  MaxFlow,      \* and blocks or pulses in any other image
  MaxBlocks,    \* MAX_BLOCKS
  MaxWarnings,  \* MAX_WARNINGS
  MinPulses,    \* MIN_AUDIO_BLOCK_PULSES
  TPerMs        \* T_PER_MS; a silence that splits is SplitMs of them
SplitMs == 3

VARIABLES
  tape,     \* blocks_, description_, warnings_, name_, infos_, total_hc_, generation_
  parse,    \* which parser is at work, its locals, and what insert swapped out
  image     \* what was read, and the deck before it (history)

imagesVars == <<tape, parse, image>>

Plain == [data |-> "", pulses |-> <<>>, pilot |-> 0, pause |-> 0, stop |-> FALSE, standard |-> FALSE]
Empty == [blocks |-> <<>>, description |-> "", warnings |-> 0, name |-> "", infos |-> <<>>,
          total |-> 0, generation |-> 0]

Resting == [at |-> "out", first |-> 1, count |-> 0, open |-> Plain, kept |-> Empty]

ImagesInit ==
  /\ tape \in Before
  /\ parse = Resting
  /\ image = [read |-> <<>>, before |-> tape, format |-> ""]

-----------------------------------------------------------------------------
(* insert: parsed into the deck itself, with what was there put by.        *)

Insert(format) ==
  /\ parse.at = "out" /\ image.format = ""
  /\ parse' = [Resting EXCEPT !.at = format, !.kept = tape]
  /\ tape' = [tape EXCEPT !.blocks = <<>>, !.description = "", !.warnings = 0]
  /\ image' = [read |-> <<>>, before |-> tape, format |-> format]

\* A block or pulse of the image, and the parser that meets it.
Reads(format, x) ==
  /\ parse.at = format
  /\ image' = [image EXCEPT !.read = Append(@, x)]
  /\ Len(image.read) < (IF format = "tzx" /\ \E i \in DOMAIN image'.read : image'.read[i] \notin Flow
                        THEN MaxItems ELSE MaxFlow)

Push(b) == tape' = [tape EXCEPT !.blocks = Append(@, b)] /\ UNCHANGED parse
Warned(d) == [d EXCEPT !.warnings = IF @ < MaxWarnings THEN @ + 1 ELSE @]
Warn == tape' = Warned(tape) /\ UNCHANGED parse
Skip == UNCHANGED <<tape, parse>>

\* An error: what insert put by comes back.
Refuse ==
  /\ tape' = [tape EXCEPT !.blocks = parse.kept.blocks,
                 !.description = parse.kept.description, !.warnings = parse.kept.warnings]
  /\ parse' = [Resting EXCEPT !.at = "refused"]

HasSignal(b) == b.pulses # <<>> \/ b.pilot > 0 \/ b.data # ""

LeadOut(blocks) ==
  [k \in DOMAIN blocks |->
     IF blocks[k].pause = 0 /\ HasSignal(blocks[k]) /\ (k = Len(blocks) \/ blocks[k + 1].stop)
     THEN [blocks[k] EXCEPT !.pause = 1] ELSE blocks[k]]

\* block_duration_hc: a leader and data count as one T-state each, which is all
\* that a sum of them can be seen to get wrong.
Sum(s) == FoldLeft(LAMBDA t, x : t + x, 0, s)
Duration(b) == Sum(b.pulses) + b.pilot + (IF b.data = "" THEN 0 ELSE 1) + b.pause * TPerMs

\* describe_blocks: a header names the data that comes after it.
Described(blocks) ==
  FoldLeft(LAMBDA d, b :
      CASE b.data = "header" -> [pending |-> "name", infos |-> Append(d.infos, [kind |-> "header", name |-> "name"])]
        [] b.data = "data"   -> [pending |-> "", infos |-> Append(d.infos, [kind |-> "data", name |-> d.pending])]
        [] OTHER -> [d EXCEPT !.infos = Append(@, [name |-> "", kind |->
             IF b.pulses # <<>> THEN "pulses" ELSE IF b.stop THEN "stop" ELSE "pause"])],
    [pending |-> "", infos |-> <<>>], blocks).infos

\* The parser is through: refuse a tape with nothing on it, or take it.
Finish(d) ==
  IF d.blocks = <<>> THEN Refuse
  ELSE LET blocks == LeadOut(d.blocks) IN
       /\ tape' = [d EXCEPT !.blocks = blocks, !.name = "new", !.generation = @ + 1,
                      !.infos = Described(blocks),
                      !.total = Sum([k \in DOMAIN blocks |-> Duration(blocks[k])])]
       /\ parse' = [Resting EXCEPT !.at = "taken"]

Eject ==
  /\ parse.at \in {"taken", "refused"}
  /\ tape' = [Empty EXCEPT !.generation = tape.generation + 1]
  /\ parse' = [Resting EXCEPT !.at = "ejected"]
  /\ UNCHANGED image

-----------------------------------------------------------------------------
(* parse_tzx, block by block.                                              *)

Standard(x) ==
  /\ x.id = "standard"
  /\ IF x.data = "" THEN Refuse
     ELSE Push([Plain EXCEPT !.data = x.data, !.pause = x.pause, !.pilot = 1, !.standard = TRUE])

TurboSpeed(x) ==
  /\ x.id = "turbo"
  /\ IF x.bits \notin 1..8 THEN Refuse
     ELSE Push([Plain EXCEPT !.data = x.data, !.pause = x.pause, !.pilot = x.pilot,
                             !.standard = x.rom_timings /\ x.bits = 8])

PureTone(x) ==
  /\ x.id = "tone"
  /\ Push([Plain EXCEPT !.pulses = [i \in 1..x.count |-> x.pulse]])

PulseSequence(x) ==
  /\ x.id = "pulses"
  /\ Push([Plain EXCEPT !.pulses = x.pulses])

PureData(x) ==
  /\ x.id = "pure_data"
  /\ IF x.bits \notin 1..8 THEN Refuse
     ELSE Push([Plain EXCEPT !.data = x.data, !.pause = x.pause])

Pause(x) ==
  /\ x.id = "pause"
  /\ Push([Plain EXCEPT !.pause = x.pause, !.stop = x.pause = 0])

\* Whatever the machine is.
StopIf48K(x) == x.id = "stop_48k" /\ Push([Plain EXCEPT !.stop = TRUE])

SignalLevel(x) == x.id = "level" /\ Warn

DirectRecording(x) ==
  /\ x.id = "direct"
  /\ IF ~x.decodes THEN Refuse ELSE Push([Plain EXCEPT !.pulses = x.pulses, !.pause = x.pause])

CswRecording(x) ==
  /\ x.id = "csw"
  /\ IF ~x.decodes THEN Refuse ELSE Push([Plain EXCEPT !.pulses = x.pulses, !.pause = x.pause])

\* play, of a generalized block's symbol: its pulses, the first of which may go
\* on from the pulse before it.
Played(pulses, symbol) ==
  IF symbol.flags = 1 /\ pulses # <<>> /\ symbol.pulses # <<>>
  THEN Front(pulses) \o <<Last(pulses) + Head(symbol.pulses)>> \o Tail(symbol.pulses)
  ELSE pulses \o symbol.pulses

GeneralizedData(x) ==
  /\ x.id = "generalized"
  /\ IF \E i \in DOMAIN x.symbols : x.symbols[i] \notin DOMAIN x.alphabet THEN Refuse
     ELSE LET sent == [i \in DOMAIN x.symbols |-> x.alphabet[x.symbols[i]]]
              block == [Plain EXCEPT !.pulses = FoldLeft(Played, <<>>, sent), !.pause = x.pause]
              after == [tape EXCEPT !.blocks = Append(@, block)]
          IN /\ tape' = IF \E i \in DOMAIN sent : sent[i].flags >= 2 /\ sent[i].pulses # <<>>
                         THEN Warned(after) ELSE after
             /\ UNCHANGED parse

\* 0x16, 0x17 and whatever else the file may hold; one it ends within.
Unsupported(x) == x.id \in {"unsupported", "unknown", "truncated"} /\ Refuse

Group(x) == x.id \in {"group", "group_end"} /\ Skip

\* A loop is repeated when its end is met; one within another is not begun.
LoopStart(x) ==
  /\ x.id = "loop"
  /\ IF parse.count # 0 THEN Warn
     ELSE /\ parse' = [parse EXCEPT !.first = Len(tape.blocks) + 1,
                                    !.count = IF x.count > 0 THEN x.count ELSE 1]
          /\ UNCHANGED tape

Repeated(body, n) == FoldLeft(LAMBDA s, i : s \o body, <<>>, [i \in 1..n |-> i])

LoopEndOnceMore(x) ==
  /\ x.id = "loop_end"
  /\ LET body == SubSeq(tape.blocks, parse.first, Len(tape.blocks))
     IN IF parse.count = 0 THEN Warn
        ELSE IF body # <<>> /\ parse.count > 1 /\ Len(body) * parse.count > MaxBlocks THEN Refuse
        ELSE /\ tape' = [tape EXCEPT !.blocks = @ \o Repeated(body, parse.count)]
             /\ parse' = [parse EXCEPT !.count = 0]

LoopEnd(x) ==
  /\ x.id = "loop_end"
  /\ LET body == SubSeq(tape.blocks, parse.first, Len(tape.blocks))
     IN IF parse.count = 0 THEN Warn
        ELSE IF body # <<>> /\ parse.count > 1 /\ Len(body) * parse.count > MaxBlocks THEN Refuse
        ELSE /\ tape' = [tape EXCEPT !.blocks = @ \o Repeated(body, parse.count - 1)]
             /\ parse' = [parse EXCEPT !.count = 0]

\* Jump, call sequence, select: skipped, and said so.
FlowControl(x) == x.id \in {"jump", "call", "select"} /\ Warn

\* The first text, or the first title in an archive block, describes the tape.
Describes(x) ==
  /\ x.id \in {"text", "archive"}
  /\ tape' = [tape EXCEPT !.description = IF @ = "" THEN x.title ELSE @]
  /\ UNCHANGED parse

Information(x) == x.id \in {"message", "hardware", "custom", "glue"} /\ Skip

\* The end of the image, or zeros up to it.
EndTzx ==
  /\ parse.at = "tzx"
  /\ Finish(IF parse.count # 0 THEN Warned(tape) ELSE tape)
  /\ UNCHANGED image

TzxBlock(x) ==
  /\ Reads("tzx", x)
  /\ \/ Standard(x) \/ TurboSpeed(x) \/ PureTone(x) \/ PulseSequence(x) \/ PureData(x)
     \/ Pause(x) \/ StopIf48K(x) \/ SignalLevel(x)
     \/ DirectRecording(x) \/ CswRecording(x) \/ GeneralizedData(x)
     \/ Unsupported(x) \/ Group(x) \/ LoopStart(x) \/ LoopEnd(x) \/ FlowControl(x)
     \/ Describes(x) \/ Information(x)

-----------------------------------------------------------------------------
(* parse_tap and parse_audio.                                              *)

TapBlock(x) ==
  /\ Reads("tap", x)
  /\ CASE x = "cut_length" -> Refuse
       [] x = "zero_then_data" -> Refuse
       [] x = "overrun" -> IF tape.blocks # <<>> THEN Finish(Warned(tape)) ELSE Refuse
       [] OTHER -> Push([Plain EXCEPT !.data = x, !.pilot = 1, !.standard = TRUE])

EndTap ==
  /\ parse.at = "tap"
  /\ Finish(tape)
  /\ UNCHANGED image

\* A silence after enough signal is the end of a block, and its pause.
Pulse(p) ==
  /\ Reads("audio", p)
  /\ IF p >= SplitMs * TPerMs /\ Len(parse.open.pulses) >= MinPulses
     THEN /\ tape' = [tape EXCEPT !.blocks = Append(@, [parse.open EXCEPT !.pause = p \div TPerMs])]
          /\ parse' = [parse EXCEPT !.open = Plain]
     ELSE /\ parse' = [parse EXCEPT !.open.pulses = Append(@, p)]
          /\ UNCHANGED tape

\* A recording that does not decode, or one that has no signal.
NoRecording ==
  /\ parse.at = "audio" /\ image.read = <<>>
  /\ Refuse
  /\ UNCHANGED image

EndAudio ==
  /\ parse.at = "audio"
  /\ Finish(IF parse.open.pulses # <<>> THEN [tape EXCEPT !.blocks = Append(@, parse.open)] ELSE tape)
  /\ UNCHANGED image

ImagesNext ==
  \/ \E format \in {"tzx", "tap", "audio"} : Insert(format)
  \/ \E x \in Tzx : TzxBlock(x)
  \/ \E x \in Tap : TapBlock(x)
  \/ \E p \in Recorded : Pulse(p)
  \/ EndTzx \/ EndTap \/ EndAudio \/ NoRecording
  \/ Eject

ImagesSpec == ImagesInit /\ [][ImagesNext]_imagesVars

-----------------------------------------------------------------------------
(* What a tape should be.                                                  *)

\* A .tzx as a player would play it that goes back at the end of a loop: the
\* markers move the place, and the blocks come in the order the place meets
\* them.  back is where the loop began, 0 outside one, and left the rounds still
\* to come.
BlockIds == {"standard", "turbo", "tone", "pulses", "pure_data", "pause", "stop_48k",
             "direct", "csw", "generalized"}

PlayedFrom(file, place, back, left) ==
  LET f[p \in 0..(Len(file) + 1), b \in 0..Len(file), n \in 0..3] ==
        IF p > Len(file) THEN <<>>
        ELSE CASE file[p].id = "loop" /\ b = 0 -> f[p + 1, p, IF file[p].count > 0 THEN file[p].count - 1 ELSE 0]
               [] file[p].id = "loop_end" /\ b # 0 /\ n > 0 -> f[b + 1, b, n - 1]
               [] file[p].id = "loop_end" /\ (b = 0 \/ n = 0) -> f[p + 1, 0, 0]
               [] file[p].id \in BlockIds -> <<p>> \o f[p + 1, b, n]
               [] OTHER -> f[p + 1, b, n]
  IN f[place, back, left]

\* When each edge of a generalized block comes, by its symbols: at the start of
\* each, unless it says it goes on from the one before, and at the end of every
\* pulse within.
EdgesOf(symbols) ==
  LET from(i) == Sum([k \in 1..(i - 1) |-> Sum(symbols[k].pulses)])
      goes_on(i) == symbols[i].flags = 1 /\ \E k \in 1..(i - 1) : symbols[k].pulses # <<>>
  IN UNION {{from(i) + Sum(SubSeq(symbols[i].pulses, 1, j)) :
               j \in (IF goes_on(i) THEN 1 ELSE 0)..(Len(symbols[i].pulses) - 1)} : i \in DOMAIN symbols}

EdgesIn(pulses) == {Sum(SubSeq(pulses, 1, j)) : j \in 0..(Len(pulses) - 1)}

PauseOf(x) == IF "pause" \in DOMAIN x THEN x.pause ELSE 0

\* Does a block of the deck come from that block of the image?
Made(b, x) ==
  /\ b.pause = PauseOf(x) \/ (b.pause = 1 /\ PauseOf(x) = 0)
  /\ b.data = (IF "data" \in DOMAIN x THEN x.data ELSE "")
  /\ b.stop = (x.id = "stop_48k" \/ (x.id = "pause" /\ x.pause = 0))
  /\ x.id = "generalized" =>
       EdgesIn(b.pulses) = EdgesOf([i \in DOMAIN x.symbols |-> x.alphabet[x.symbols[i]]])

\* A recording, with the pauses of its blocks put back where they were.
Whole(blocks) ==
  FoldLeft(LAMBDA s, b : s \o b.pulses \o (IF b.pause = 0 THEN <<>> ELSE <<b.pause * TPerMs>>), <<>>, blocks)

\* An image that is taken is the tape it describes: the blocks of a .tzx in the
\* order a player of its loops would meet them, every pulse of a recording and
\* the time it lasts but for the end of a millisecond a silence, every whole
\* block of a .tap; the last edge of a block is always ended, and the data after
\* a header has its name.  One that is refused has changed nothing.
ImageIsTape ==
  /\ parse.at = "refused" => tape = image.before
  /\ parse.at = "taken" =>
       LET blocks == tape.blocks
           read == image.read
       IN /\ tape.generation # image.before.generation
          /\ image.format = "tzx" =>
               LET order == PlayedFrom(read, 1, 0, 0)
               IN /\ Len(blocks) = Len(order)
                  /\ \A k \in DOMAIN blocks : Made(blocks[k], read[order[k]])
                  /\ \A i \in DOMAIN read : read[i].id \notin {"unsupported", "unknown", "truncated"}
          /\ image.format = "tap" =>
               [k \in DOMAIN blocks |-> blocks[k].data]
                 = SelectSeq(read, LAMBDA x : x \in {"header", "data"})
          /\ image.format = "audio" =>
               LET whole == Whole(blocks)
                   n == Len(read)
               IN /\ Len(whole) \in {n, n + 1}
                  /\ \A i \in 1..n : read[i] - whole[i] \in 0..(TPerMs - 1)
          /\ \A k \in DOMAIN blocks :
               HasSignal(blocks[k]) /\ (k = Len(blocks) \/ blocks[k + 1].stop) => blocks[k].pause > 0
          /\ \A k \in DOMAIN blocks : tape.infos[k].kind = "data" =>
               (tape.infos[k].name # "") =
                 (\E h \in 1..(k - 1) : /\ tape.infos[h].kind = "header"
                                        /\ \A m \in (h + 1)..(k - 1) : tape.infos[m].kind # "data")

=============================================================================
