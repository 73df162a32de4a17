------------------------------- MODULE MCData -------------------------------
(* The parts of the machine that work on data alone, for TLC: what comes in *)
(* as a tape, a recording, a snapshot or a listing, and the CPU's           *)
(* arithmetic.  Each has its variables, "absent" while another part moves.  *)
EXTENDS Integers, Sequences, TLC

VARIABLES
  inserted, parse, image,                  \* TapeImages
  decode, out, heard,                      \* Recordings
  snapped, file, outcome, origin,          \* Snapshots
  debug_info, cached, built, time,         \* Symbols
  beeper, ay, hc, score, left,             \* Beeper
  alu                                      \* Alu

-----------------------------------------------------------------------------
(* Images: every kind of block, alone and within a loop, into a deck that  *)
(* has a tape, which a refused image must not touch.                       *)

OldTape ==
  [blocks |-> <<[data |-> "header", pulses |-> <<>>, pilot |-> 1, pause |-> 1, stop |-> FALSE, standard |-> TRUE]>>,
   description |-> "a", warnings |-> 1, name |-> "old",
   infos |-> <<[kind |-> "header", name |-> "name"]>>, total |-> 4, generation |-> 1]

Std(d, p) == [id |-> "standard", data |-> d, pause |-> p]
Tone(n) == [id |-> "tone", pulse |-> 2, count |-> n]
Rest(t) == [id |-> "pause", pause |-> t]
Loop(n) == [id |-> "loop", count |-> n]
Symbol(f, p) == [flags |-> f, pulses |-> p]
Alphabet == <<Symbol(0, <<1, 2>>), Symbol(1, <<1>>), Symbol(2, <<>>)>>

FlowBlocks == {Tone(1), Rest(0), Loop(0), Loop(2), Loop(3), [id |-> "loop_end"]}
TzxBlocks ==
  FlowBlocks
  \cup {[id |-> i] : i \in {"stop_48k", "level", "unsupported", "unknown", "truncated", "group", "jump", "message"}}
  \cup {Std("header", 2), Std("data", 0), Std("", 0), Tone(0), [id |-> "pulses", pulses |-> <<1, 2>>], Rest(2)}
  \cup {[id |-> "turbo", data |-> d, pause |-> 0, pilot |-> 1, rom_timings |-> TRUE, bits |-> b] :
          d \in {"data", ""}, b \in {8, 9}}
  \cup {[id |-> "pure_data", data |-> "data", pause |-> 0, bits |-> b] : b \in {0, 8}}
  \cup {[id |-> i, decodes |-> d, pulses |-> <<1>>, pause |-> 0] : i \in {"direct", "csw"}, d \in BOOLEAN}
  \cup {[id |-> "generalized", alphabet |-> Alphabet, pause |-> 0, symbols |-> s] :
          s \in {<<1, 2>>, <<2, 1, 2>>, <<3, 2, 2>>, <<4>>}}
  \cup {[id |-> "text", title |-> t] : t \in {"", "a"}} \cup {[id |-> "archive", title |-> "b"]}
TapBlocks == {"header", "data", "overrun", "cut_length", "zero_then_data"}

Inserting == INSTANCE TapeImages WITH
  tape <- inserted, Tzx <- TzxBlocks, Tap <- TapBlocks, Recorded <- {1, 2, 7}, Before <- {OldTape},
  MaxItems <- 3, Flow <- FlowBlocks, MaxFlow <- 5,
  MaxBlocks <- 5, MaxWarnings <- 2, MinPulses <- 2, TPerMs <- 2

-----------------------------------------------------------------------------
(* Recordings: every wave of six samples of four levels, hiss among them;   *)
(* every order of two chunks; runs, some empty or cut short.                *)

Chunk(t, c) == [tag |-> t, cut |-> c]
Chunks == {Chunk(t, FALSE) : t \in {"pcm", "strange", "data", "other"}} \cup {Chunk("data", TRUE), Chunk("pcm", TRUE)}
Good == <<Chunk("other", FALSE), Chunk("pcm", FALSE), Chunk("data", TRUE)>>
Waves == {<<Good, w>> : w \in [1..6 -> {-64, 0, 8, 64}]}
    \cup {<<<<a, b>>, w>> : a \in Chunks, b \in Chunks, w \in {<<>>, <<0, 64, 0, 64>>}}
RunLists == UNION {[1..n -> {-1, 0, 1, 3}] : n \in 0..5}
BitLists == UNION {[1..n -> BOOLEAN] : n \in 1..6}

Audio == INSTANCE Recordings WITH
  Wavs <- Waves, Runs <- RunLists, Bits <- BitLists,
  Floor <- 10, Look <- 3, TPerSec <- 7, Rate <- 2, TPerSample <- 3, MaxPulses <- 3

-----------------------------------------------------------------------------
(* Snapshots: every page of 0, 1 and the marker, which is also a length;    *)
(* every SP and PC at the edges of ROM and RAM.                             *)

Usual == [pc |-> <<1, 0>>, sp |-> 6, iff1 |-> TRUE, iff2 |-> TRUE, r |-> 2, border |-> 7]
Registers == [pc : {<<0, 1>>, <<6, 0>>}, sp : 0..17, iff1 : BOOLEAN, iff2 : BOOLEAN, r : 0..3, border : {0, 5}]
Having(r, ram) ==
  [pc |-> r.pc, sp |-> r.sp, iff1 |-> r.iff1, iff2 |-> r.iff2, r |-> r.r, border |-> r.border, ram |-> ram]
Markers == [i \in 1..8 |-> 6]
Mixed == [i \in 1..8 |-> IF i % 3 = 0 THEN 0 ELSE 6]
Spectrums == {Having(Usual, p \o Markers) : p \in [1..8 -> {0, 1, 6}]}
        \cup {Having(r, Mixed \o Markers) : r \in Registers}

Snaps == INSTANCE Snapshots WITH
  machine <- snapped, PageSize <- 8, RomSize <- 2, MARKER <- 6, LongRun <- 5, MaxRun <- 7,
  Machines <- Spectrums, NoFile <- [format |-> "none"]

-----------------------------------------------------------------------------
(* Listings: every order of up to three records, of files two of which      *)
(* share a base name, of two banks and names that share an address, a case, *)
(* a prefix or a parent; the pages are banks or not, and said to be before  *)
(* the records or after them.                                               *)

AtLine(f, l, a, p) == [type |-> "T", file |-> f, line |-> l, addr |-> a, page |-> p]
Named(n, a, p) == [type |-> "F", name |-> n, addr |-> a, page |-> p]
EightBanks == [type |-> "Z", eight_banks |-> TRUE]
Records == {AtLine("main", 1, 0, 5), AtLine("main", 2, 1, 5),
            AtLine("inc", 1, 4, 0), AtLine("inc", 2, 4, 1), AtLine("inc", 3, 3, 2), AtLine("lib/inc", 1, 2, 5),
            Named("start", 0, 5), Named("start.loop", 1, 5), Named("there", 4, 0), Named("Start", 4, 1),
            Named("rom", 3, 2), [type |-> "D", name |-> "size", addr |-> 1]}
Orders == UNION {{s \in [1..n -> Records] : \A i, j \in 1..n : s[i] = s[j] => i = j} : n \in 0..3}
ProgramListings == Orders \cup {<<EightBanks>> \o s : s \in Orders} \cup {Append(s, EightBanks) : s \in Orders}
RomListings == {<<AtLine("main", 1, 0, 5), Named("rom", 0, 5), Named("start", 2, 5)>>, <<Named("rom", 1, 5)>>}

Alphabetical == [n \in {"Start", "rom", "size", "start", "start.loop", "there"} |->
  CASE n = "Start" -> 1 [] n = "rom" -> 2 [] n = "size" -> 3 [] n = "start" -> 4 [] n = "start.loop" -> 5 [] n = "there" -> 6]
LowerCase == [n \in DOMAIN Alphabetical |-> IF n = "Start" THEN "start" ELSE n]
LocalsOf == [n \in DOMAIN Alphabetical |-> IF n = "start" THEN {"start.loop"} ELSE {}]
Beginning == ("" :> DOMAIN Alphabetical) @@ ("st" :> {"start", "Start", "start.loop"})
BaseName == ("main" :> "main") @@ ("inc" :> "inc") @@ ("lib/inc" :> "inc")

Names == INSTANCE Symbols WITH
  disk <- built, Listings <- ProgramListings, Roms <- RomListings,
  Rank <- Alphabetical, Folded <- LowerCase, Locals <- LocalsOf, Prefixed <- Beginning, Base <- BaseName,
  Entry <- "main", Addrs <- 6, Paged <- 4, MaxNudge <- 1, MaxOffset <- 2, MaxTime <- 3

-----------------------------------------------------------------------------
(* Sound: the beeper alone, and with an AY of two channels and a 3-bit       *)
(* register for noise, in each of the envelope's shapes.                     *)

NoShape == [continue |-> FALSE, attack |-> FALSE, alternate |-> FALSE, hold |-> FALSE]
EnvelopeShapes == [continue : BOOLEAN, attack : BOOLEAN, alternate : BOOLEAN, hold : BOOLEAN]
AyRegs(p, np, e, s) ==
  [period |-> <<p, 2>>, noise_period |-> np, tone_off |-> <<FALSE, TRUE>>, noise_off |-> <<TRUE, np = 0>>,
   volume |-> <<4, 2>>, env_period |-> e, shape |-> s]
Tune(regs, on, what, n) ==
  {[rate |-> 2, clock |-> 5, attached |-> on, regs |-> r, does |-> what, n |-> n] : r \in regs}
Tunes ==
  Tune({AyRegs(0, 0, 0, NoShape)}, FALSE, {"port", "ear", "publish", "rate", "restart"}, 3)
  \cup Tune({AyRegs(2, 1, 1, NoShape)}, TRUE, {"ay", "reset", "restart", "publish"}, 3)
  \cup Tune({AyRegs(p, np, e, s) : p \in {0, 3}, np \in {0, 1}, e \in {0, 2}, s \in EnvelopeShapes},
                 TRUE, {"ay", "publish"}, 2)
Poked == [volume |-> {<<3, 4>>}, tone_off |-> {<<TRUE, FALSE>>},
          shape |-> {[NoShape EXCEPT !.continue = TRUE, !.attack = TRUE]}]
Curve == [i \in 0..3 |-> i * i]

Music == INSTANCE Beeper WITH
  now <- hc, SPEAKER_LEVEL <- 4, MIC_LEVEL <- 1, EAR_LEVEL <- 2, VOLUME <- Curve, Top <- 3, StepHc <- 3,
  NoiseBits <- 3, NoiseTap <- 1, MaxPending <- 4, Beginnings <- Tunes, Pokes <- Poked,
  Rates <- {0, 3}, Clocks <- {5, 7}, Gaps <- {1, 4, 11}

-----------------------------------------------------------------------------
(* Arithmetic: bytes and words at the edges of their halves, signs and      *)
(* decimals, with the flags that come in.                                   *)

Holds(a, v, hl, de, f) == [a |-> a, v |-> v, hl |-> hl, de |-> de, f |-> f, q |-> TRUE]
AllFlags == {"S", "Z", "5", "H", "3", "P", "N", "C"}
EdgeBytes == {0, 1, 6, 9, 15, 16, 25, 69, 80, 85, 102, 127, 128, 144, 145, 153, 154, 160, 249, 255}
EdgeWords == {0, 1, 255, 256, 4095, 32767, 32768, 65535}
Beginnings ==
  [byte |-> {Holds(a, v, 0, 0, f) : a \in EdgeBytes, v \in EdgeBytes, f \in {{}, {"C"}, AllFlags}},
   turn |-> {Holds(a, v, 0, 0, f) : a \in {0, 18, 128, 165}, v \in {0, 1, 90, 129, 255}, f \in {{}, AllFlags}},
   word |-> {Holds(0, 0, hl, de, f) : hl \in EdgeWords, de \in EdgeWords, f \in {{}, AllFlags}},
   memory |-> {Holds(a, v, hl, de, f) : a \in {0, 8, 255}, v \in {0, 8, 127, 255}, hl \in {0, 65535},
                                        de \in {0, 1, 15, 8208, 255}, f \in {{}, AllFlags}}]

Arith == INSTANCE Alu WITH Starts <- Beginnings, MaxRotates <- 9

-----------------------------------------------------------------------------
imagesVars == <<inserted, parse, image>>
audioVars == <<decode, out, heard>>
snapsVars == <<snapped, file, outcome, origin>>
namesVars == <<debug_info, cached, built, time>>
beeperVars == <<beeper, ay, hc, score, left>>
dataVars == <<imagesVars, audioVars, snapsVars, namesVars, beeperVars, alu>>

DataInit(part) ==
  /\ IF part = "images" THEN Inserting!ImagesInit
     ELSE inserted = "absent" /\ parse = "absent" /\ image = "absent"
  /\ IF part = "recordings" THEN Audio!RecordingsInit
     ELSE decode = "absent" /\ out = "absent" /\ heard = "absent"
  /\ IF part = "snapshots" THEN Snaps!SnapshotsInit
     ELSE snapped = "absent" /\ file = "absent" /\ outcome = "absent" /\ origin = "absent"
  /\ IF part = "symbols" THEN Names!SymbolsInit
     ELSE debug_info = "absent" /\ cached = "absent" /\ built = "absent" /\ time = "absent"
  /\ IF part = "sound" THEN Music!BeeperInit
     ELSE beeper = "absent" /\ ay = "absent" /\ hc = "absent" /\ score = "absent" /\ left = "absent"
  /\ IF part = "alu" THEN Arith!AluInit ELSE alu = "absent"

DataNext(part) ==
  \/ part = "images" /\ Inserting!ImagesNext /\ UNCHANGED <<audioVars, snapsVars, namesVars, beeperVars, alu>>
  \/ part = "recordings" /\ Audio!RecordingsNext /\ UNCHANGED <<imagesVars, snapsVars, namesVars, beeperVars, alu>>
  \/ part = "snapshots" /\ Snaps!SnapshotsNext /\ UNCHANGED <<imagesVars, audioVars, namesVars, beeperVars, alu>>
  \/ part = "symbols" /\ Names!SymbolsNext /\ UNCHANGED <<imagesVars, audioVars, snapsVars, beeperVars, alu>>
  \/ part = "sound" /\ Music!BeeperNext /\ UNCHANGED <<imagesVars, audioVars, snapsVars, namesVars, alu>>
  \/ part = "alu" /\ Arith!AluNext /\ UNCHANGED <<imagesVars, audioVars, snapsVars, namesVars, beeperVars>>
=============================================================================
