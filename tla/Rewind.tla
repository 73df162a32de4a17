------------------------------- MODULE Rewind -------------------------------
(***************************************************************************)
(* The history behind stepping backwards (cpp-core/src/rewind.cpp).        *)
(*                                                                         *)
(* The machine is deterministic, so it is modelled by what has been done   *)
(* to it: its half-clock, and the sequence of instructions stepped ("i"),  *)
(* half-clocks clocked raw ("c") and inputs applied since power-on.  Two   *)
(* machines are in the same state iff the same things were done to them in *)
(* the same order.  A raw clock is told from a step of the same length     *)
(* because only a step tracks the call stack and springs the tape trap.    *)
(* What was done before the history began is the same for all and left out.*)
(*                                                                         *)
(* head_hc_ and cursor_ are read only in the past, and set on entering it; *)
(* the model holds them at 0 while live.                                   *)
(*                                                                         *)
(* Where an instruction or a frame begins is fixed by its length, and the  *)
(* bytes a checkpoint takes are counted as one each.                       *)
(***************************************************************************)
EXTENDS Naturals, Sequences, FiniteSets

CONSTANTS
  Inputs,           \* what an input from outside can be
  RawSpans,         \* lengths step_tstates clocks raw, in half-clocks
  InstrHc,          \* half-clocks in an instruction
  FrameHc,          \* half-clocks in a video frame
  CheckpointFrames, \* settings_.checkpoint_frames
  Window,           \* settings_.max_seconds, in half-clocks
  MaxBytes,         \* settings_.max_bytes, in checkpoints
  MaxHc,            \* bound: how far the machine runs
  MaxInputs         \* bound: inputs in one timeline

ASSUME RewindAssumption ==
  /\ RawSpans \subseteq Nat \ {0}
  /\ {InstrHc, FrameHc, CheckpointFrames, MaxBytes} \subseteq Nat \ {0}
  /\ {Window, MaxHc, MaxInputs} \subseteq Nat
  /\ Inputs \cap {"i", "c", "raw"} = {}

VARIABLES
  machine,     \* [from, hc, did]: global_hc() at start() and now, and what was done
  checkpoints, \* checkpoints_: [hc, log_index, state]
  log,         \* log_: [hc, input, clocks], input "raw" for a span of clocks
  log_base,    \* log_base_
  last_frame,  \* last_frame_
  live,        \* live_
  head_hc,     \* head_hc_
  cursor,      \* cursor_
  timeline,    \* the machine as it was at the head, when the past was entered
  midspan      \* the machine has gone on from inside a raw span

vars == <<machine, checkpoints, log, log_base, last_frame, live, head_hc, cursor, timeline, midspan>>

-----------------------------------------------------------------------------
(* The machine.                                                            *)

Fresh(hc) == [from |-> hc, hc |-> hc, did |-> <<>>]

Frame(m) == m.hc \div FrameHc
AtBoundary(hc) == hc % InstrHc = 0

\* step_instruction: clocks until the next instruction boundary.
StepInstruction(m) ==
  [m EXCEPT !.hc = InstrHc * (@ \div InstrHc) + InstrHc, !.did = Append(@, "i")]

Clock(m, n) == [m EXCEPT !.hc = @ + n, !.did = @ \o [k \in 1..n |-> "c"]]

Apply(m, input) == [m EXCEPT !.did = Append(@, input)]

-----------------------------------------------------------------------------
(* Recording.                                                              *)

LogEnd == log_base + Len(log)

Checkpoint(m, index) == [hc |-> m.hc, log_index |-> index, state |-> m]

\* trim drops the oldest checkpoints while the one after still reaches back
\* over the window, or while there are too many; and then the inputs that no
\* checkpoint needs any more.
Droppable(cps, now, k) ==
  \A j \in 1..k : now - cps[j + 1].hc >= Window \/ Len(cps) - (j - 1) > MaxBytes

Largest(S) == CHOOSE k \in S : \A j \in S : j <= k

DroppedBy(cps, now) == Largest({k \in 0..(Len(cps) - 1) : Droppable(cps, now, k)})

Trim(cps, lg, now) ==
  LET drop == DroppedBy(cps, now)
      needed == cps[drop + 1].log_index
  IN /\ checkpoints' = SubSeq(cps, drop + 1, Len(cps))
     /\ log_base' = Largest({log_base, needed})
     /\ log' = SubSeq(lg, log_base' - log_base + 1, Len(lg))

\* on_instruction while live: the machine has moved on to m, and the history
\* so far is cps and lg, seen frame the last one looked at.  A checkpoint
\* frame takes a checkpoint, whose log_index is the log's end.
OnLiveInstruction(m, cps, lg, seen) ==
  /\ last_frame' = Frame(m)
  /\ IF Frame(m) # seen /\ Frame(m) % CheckpointFrames = 0
     THEN Trim(Append(cps, Checkpoint(m, log_base + Len(lg))), lg, m.hc)
     ELSE checkpoints' = cps /\ log' = lg /\ log_base' = log_base

-----------------------------------------------------------------------------
(* Replay.  s is a machine on its way and the log's cursor, b the log by   *)
(* absolute index (log_at).                                                *)

Book == [i \in log_base..(LogEnd - 1) |-> log[i - log_base + 1]]

Due(b, s) == s.cursor \in DOMAIN b /\ b[s.cursor].hc <= s.m.hc

\* In a raw span, with clocks of it left to run.
SpanEnd(input) == input.hc + input.clocks
InSpan(b, s) ==
  Due(b, s) /\ b[s.cursor].input = "raw" /\ s.m.hc < SpanEnd(b[s.cursor])

\* apply_due has nothing left to apply here or leave behind.
Settled(b, s) == Due(b, s) => InSpan(b, s)

\* A clock of a raw span, which is left behind at its end.
Clocked(b, s) ==
  LET m == Clock(s.m, 1)
  IN [m |-> m, cursor |-> IF m.hc >= SpanEnd(b[s.cursor]) THEN s.cursor + 1 ELSE s.cursor]

\* What is due applied, or a span that is over left behind.
Applied(b, s) ==
  [m |-> IF b[s.cursor].input = "raw" THEN s.m ELSE Apply(s.m, b[s.cursor].input),
   cursor |-> s.cursor + 1]

Stepped(s) == [m |-> StepInstruction(s.m), cursor |-> s.cursor]

\* One turn of the loops of replay and apply_due.
Turn(b, s) ==
  CASE InSpan(b, s) -> Clocked(b, s)
    [] Due(b, s) /\ ~InSpan(b, s) -> Applied(b, s)
    [] OTHER -> Stepped(s)

\* Turns enough: each takes a half-clock or something of the log.
HeadHc == IF live THEN machine.hc ELSE head_hc
Turns == LogEnd + HeadHc + InstrHc

\* The boundaries noted: before each instruction, and inside raw spans.
Begins(b, s) == ~Due(b, s) \/ (InSpan(b, s) /\ AtBoundary(s.m.hc))
Note(b, s) == IF Begins(b, s) THEN {s.m.hc} ELSE {}

\* replay, turn for turn, until the target is reached and what is due there
\* has been applied: a raw span is clocked no further.
Stopped(b, s, target) == s.m.hc >= target /\ Settled(b, s)

Run(b, s, target) ==
  LET run[n \in 0..Turns] ==
        IF n = 0 THEN [at |-> s, noted |-> {}]
        ELSE LET last == run[n - 1]
             IN IF Stopped(b, last.at, target) THEN last
                ELSE [at |-> Turn(b, last.at), noted |-> last.noted \cup Note(b, last.at)]
  IN run[Turns]

\* catch_up: until nothing is due, raw spans to their end.
CaughtUp(b, s) ==
  LET run[n \in 0..Turns] ==
        IF n = 0 THEN s
        ELSE LET last == run[n - 1]
             IN IF Due(b, last) THEN Turn(b, last) ELSE last
  IN run[Turns]

From(i) == [m |-> checkpoints[i].state, cursor |-> checkpoints[i].log_index]

\* Checkpoint i restored and replayed to the target.
Replayed(i, target) == Run(Book, From(i), target)
Replay(i, target) == Replayed(i, target).at

-----------------------------------------------------------------------------
(* Going back.                                                             *)

CheckpointBefore(hc) == {i \in DOMAIN checkpoints : checkpoints[i].hc < hc}

NewestBoundaries(present) ==
  LET i == Largest(CheckpointBefore(present))
  IN IF CheckpointBefore(present) = {} THEN {}
     ELSE {h \in Replayed(i, present).noted : h < present}

\* The boundaries a search back from the present sees: the newest interval up
\* to the present, and each older one up to the checkpoint that ends it.
IntervalEnd(i, present) ==
  IF i + 1 \in CheckpointBefore(present) THEN checkpoints[i + 1].hc ELSE present

Boundaries(present) ==
  UNION {{h \in Replayed(i, IntervalEnd(i, present)).noted : h < present} :
         i \in CheckpointBefore(present)}

\* land: from a checkpoint a whole frame before the target, if there is one.
Land(target) ==
  LET from   == IF target > FrameHc THEN target - FrameHc ELSE 0
      before == CheckpointBefore(from + 1)
  IN Replay(IF before = {} THEN 1 ELSE Largest(before), target)

\* What go_back's bookkeeping leaves once it has landed at s.
Landed(s, head) ==
  LET arrived == s.m.hc >= head /\ s.cursor >= LogEnd
  IN /\ machine' = s.m
     /\ cursor' = IF arrived THEN 0 ELSE s.cursor
     /\ head_hc' = IF arrived THEN 0 ELSE head
     /\ live' = arrived
     /\ last_frame' = IF arrived THEN Frame(s.m) ELSE last_frame
     /\ UNCHANGED <<checkpoints, log, log_base>>

-----------------------------------------------------------------------------
(* Operations.  Each is a job on the emulator thread.                      *)

Start(m) ==
  /\ machine' = m
  /\ checkpoints' = <<Checkpoint(m, 0)>>
  /\ log' = <<>>
  /\ log_base' = 0
  /\ last_frame' = Frame(m)
  /\ live' = TRUE
  /\ head_hc' = 0
  /\ cursor' = 0
  /\ timeline' = m
  /\ midspan' = FALSE

Init ==
  /\ machine = Fresh(0)
  /\ checkpoints = <<Checkpoint(Fresh(0), 0)>>
  /\ log = <<>>
  /\ log_base = 0
  /\ last_frame = 0
  /\ live = TRUE
  /\ head_hc = 0
  /\ cursor = 0
  /\ timeline = Fresh(0)
  /\ midspan = FALSE

\* An instruction, live: it is recorded by being there to replay.
StepLive ==
  /\ live
  /\ machine.hc + InstrHc <= MaxHc
  /\ machine' = StepInstruction(machine)
  /\ timeline' = machine'
  /\ OnLiveInstruction(machine', checkpoints, log, last_frame)
  /\ UNCHANGED <<live, head_hc, cursor, midspan>>

\* Where the machine is, of what it has been through.
Here == [m |-> machine, cursor |-> IF live THEN LogEnd ELSE cursor]

\* In the past with a raw span still to run, or part of one: going on from here
\* is what the properties below except.
SpanDue == InSpan(Book, Here)
SpanPartRun == SpanDue /\ Book[Here.cursor].hc < machine.hc

StepPastUncaught ==
  /\ ~live
  /\ Landed(Stepped(Here), head_hc)
  /\ midspan' = (midspan \/ SpanDue)
  /\ UNCHANGED timeline

\* An instruction in the past: catch_up applies what falls due after it, raw
\* spans to their end, and notices reaching the head.
StepPast ==
  /\ ~live
  /\ Landed(CaughtUp(Book, Stepped(Here)), head_hc)
  /\ midspan' = (midspan \/ SpanDue)
  /\ UNCHANGED timeline

\* branch: in the past, the checkpoints after the present go and so do the
\* inputs not yet applied.
KeptCheckpoints ==
  IF live THEN checkpoints
  ELSE SubSeq(checkpoints, 1, Largest({k \in DOMAIN checkpoints :
                                         k = 1 \/ checkpoints[k].hc <= machine.hc}))

KeptLogAll == log
KeptLog ==
  IF live THEN log
  ELSE SubSeq(log, 1, Largest({k \in 0..Len(log) : k = 0 \/ log_base + k <= cursor}))

KeptFrame == IF live THEN last_frame ELSE Frame(machine)

\* record: in the past branch first; then stamp the input and log it.
Stamped(input, clocks) == [hc |-> machine.hc, input |-> input, clocks |-> clocks]

Input(value) ==
  /\ Len(SelectSeq(machine.did, LAMBDA x : x \in Inputs)) < MaxInputs
  /\ machine' = Apply(machine, value)
  /\ checkpoints' = KeptCheckpoints
  /\ log' = Append(KeptLog, Stamped(value, 0))
  /\ last_frame' = KeptFrame
  /\ live' = TRUE /\ head_hc' = 0 /\ cursor' = 0
  /\ timeline' = machine'
  /\ midspan' = (midspan \/ SpanPartRun)
  /\ UNCHANGED log_base

\* step_tstates: the span is recorded, the machine clocked, and only then
\* does the history look whether a frame has gone by.
Raw(span) ==
  /\ machine.hc + span <= MaxHc
  /\ machine' = Clock(machine, span)
  /\ OnLiveInstruction(machine', KeptCheckpoints, Append(KeptLog, Stamped("raw", span)), KeptFrame)
  /\ live' = TRUE /\ head_hc' = 0 /\ cursor' = 0
  /\ timeline' = machine'
  /\ midspan' = (midspan \/ SpanPartRun)

\* go_back: what matched is any boundary the search saw; or nothing did, or
\* it was cancelled, and the machine lands where it was; or, running backwards,
\* at the start of the history.
GoBack ==
  /\ \E target \in Boundaries(machine.hc) \cup {machine.hc, checkpoints[1].hc} :
       Landed(Land(target), IF live THEN machine.hc ELSE head_hc)
  /\ UNCHANGED <<timeline, midspan>>

ReturnToLive ==
  /\ ~live
  /\ LET before == CheckpointBefore(machine.hc + 1)
         s == Replay(IF before = {} THEN 1 ELSE Largest(before), head_hc)
     IN machine' = s.m /\ last_frame' = Frame(s.m)
  /\ live' = TRUE /\ head_hc' = 0 /\ cursor' = 0
  /\ UNCHANGED <<checkpoints, log, log_base, timeline, midspan>>

\* restart_history: a reset zeroes the clock, a snapshot, tape or model
\* replaces the machine; either way the history begins here.
Restart == \E hc \in {machine.hc, 0} : Start(Fresh(hc))

Next ==
  \/ StepLive \/ StepPast
  \/ \E value \in Inputs : Input(value)
  \/ \E span \in RawSpans : Raw(span)
  \/ GoBack \/ ReturnToLive
  \/ Restart

Spec == Init /\ [][Next]_vars

-----------------------------------------------------------------------------
(* Properties.                                                             *)

Marks == Inputs \cup {"i", "c"}
Hc == 0..(MaxHc + InstrHc)  \* a step in the past may end beyond the bound
Machines == [from : Hc, hc : Hc, did : Seq(Marks)]

\* The state's shape.
TypeOK ==
  /\ machine \in Machines /\ timeline \in Machines
  /\ checkpoints \in Seq([hc : Hc, log_index : Nat, state : Machines])
  /\ checkpoints # <<>> /\ Len(checkpoints) <= MaxBytes
  /\ log \in Seq([hc : Hc, input : Inputs \cup {"raw"}, clocks : Nat])
  /\ {log_base, cursor, last_frame} \subseteq Nat
  /\ {live, midspan} \subseteq BOOLEAN
  /\ head_hc \in Hc

\* Replaying from any checkpoint before it reproduces the present machine:
\* what a replay applies is exactly what the live machine had, whatever was
\* trimmed, branched away or replayed since.
ReplaysAgree ==
  midspan \/ \A i \in DOMAIN checkpoints :
    checkpoints[i].hc <= machine.hc => Replay(i, machine.hc).m = machine

\* The machine is never anywhere it was not the first time round.  In the
\* past it is where the timeline was, with every input of that instant
\* applied; live, it is at its end.
OnTimeline ==
  IF live THEN machine = timeline
  ELSE LET n == Len(machine.did)
       IN /\ n <= Len(timeline.did)
          /\ machine.did = SubSeq(timeline.did, 1, n)
          /\ n < Len(timeline.did) => timeline.did[n + 1] \notin Inputs

\* In the past, the head can be had back exactly, from every checkpoint, and
\* with no input left to apply.
HeadReachable ==
  live \/
    \A i \in DOMAIN checkpoints :
      LET s == Replay(i, head_hc) IN s.m = timeline /\ s.cursor = LogEnd

\* Both, unless the machine went on from inside a raw span.
TimelineKept == midspan \/ (OnTimeline /\ HeadReachable)

\* The instants at which the timeline began an instruction.
TimelineHc[n \in 0..Len(timeline.did)] ==
  IF n = 0 THEN timeline.from
  ELSE LET before == TimelineHc[n - 1]
       IN CASE timeline.did[n] = "i" -> StepInstruction(Fresh(before)).hc
            [] timeline.did[n] = "c" -> before + 1
            [] OTHER -> before

Began ==
  {TimelineHc[n - 1] : n \in {k \in DOMAIN timeline.did :
     timeline.did[k] = "i" \/ (timeline.did[k] = "c" /\ AtBoundary(TimelineHc[k - 1]))}}

\* A search back sees every instruction the program began since the start of
\* the history, across checkpoints and inside raw spans, and nothing else: the
\* newest match is the last time it happened.
SearchSeesAll ==
  midspan \/ Boundaries(machine.hc) = {h \in Began : checkpoints[1].hc <= h /\ h < machine.hc}
=============================================================================
