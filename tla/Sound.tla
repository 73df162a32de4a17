------------------------------- MODULE Sound -------------------------------
(***************************************************************************)
(* Sound on its way out, and the machine's pace (cpp-core/src: publish_    *)
(* audio and pace_wait of engine.cpp, AudioRing of beeper.cpp, the native  *)
(* device of audio_wasapi.cpp, a listener of audio_stream.cpp).            *)
(*                                                                         *)
(* The emulator thread writes each block of samples into a ring for every  *)
(* sink and then, at 1x, holds until the device has drained to a target.   *)
(* The device has a thread that feeds it, and reopens it when it goes      *)
(* away; a listener has one that sends whatever its ring has.  Samples are *)
(* numbered as they are made.                                              *)
(***************************************************************************)
EXTENDS Naturals, Sequences, FiniteSetsExt

CONSTANTS
  Buffer,       \* buffer_frames
  DeviceCap,    \* the capacity of the device's ring
  ListenerCap,  \* and of a listener's
  Target,       \* pacing_target_
  Blocks,       \* how many samples one publish can have
  MaxTimeouts,  \* MAX_PACING_TIMEOUTS
  MaxStalls,    \* bound: times a stream stops taking samples
  MaxSamples,   \* bound: samples made
  MaxStreams    \* bound: times the device is opened

NoStream == 0

\* What one publish makes fits into the device's ring beside the target: the
\* ring is four buffers and the latency, the target two buffers or the latency,
\* and there is a publish about twice a frame (audio_wasapi.cpp, open_stream).
ASSUME SoundAssumption ==
  /\ {Buffer, Target, MaxTimeouts, MaxStalls, MaxSamples, MaxStreams} \subseteq Nat
  /\ {DeviceCap, ListenerCap} \cup Blocks \subseteq Nat \ {0}
  /\ \A n \in Blocks : Target + n <= DeviceCap

VARIABLES
  made,      \* samples made so far
  normal,    \* realtime at a multiplier of 1
  paced,     \* the emulator thread: "run", "look" or "hold", the clock it holds on
  clock,     \* pacing_clock_: the stream it reads
  timeouts,  \* pacing_timeouts_
  device,    \* the stream: where it is, its number, padding and Shared::buffered
  stalled,   \* the device takes nothing
  rings,     \* audio_sinks_: the device's and the listener's AudioRing
  taken,     \* the last sample the device took, and whether it missed one (history)
  faithful   \* the stream has held every block since it opened (history)

soundVars == <<made, normal, paced, clock, timeouts, device, stalled, rings, taken, faithful>>

-----------------------------------------------------------------------------
(* AudioRing.                                                              *)

EmptyRing(cap) == [cap |-> cap, buf |-> [i \in 0..(cap - 1) |-> 0], head |-> 0, size |-> 0]

Newest(xs, n) == SubSeq(xs, Len(xs) - n + 1, Len(xs))

RingWriteUnbounded(r, xs) ==
  LET w == (r.head + r.size) % r.cap
      at(k) == (w + k - 1) % r.cap
  IN [r EXCEPT !.size = Min({r.cap, @ + Len(xs)}),
        !.buf = [i \in 0..(r.cap - 1) |->
           IF \E k \in DOMAIN xs : at(k) = i THEN xs[Max({k \in DOMAIN xs : at(k) = i})] ELSE @[i]]]

\* write: too much for the ring leaves the newest; the oldest give way.
RingWrite(r, xs) ==
  LET n    == Min({Len(xs), r.cap})
      from == IF Len(xs) >= r.cap THEN [r EXCEPT !.head = 0, !.size = 0] ELSE r
      drop == IF from.size + n > r.cap THEN from.size + n - r.cap ELSE 0
      head == (from.head + drop) % r.cap
      w    == (head + from.size - drop) % r.cap
  IN [r EXCEPT !.head = head, !.size = from.size - drop + n,
        !.buf = [i \in 0..(r.cap - 1) |->
           IF \E k \in 1..n : (w + k - 1) % r.cap = i
           THEN Newest(xs, n)[CHOOSE k \in 1..n : (w + k - 1) % r.cap = i]
           ELSE @[i]]]

Held(r) == [k \in 1..r.size |-> r.buf[(r.head + k - 1) % r.cap]]

\* read: the oldest, consumed.  (A cell nobody will read again is shown as 0.)
RingRead(r, max) ==
  LET n == Min({r.size, max})
  IN [out |-> SubSeq(Held(r), 1, n),
      ring |-> [r EXCEPT !.head = (@ + n) % r.cap, !.size = @ - n,
                  !.buf = [i \in DOMAIN @ |-> IF \E k \in 0..(n - 1) : (r.head + k) % r.cap = i THEN 0 ELSE @[i]]]]

-----------------------------------------------------------------------------
SoundInit ==
  /\ made = 0 /\ normal = TRUE
  /\ paced = [at |-> "run", on |-> NoStream, stuck |-> 0]
  /\ clock = NoStream /\ timeouts = 0
  /\ device = [at |-> "closed", n |-> 0, padding |-> 0, buffered |-> 0, stalls |-> 0]
  /\ stalled = FALSE
  /\ rings = <<>>
  /\ taken = [last |-> 0, missed |-> FALSE]
  /\ faithful = FALSE

TakeSamples(s, max) ==
  LET read == RingRead(rings[s], max)
  IN /\ rings' = [rings EXCEPT ![s] = read.ring]
     /\ taken' = IF s # "device" \/ read.out = <<>> THEN taken
                 ELSE [last |-> read.out[Len(read.out)],
                       missed |-> taken.missed \/ read.out[1] # taken.last + 1]

\* add_audio_sink, remove_audio_sink
AddSink(s, cap) ==
  /\ rings' = [x \in DOMAIN rings \cup {s} |-> IF x = s THEN EmptyRing(cap) ELSE rings[x]]
  /\ taken' = IF s = "device" THEN [last |-> made, missed |-> FALSE] ELSE taken

RemoveSink(s) == rings' = [x \in DOMAIN rings \ {s} |-> rings[x]]

-----------------------------------------------------------------------------
(* The emulator thread, at each yield of a run.                            *)

\* publish_audio: nobody listening, or another speed, and nothing is made.
Publish(n) ==
  /\ paced.at = "run"
  /\ IF normal /\ rings # <<>>
     THEN /\ made + n <= MaxSamples
          /\ made' = made + n
          /\ rings' = [s \in DOMAIN rings |-> RingWrite(rings[s], [k \in 1..n |-> made + k])]
     ELSE UNCHANGED <<made, rings>>
  /\ paced' = [paced EXCEPT !.at = "look"]
  /\ UNCHANGED <<normal, clock, timeouts, device, stalled, taken, faithful>>

\* pace_wait: the clock is copied under the lock; without one the wall clock
\* paces, which holds nobody up.
LookAtClock ==
  /\ paced.at = "look"
  /\ paced' = IF normal /\ clock # NoStream
              THEN [at |-> "hold", on |-> clock, stuck |-> 0]
              ELSE [paced EXCEPT !.at = "run"]
  /\ faithful' = (faithful /\ normal)
  /\ UNCHANGED <<made, normal, clock, timeouts, device, stalled, rings, taken>>

\* What the copied clock says: a stream that has been closed says what it said.
Reading ==
  IF paced.stuck > 0 THEN paced.stuck - 1
  ELSE device.buffered + (IF "device" \in DOMAIN rings THEN rings["device"].size ELSE 0)

Drained ==
  /\ paced.at = "hold" /\ Reading <= Target
  /\ paced' = [paced EXCEPT !.at = "run"]
  /\ timeouts' = 0
  /\ UNCHANGED <<made, normal, clock, device, stalled, rings, taken, faithful>>


\* Out of time, which a device that plays does not let happen; a few of those
\* in a row and the clock is dropped.
TimeOut ==
  /\ paced.at = "hold" /\ Reading > Target
  /\ stalled \/ paced.stuck > 0
  /\ paced' = [paced EXCEPT !.at = "run"]
  /\ timeouts' = timeouts + 1
  /\ clock' = IF timeouts' >= MaxTimeouts THEN NoStream ELSE clock
  /\ faithful' = FALSE
  /\ UNCHANGED <<made, normal, device, stalled, rings, taken>>

-----------------------------------------------------------------------------
(* The device and its thread.                                              *)

\* render_loop, whenever the device wants samples: fill up, with silence where
\* there are none, and publish what is queued.
Render ==
  /\ device.at = "open" /\ ~stalled /\ device.padding < Buffer
  /\ TakeSamples("device", Buffer - device.padding)
  /\ device' = [device EXCEPT !.padding = Buffer, !.buffered = Buffer]
  /\ UNCHANGED <<made, normal, paced, clock, timeouts, stalled, faithful>>

Play ==
  /\ device.at = "open" /\ ~stalled /\ device.padding > 0
  /\ device' = [device EXCEPT !.padding = @ - 1]
  /\ UNCHANGED <<made, normal, paced, clock, timeouts, stalled, rings, taken, faithful>>

Stall ==
  /\ device.at = "open" /\ device.stalls < MaxStalls
  /\ stalled' = TRUE
  /\ device' = [device EXCEPT !.stalls = @ + 1]
  /\ UNCHANGED <<made, normal, paced, clock, timeouts, rings, taken, faithful>>

Recover ==
  /\ stalled
  /\ stalled' = FALSE
  /\ UNCHANGED <<made, normal, paced, clock, timeouts, device, rings, taken, faithful>>

\* It asks for nothing, or says it is gone: render_loop returns.
Lose ==
  /\ device.at = "open"
  /\ device' = [device EXCEPT !.at = "lost"]
  /\ UNCHANGED <<made, normal, paced, clock, timeouts, stalled, rings, taken, faithful>>

\* close_stream: the clock first, then the sink.
UnsetClock ==
  /\ device.at = "lost"
  /\ device' = [device EXCEPT !.at = "unpaced"]
  /\ clock' = NoStream
  /\ faithful' = FALSE
  /\ UNCHANGED <<made, normal, paced, timeouts, stalled, rings, taken>>

Close ==
  /\ device.at = "unpaced"
  /\ paced' = IF paced.at = "hold" /\ paced.stuck = 0 THEN [paced EXCEPT !.stuck = Reading + 1] ELSE paced
  /\ device' = [device EXCEPT !.at = "closed", !.padding = 0, !.buffered = 0]
  /\ RemoveSink("device")
  /\ stalled' = FALSE
  /\ UNCHANGED <<made, normal, clock, timeouts, taken, faithful>>

\* open_stream: the sink, then the clock, and then the device is started,
\* which may fail.
Open ==
  /\ device.at = "closed" /\ device.n < MaxStreams
  /\ device' = [device EXCEPT !.at = "opened", !.n = @ + 1, !.stalls = 0]
  /\ AddSink("device", DeviceCap)
  /\ UNCHANGED <<made, normal, paced, clock, timeouts, stalled, faithful>>

SetClock ==
  /\ device.at = "opened"
  /\ device' = [device EXCEPT !.at = "clocked"]
  /\ clock' = device.n /\ timeouts' = 0
  /\ faithful' = (rings["device"].size = 0)
  /\ UNCHANGED <<made, normal, paced, stalled, rings, taken>>

StartDevice ==
  /\ device.at = "clocked"
  /\ \E at \in {"open", "lost"} : device' = [device EXCEPT !.at = at]
  /\ UNCHANGED <<made, normal, paced, clock, timeouts, stalled, rings, taken, faithful>>

-----------------------------------------------------------------------------
(* A listener of the audio stream, and set_speed.                          *)

Listen ==
  /\ "listener" \notin DOMAIN rings
  /\ AddSink("listener", ListenerCap)
  /\ UNCHANGED <<made, normal, paced, clock, timeouts, device, stalled, faithful>>

SendOn ==
  /\ "listener" \in DOMAIN rings /\ rings["listener"].size > 0
  /\ TakeSamples("listener", ListenerCap)
  /\ UNCHANGED <<made, normal, paced, clock, timeouts, device, stalled, faithful>>

HangUp ==
  /\ "listener" \in DOMAIN rings
  /\ RemoveSink("listener")
  /\ UNCHANGED <<made, normal, paced, clock, timeouts, device, stalled, taken, faithful>>

SetSpeed ==
  /\ normal' = ~normal
  /\ UNCHANGED <<made, paced, clock, timeouts, device, stalled, rings, taken, faithful>>

EmulatorPaces == LookAtClock \/ Drained \/ TimeOut
DeviceRuns == Render \/ Play
Reopens == UnsetClock \/ Close \/ Open \/ SetClock \/ StartDevice

SoundNext ==
  \/ \E n \in Blocks : Publish(n)
  \/ EmulatorPaces \/ DeviceRuns \/ Reopens
  \/ Stall \/ Recover \/ Lose
  \/ Listen \/ SendOn \/ HangUp
  \/ SetSpeed

\* The threads run, and a device that is not stalled plays; how long a stall
\* lasts nobody promises, and the deadline passes all the same.
SoundFairness == WF_soundVars(EmulatorPaces) /\ WF_soundVars(Reopens) /\ WF_soundVars(Render) /\ WF_soundVars(Play)

SoundSpec == SoundInit /\ [][SoundNext]_soundVars /\ SoundFairness

-----------------------------------------------------------------------------
(* Properties.                                                             *)

\* What is in a ring is the newest of what was made, in order and without a
\* gap; the clock the machine is paced by is that of a stream still open; and
\* while that clock has held every block since the stream opened, at 1x and in
\* time, the device has missed no sample.
SoundKept ==
  /\ \A s \in DOMAIN rings :
       LET r == rings[s] IN
       /\ r.size <= r.cap
       /\ r.size > 0 => Held(r) = [k \in 1..r.size |-> made - r.size + k]
  /\ clock # NoStream => clock = device.n /\ "device" \in DOMAIN rings
  /\ faithful => ~taken.missed /\ taken.last = made - rings["device"].size

=============================================================================
