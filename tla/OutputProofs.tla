---------------------------- MODULE OutputProofs ----------------------------
(***************************************************************************)
(* What leaves the machine on other threads arrives as it was made: the    *)
(* frames of a recording, for any number of callers, recordings, frames    *)
(* and room in the queue, and whenever the encoder may fail; and the       *)
(* samples of the sound, for any rings, blocks and target that leave room  *)
(* for a block, however often streams and listeners come and go.  A        *)
(* request to trace is taken up by the one it was made to, for any callers *)
(* and any number of requests.                                             *)
(***************************************************************************)
EXTENDS TraceHandover, VideoRecorder, Sound, SequenceTheorems, TLAPS

-----------------------------------------------------------------------------
(* Recording video.                                                        *)

\* One caller at a time is inside start, stop or status.
Locked ==
  /\ \A c \in Callers : within[c] # "idle" => lifecycle
  /\ \A c, d \in Callers : within[c] # "idle" /\ within[d] # "idle" => c = d

\* What the caller inside can count on where it is.
Staged ==
  \A c \in Callers :
    /\ within[c] \in {"notify", "join", "close", "open"} => ~status.active
    /\ within[c] \in {"close", "open", "spawn"} => writer = "none"
    /\ within[c] = "open" => sink = NoSink /\ op[c] = "start"
    /\ within[c] = "spawn" => sink # NoSink /\ sink \notin failed
    /\ within[c] \in {"look", "end", "notify", "join", "close", "open"} /\ op[c] = "start"
         => Started < MaxRecordings

\* The writer has a sink, which a write failed in only if it has given up.
Writing ==
  /\ writer # "none" => sink # NoSink
  /\ writer = "none" /\ sink # NoSink => \E c \in Callers : within[c] \in {"close", "spawn"}
  /\ writer = "done" => ~status.active
  /\ writer = "failed" => sink \in failed
  /\ sink \in failed => writer \notin {"ready", "asleep", "writing"}

\* The sink is the last recording's, closed when another can begin.
Sunk ==
  /\ sink \in {NoSink, Started}
  /\ sink = NoSink => ~status.active
  /\ failed \subseteq 1..Started
  /\ \A r \in Recordings : closed[r] = IF r <= Started /\ r # sink THEN 1 ELSE 0

\* Each frame of the recording so far was offered once.
Counted == status.frames <= IF emulator = "pushing" THEN frame - 1 ELSE frame

\* A file is a beginning of what was accepted for it ...
Begun ==
  \A r \in Recordings :
    /\ Len(written[r]) <= Len(accepted[r])
    /\ \A i \in 1..Len(written[r]) : written[r][i] = accepted[r][i]

\* ... all of it once its sink is closed, unless a write failed ...
Settled ==
  /\ \A r \in Recordings : r # sink /\ r \notin failed => written[r] = accepted[r]
  /\ \A r \in Recordings : r > Started => accepted[r] = <<>>

\* ... and until then the rest is the frame in hand and the queue, which is
\* empty when the writer has finished.
InHand == IF writer = "writing" THEN 1 ELSE 0
InFlight ==
  sink # NoSink /\ sink \notin failed =>
    /\ Len(accepted[sink]) = Len(written[sink]) + InHand + Len(queue)
    /\ writer = "writing" => accepted[sink][Len(written[sink]) + 1] = inhand
    /\ \A i \in 1..Len(queue) : accepted[sink][Len(written[sink]) + InHand + i] = queue[i]
Emptied ==
  sink \notin failed =>
    /\ writer = "done" => queue = <<>>
    /\ \A c \in Callers : within[c] = "close" /\ sink # NoSink => queue = <<>>

\* The frames' part, and all of it, which is inductive.
Framed == Begun /\ Settled /\ InFlight
VideoInv ==
  /\ VideoTypeOK /\ Counted
  /\ Locked /\ Staged /\ Writing /\ Sunk
  /\ Framed /\ Emptied

-----------------------------------------------------------------------------
(* Lemmas.                                                                 *)

\* Types of the parts of the state.
LEMMA Types ==
  ASSUME VideoTypeOK
  PROVE  /\ Started \in 0..MaxRecordings /\ MaxRecordings \in Nat /\ MaxFrames \in Nat
         /\ status.frames \in 0..MaxFrames /\ status.active \in BOOLEAN
         /\ \A r \in Recordings : /\ Len(written[r]) \in Nat /\ written[r] \in Seq(1..MaxFrames)
                                  /\ Len(accepted[r]) \in Nat /\ accepted[r] \in Seq(1..MaxFrames)
         /\ queue \in Seq(1..MaxFrames) /\ Len(queue) \in Nat
<1>1. queue \in Seq(1..MaxFrames) /\ Len(queue) \in Nat
  BY DEF VideoTypeOK
<1>2. ASSUME NEW r \in Recordings
      PROVE  /\ Len(written[r]) \in Nat /\ written[r] \in Seq(1..MaxFrames)
             /\ Len(accepted[r]) \in Nat /\ accepted[r] \in Seq(1..MaxFrames)
  <2>1. written[r] \in Seq(1..MaxFrames) /\ accepted[r] \in Seq(1..MaxFrames)
    BY DEF VideoTypeOK
  <2> QED BY <2>1, LenProperties
<1>3. /\ Started \in 0..MaxRecordings /\ MaxRecordings \in Nat /\ MaxFrames \in Nat
      /\ status.frames \in 0..MaxFrames /\ status.active \in BOOLEAN
  BY VideoAssumption DEF VideoTypeOK, Started
<1> QED BY <1>1, <1>2, <1>3

\* Places in what was accepted: after the file's w frames and the h in hand.
LEMMA Places ==
  ASSUME NEW w \in Nat, NEW h \in Nat, NEW q \in Nat
  PROVE  /\ (w + h + q) + 1 = w + h + (q + 1)
         /\ \A i \in 1..(q - 1) : i + 1 \in 1..q /\ w + (i + 1) = w + 1 + i
  OBVIOUS

\* What does not touch the frames leaves them as they were.
LEMMA FramesStay ==
  ASSUME Framed, UNCHANGED <<sink, queue, accepted, written, failed, inhand>>,
         Started' = Started, InHand' = InHand, writer' = "writing" => writer = "writing"
  PROVE  Framed'
<1>1. Begun'
  BY DEF Framed, Begun
<1>2. Settled'
  BY DEF Framed, Settled
<1>3. InFlight'
  BY DEF Framed, InFlight
<1> QED BY <1>1, <1>2, <1>3 DEF Framed

-----------------------------------------------------------------------------
(* The callers.                                                            *)

\* A call begins.
LEMMA BeginKeeps ==
  ASSUME VideoInv, NEW c \in Callers, NEW kind \in {"start", "stop", "status"}, Begin(c, kind)
  PROVE  VideoInv'
<1> USE DEF VideoInv, NoSink
<1>1. VideoTypeOK'
  BY Types DEF VideoTypeOK, Begin, Goto, sharedVars, writerVars, pusherVars
<1>2. Counted'
  BY Types DEF Counted, Begin, Goto, sharedVars, writerVars, pusherVars
<1>3. Locked'
  BY DEF Locked, VideoTypeOK, Begin, Goto, sharedVars, writerVars, pusherVars
<1>4. Staged'
  BY Types DEF Staged, Locked, Writing, Sunk, VideoTypeOK, Started, Begin, Goto, sharedVars, writerVars, pusherVars
<1>5. Writing'
  BY DEF Writing, Locked, Staged, Sunk, VideoTypeOK, Begin, Goto, sharedVars, writerVars, pusherVars
<1>6. Sunk'
  BY Types DEF Sunk, Staged, Started, VideoTypeOK, Recordings, Begin, Goto, sharedVars, writerVars, pusherVars
<1>7. Framed'
  BY FramesStay DEF InHand, Started, VideoTypeOK, Begin, Goto, sharedVars, writerVars, pusherVars
<1>8. Emptied'
  BY DEF Emptied, Staged, Writing, Locked, VideoTypeOK, Begin, Goto, sharedVars, writerVars, pusherVars
<1> QED BY <1>1, <1>2, <1>3, <1>4, <1>5, <1>6, <1>7, <1>8

\* The recording is ended.
LEMMA EndRecordingKeeps ==
  ASSUME VideoInv, NEW c \in Callers, EndRecording(c)
  PROVE  VideoInv'
<1> USE DEF VideoInv, NoSink
<1>1. VideoTypeOK'
  BY Types DEF VideoTypeOK, EndRecording, Goto, sharedVars, writerVars, pusherVars
<1>2. Counted'
  BY Types DEF Counted, EndRecording, Goto, sharedVars, writerVars, pusherVars
<1>3. Locked'
  BY DEF Locked, VideoTypeOK, EndRecording, Goto, sharedVars, writerVars, pusherVars
<1>4. Staged'
  BY Types DEF Staged, Locked, Writing, Sunk, VideoTypeOK, Started, EndRecording, Goto, sharedVars, writerVars, pusherVars
<1>5. Writing'
  BY DEF Writing, Locked, Staged, Sunk, VideoTypeOK, EndRecording, Goto, sharedVars, writerVars, pusherVars
<1>6. Sunk'
  BY Types DEF Sunk, Staged, Started, VideoTypeOK, Recordings, EndRecording, Goto, sharedVars, writerVars, pusherVars
<1>7. Framed'
  BY FramesStay DEF InHand, Started, VideoTypeOK, EndRecording, Goto, sharedVars, writerVars, pusherVars
<1>8. Emptied'
  BY DEF Emptied, Staged, Writing, Locked, VideoTypeOK, EndRecording, Goto, sharedVars, writerVars, pusherVars
<1> QED BY <1>1, <1>2, <1>3, <1>4, <1>5, <1>6, <1>7, <1>8

\* The writer is woken.
LEMMA NotifyWriterKeeps ==
  ASSUME VideoInv, NEW c \in Callers, NotifyWriter(c)
  PROVE  VideoInv'
<1> USE DEF VideoInv, NoSink
<1>1. VideoTypeOK'
  BY Types DEF VideoTypeOK, NotifyWriter, Goto, sharedVars, writerVars, pusherVars, Woken
<1>2. Counted'
  BY Types DEF Counted, NotifyWriter, Goto, sharedVars, writerVars, pusherVars, Woken
<1>3. Locked'
  BY DEF Locked, VideoTypeOK, NotifyWriter, Goto, sharedVars, writerVars, pusherVars, Woken
<1>4. Staged'
  BY Types DEF Staged, Locked, Writing, Sunk, VideoTypeOK, Started, NotifyWriter, Goto, sharedVars, writerVars, pusherVars, Woken
<1>5. Writing'
  BY DEF Writing, Locked, Staged, Sunk, VideoTypeOK, NotifyWriter, Goto, sharedVars, writerVars, pusherVars, Woken
<1>6. Sunk'
  BY Types DEF Sunk, Staged, Started, VideoTypeOK, Recordings, NotifyWriter, Goto, sharedVars, writerVars, pusherVars, Woken
<1>7. Framed'
  BY FramesStay DEF InHand, Started, VideoTypeOK, NotifyWriter, Goto, sharedVars, writerVars, pusherVars, Woken
<1>8. Emptied'
  BY DEF Emptied, Staged, Writing, Locked, VideoTypeOK, NotifyWriter, Goto, sharedVars, writerVars, pusherVars, Woken
<1> QED BY <1>1, <1>2, <1>3, <1>4, <1>5, <1>6, <1>7, <1>8

\* A status looks at it.
LEMMA LookEndedKeeps ==
  ASSUME VideoInv, NEW c \in Callers, LookEnded(c)
  PROVE  VideoInv'
<1> USE DEF VideoInv, NoSink
<1>1. VideoTypeOK'
  BY Types DEF VideoTypeOK, LookEnded, Goto, sharedVars, writerVars, pusherVars
<1>2. Counted'
  BY Types DEF Counted, LookEnded, Goto, sharedVars, writerVars, pusherVars
<1>3. Locked'
  BY DEF Locked, VideoTypeOK, LookEnded, Goto, sharedVars, writerVars, pusherVars
<1>4. Staged'
  BY Types DEF Staged, Locked, Writing, Sunk, VideoTypeOK, Started, LookEnded, Goto, sharedVars, writerVars, pusherVars
<1>5. Writing'
  BY DEF Writing, Locked, Staged, Sunk, VideoTypeOK, LookEnded, Goto, sharedVars, writerVars, pusherVars
<1>6. Sunk'
  BY Types DEF Sunk, Staged, Started, VideoTypeOK, Recordings, LookEnded, Goto, sharedVars, writerVars, pusherVars
<1>7. Framed'
  BY FramesStay DEF InHand, Started, VideoTypeOK, LookEnded, Goto, sharedVars, writerVars, pusherVars
<1>8. Emptied'
  BY DEF Emptied, Staged, Writing, Locked, VideoTypeOK, LookEnded, Goto, sharedVars, writerVars, pusherVars
<1> QED BY <1>1, <1>2, <1>3, <1>4, <1>5, <1>6, <1>7, <1>8

\* The writer is joined.
LEMMA JoinWriterKeeps ==
  ASSUME VideoInv, NEW c \in Callers, JoinWriter(c)
  PROVE  VideoInv'
<1> USE DEF VideoInv, NoSink
<1>1. VideoTypeOK'
  BY Types DEF VideoTypeOK, JoinWriter, Goto, sharedVars, writerVars, pusherVars
<1>2. Counted'
  BY Types DEF Counted, JoinWriter, Goto, sharedVars, writerVars, pusherVars
<1>3. Locked'
  BY DEF Locked, VideoTypeOK, JoinWriter, Goto, sharedVars, writerVars, pusherVars
<1>4. Staged'
  BY Types DEF Staged, Locked, Writing, Sunk, VideoTypeOK, Started, JoinWriter, Goto, sharedVars, writerVars, pusherVars
<1>5. Writing'
  BY DEF Writing, Locked, Staged, Sunk, VideoTypeOK, JoinWriter, Goto, sharedVars, writerVars, pusherVars
<1>6. Sunk'
  BY Types DEF Sunk, Staged, Started, VideoTypeOK, Recordings, JoinWriter, Goto, sharedVars, writerVars, pusherVars
<1>7. Framed'
  BY FramesStay DEF InHand, Started, VideoTypeOK, JoinWriter, Goto, sharedVars, writerVars, pusherVars
<1>8. Emptied'
  BY DEF Emptied, Staged, Writing, Locked, VideoTypeOK, JoinWriter, Goto, sharedVars, writerVars, pusherVars
<1> QED BY <1>1, <1>2, <1>3, <1>4, <1>5, <1>6, <1>7, <1>8

\* The sink is closed.
LEMMA CloseSinkKeeps ==
  ASSUME VideoInv, NEW c \in Callers, CloseSink(c)
  PROVE  VideoInv'
<1> USE DEF VideoInv, NoSink
<1>1. VideoTypeOK'
  <2>1. closed' \in [Recordings -> Nat]
    BY DEF VideoTypeOK, CloseSink
  <2>2. queue' \in Seq(1..MaxFrames) /\ Len(queue') <= MaxQueue
    BY VideoAssumption DEF CloseSink
  <2>3. within' \in [Callers -> {"idle", "look", "end", "notify", "join", "close", "open", "spawn", "report"}]
    BY DEF VideoTypeOK, CloseSink, Goto
  <2> QED BY <2>1, <2>2, <2>3 DEF VideoTypeOK, CloseSink, writerVars, pusherVars
<1>2. Counted'
  BY Types DEF Counted, CloseSink, Goto, sharedVars, writerVars, pusherVars
<1>3. Locked'
  BY DEF Locked, VideoTypeOK, CloseSink, Goto, sharedVars, writerVars, pusherVars
<1>4. Staged'
  BY Types DEF Staged, Locked, Writing, Sunk, VideoTypeOK, Started, CloseSink, Goto, sharedVars, writerVars, pusherVars
<1>5. Writing'
  BY DEF Writing, Locked, Staged, Sunk, VideoTypeOK, CloseSink, Goto, sharedVars, writerVars, pusherVars
<1>6. Sunk'
  BY Types DEF Sunk, Staged, Started, VideoTypeOK, Recordings, CloseSink, Goto, sharedVars, writerVars, pusherVars
<1>7. Framed'
  <2>1. /\ UNCHANGED <<accepted, written, failed>> /\ Started' = Started
        /\ sink' = NoSink /\ status' = status /\ within[c] = "close" /\ writer = "none"
    BY DEF CloseSink, Started, Staged, writerVars, pusherVars
  <2>2. Begun'
    BY <2>1 DEF Framed, Begun
  <2>3. ASSUME sink # NoSink, sink \notin failed PROVE written[sink] = accepted[sink]
    <3>1. sink \in Recordings /\ queue = <<>> /\ InHand = 0
      BY <2>1, <2>3 DEF Emptied, InHand, VideoTypeOK
    <3>2. Len(accepted[sink]) = Len(written[sink])
      BY <2>3, <3>1, Types DEF Framed, InFlight
    <3>3. \A i \in 1..Len(written[sink]) : written[sink][i] = accepted[sink][i]
      BY <3>1 DEF Framed, Begun
    <3>4. written[sink] \in Seq(1..MaxFrames) /\ accepted[sink] \in Seq(1..MaxFrames)
      BY <3>1, Types
    <3> QED BY <3>2, <3>3, <3>4, SeqEqual
  <2>4. Settled'
    BY <2>1, <2>3 DEF Framed, Settled, Recordings
  <2>5. InFlight'
    BY <2>1 DEF InFlight
  <2> QED BY <2>2, <2>4, <2>5 DEF Framed
<1>8. Emptied'
  BY DEF Emptied, Staged, Writing, Locked, VideoTypeOK, CloseSink, Goto, sharedVars, writerVars, pusherVars
<1> QED BY <1>1, <1>2, <1>3, <1>4, <1>5, <1>6, <1>7, <1>8

\* The next recording is opened.
LEMMA OpenSinkKeeps ==
  ASSUME VideoInv, NEW c \in Callers, OpenSink(c)
  PROVE  VideoInv'
<1> USE DEF VideoInv, NoSink
<1>a. PICK limit \in Limits :
        status' = [recording |-> Started + 1, active |-> TRUE, frames |-> 0, limit |-> limit]
  BY DEF OpenSink
<1>b. Started < MaxRecordings /\ Started + 1 \in Recordings /\ Started' = Started + 1 /\ sink' = Started + 1
  <2>1. Started < MaxRecordings
    BY DEF OpenSink, Staged
  <2> QED BY <1>a, <2>1, Types DEF Recordings, Started, OpenSink
<1>1. VideoTypeOK'
  <2>1. status' \in [recording : 0..MaxRecordings, active : BOOLEAN, frames : 0..MaxFrames, limit : Limits \cup {0}]
    <3>1. Started + 1 \in 0..MaxRecordings /\ 0 \in 0..MaxFrames
      BY <1>b, Types
    <3> QED BY <1>a, <3>1
  <2>2. queue' \in Seq(1..MaxFrames) /\ Len(queue') <= MaxQueue
    BY VideoAssumption DEF OpenSink
  <2>3. within' \in [Callers -> {"idle", "look", "end", "notify", "join", "close", "open", "spawn", "report"}]
    BY DEF VideoTypeOK, OpenSink, Goto
  <2> QED BY <1>b, <2>1, <2>2, <2>3 DEF VideoTypeOK, OpenSink, writerVars, pusherVars
<1>2. Counted'
  <2>1. frame \in Nat /\ (emulator = "pushing" => frame >= 1)
    BY Types DEF Counted, VideoTypeOK
  <2>2. status'.frames = 0 /\ frame' = frame /\ emulator' = emulator
    BY <1>a DEF OpenSink, pusherVars
  <2> QED BY <2>1, <2>2 DEF Counted
<1>3. Locked'
  BY DEF Locked, VideoTypeOK, OpenSink, Goto, sharedVars, writerVars, pusherVars
<1>4. Staged'
  <2>1. within[c] = "open" /\ writer = "none" /\ within'[c] = "spawn"
    BY DEF OpenSink, Goto, Staged, VideoTypeOK
  <2>2. \A d \in Callers : d # c => within'[d] = "idle"
    BY <2>1 DEF OpenSink, Goto, Locked, VideoTypeOK
  <2>3. sink' # NoSink /\ sink' \notin failed
    <3>1. Started + 1 \notin 1..Started /\ Started + 1 # 0
      BY Types
    <3> QED BY <1>b, <3>1 DEF Sunk
  <2> QED BY <2>1, <2>2, <2>3 DEF Staged, OpenSink, writerVars
<1>5. Writing'
  BY DEF Writing, Locked, Staged, Sunk, VideoTypeOK, OpenSink, Goto, sharedVars, writerVars, pusherVars
<1>6. Sunk'
  BY Types DEF Sunk, Staged, Started, VideoTypeOK, Recordings, OpenSink, Goto, sharedVars, writerVars, pusherVars
<1>7. Framed'
  <2>1. /\ UNCHANGED <<accepted, written, failed, writer>>
        /\ sink = NoSink /\ queue' = <<>> /\ writer = "none"
    BY DEF OpenSink, Staged, writerVars, pusherVars
  <2>2. Begun'
    BY <2>1 DEF Framed, Begun
  <2>3. Settled'
    <3>1. \A r \in Recordings : r \in Nat /\ r # NoSink
      BY DEF Recordings
    <3>2. ASSUME NEW r \in Recordings, r # sink', r \notin failed PROVE written[r] = accepted[r]
      BY <2>1, <3>1, <3>2 DEF Framed, Settled
    <3>3. ASSUME NEW r \in Recordings, r > Started' PROVE accepted[r] = <<>>
      BY <1>b, <3>1, <3>3, Types DEF Framed, Settled
    <3> QED BY <2>1, <3>2, <3>3 DEF Settled
  <2>4. InFlight'
    <3>1. accepted[sink'] = <<>>
      BY <1>b, Types DEF Framed, Settled
    <3>2. Len(accepted[sink']) = 0 /\ Len(written[sink']) = 0
      <4>1. Len(accepted[sink']) = 0
        BY <3>1
      <4>2. Len(written[sink']) <= Len(accepted[sink']) /\ Len(written[sink']) \in Nat
        BY <1>b, Types DEF Framed, Begun
      <4> QED BY <4>1, <4>2
    <3> QED BY <2>1, <3>2 DEF InFlight, InHand
  <2> QED BY <2>2, <2>3, <2>4 DEF Framed
<1>8. Emptied'
  BY DEF Emptied, Staged, Writing, Locked, VideoTypeOK, OpenSink, Goto, sharedVars, writerVars, pusherVars
<1> QED BY <1>1, <1>2, <1>3, <1>4, <1>5, <1>6, <1>7, <1>8

\* Its writer begins.
LEMMA SpawnWriterKeeps ==
  ASSUME VideoInv, NEW c \in Callers, SpawnWriter(c)
  PROVE  VideoInv'
<1> USE DEF VideoInv, NoSink
<1>1. VideoTypeOK'
  BY Types DEF VideoTypeOK, SpawnWriter, Goto, sharedVars, writerVars, pusherVars
<1>2. Counted'
  BY Types DEF Counted, SpawnWriter, Goto, sharedVars, writerVars, pusherVars
<1>3. Locked'
  BY DEF Locked, VideoTypeOK, SpawnWriter, Goto, sharedVars, writerVars, pusherVars
<1>4. Staged'
  BY Types DEF Staged, Locked, Writing, Sunk, VideoTypeOK, Started, SpawnWriter, Goto, sharedVars, writerVars, pusherVars
<1>5. Writing'
  BY DEF Writing, Locked, Staged, Sunk, VideoTypeOK, SpawnWriter, Goto, sharedVars, writerVars, pusherVars
<1>6. Sunk'
  BY Types DEF Sunk, Staged, Started, VideoTypeOK, Recordings, SpawnWriter, Goto, sharedVars, writerVars, pusherVars
<1>7. Framed'
  <2>1. writer = "none" /\ writer' = "ready" /\ UNCHANGED <<sink, queue, accepted, written, failed, inhand, status>>
    BY DEF SpawnWriter, Staged, sharedVars, pusherVars
  <2> QED BY <2>1, FramesStay DEF InHand, Started
<1>8. Emptied'
  BY DEF Emptied, Staged, Writing, Locked, VideoTypeOK, SpawnWriter, Goto, sharedVars, writerVars, pusherVars
<1> QED BY <1>1, <1>2, <1>3, <1>4, <1>5, <1>6, <1>7, <1>8

\* The call returns.
LEMMA ReportKeeps ==
  ASSUME VideoInv, NEW c \in Callers, Report(c)
  PROVE  VideoInv'
<1> USE DEF VideoInv, NoSink
<1>1. VideoTypeOK'
  BY Types DEF VideoTypeOK, Report, Goto, sharedVars, writerVars, pusherVars
<1>2. Counted'
  BY Types DEF Counted, Report, Goto, sharedVars, writerVars, pusherVars
<1>3. Locked'
  BY DEF Locked, VideoTypeOK, Report, Goto, sharedVars, writerVars, pusherVars
<1>4. Staged'
  BY Types DEF Staged, Locked, Writing, Sunk, VideoTypeOK, Started, Report, Goto, sharedVars, writerVars, pusherVars
<1>5. Writing'
  BY DEF Writing, Locked, Staged, Sunk, VideoTypeOK, Report, Goto, sharedVars, writerVars, pusherVars
<1>6. Sunk'
  BY Types DEF Sunk, Staged, Started, VideoTypeOK, Recordings, Report, Goto, sharedVars, writerVars, pusherVars
<1>7. Framed'
  BY FramesStay DEF InHand, Started, VideoTypeOK, Report, Goto, sharedVars, writerVars, pusherVars
<1>8. Emptied'
  BY DEF Emptied, Staged, Writing, Locked, VideoTypeOK, Report, Goto, sharedVars, writerVars, pusherVars
<1> QED BY <1>1, <1>2, <1>3, <1>4, <1>5, <1>6, <1>7, <1>8

-----------------------------------------------------------------------------
(* The emulator thread and the writer.                                     *)

\* A frame is offered.
LEMMA OfferFrameKeeps ==
  ASSUME VideoInv, OfferFrame
  PROVE  VideoInv'
<1> USE DEF VideoInv, NoSink
<1>1. VideoTypeOK'
  BY Types DEF VideoTypeOK, OfferFrame, callerVars, sharedVars, writerVars, pusherVars
<1>2. Counted'
  <2>1. frame \in Nat /\ frame' = frame + 1 /\ status' = status /\ emulator = "running" /\ emulator' = "pushing"
    BY DEF VideoTypeOK, OfferFrame, sharedVars
  <2> QED BY <2>1, Types DEF Counted
<1>3. Locked'
  BY DEF Locked, VideoTypeOK, OfferFrame, callerVars, sharedVars, writerVars, pusherVars
<1>4. Staged'
  BY Types DEF Staged, Locked, Writing, Sunk, VideoTypeOK, Started, OfferFrame, callerVars, sharedVars, writerVars, pusherVars
<1>5. Writing'
  BY DEF Writing, Locked, Staged, Sunk, VideoTypeOK, OfferFrame, callerVars, sharedVars, writerVars, pusherVars
<1>6. Sunk'
  BY Types DEF Sunk, Staged, Started, VideoTypeOK, Recordings, OfferFrame, callerVars, sharedVars, writerVars, pusherVars
<1>7. Framed'
  BY FramesStay DEF InHand, Started, VideoTypeOK, OfferFrame, callerVars, sharedVars, writerVars, pusherVars
<1>8. Emptied'
  BY DEF Emptied, Staged, Writing, Locked, VideoTypeOK, OfferFrame, callerVars, sharedVars, writerVars, pusherVars
<1> QED BY <1>1, <1>2, <1>3, <1>4, <1>5, <1>6, <1>7, <1>8

\* It is pushed.
LEMMA PushKeeps ==
  ASSUME VideoInv, Push
  PROVE  VideoInv'
<1> USE DEF VideoInv, NoSink
<1>a. CASE ~(status.active /\ ~finishing /\ Len(queue) < MaxQueue)
  <2>1. UNCHANGED <<queue, active, status, writer, accepted, callerVars, sink, finishing, inhand, written, failed, frame, closed>>
        /\ emulator = "pushing" /\ emulator' = "running"
    BY <1>a DEF Push
  <2>2. VideoTypeOK'
    BY <2>1 DEF VideoTypeOK, callerVars
  <2>3. Counted'
    BY <2>1, Types DEF Counted, VideoTypeOK
  <2>4. Locked' /\ Staged' /\ Writing' /\ Sunk' /\ Emptied'
    BY <2>1 DEF Locked, Staged, Writing, Sunk, Emptied, callerVars, Started
  <2>5. Framed'
    BY <2>1, FramesStay DEF InHand, Started
  <2> QED BY <2>2, <2>3, <2>4, <2>5
<1>b. CASE status.active /\ ~finishing /\ Len(queue) < MaxQueue
  <2> DEFINE full == status.limit # 0 /\ status.frames + 1 >= status.limit
  <2>1. /\ emulator = "pushing" /\ emulator' = "running"
        /\ UNCHANGED <<within, op, lifecycle, sink, finishing, inhand, written, failed, frame, closed>>
        /\ queue' = Append(queue, frame)
        /\ accepted' = [accepted EXCEPT ![Started] = Append(@, frame)]
        /\ status' = [status EXCEPT !.frames = @ + 1, !.active = @ /\ ~full]
        /\ active' = (active /\ ~full)
        /\ writer' = IF writer = "asleep" THEN "ready" ELSE writer
    BY <1>b DEF Push, Accept, Woken, callerVars
  <2> HIDE DEF full
  <2>2. sink = Started /\ sink \in Recordings /\ Started' = Started
    <3>1. sink = Started /\ sink # NoSink
      BY <1>b DEF Sunk
    <3>2. Started' = Started
      BY <2>1 DEF VideoTypeOK, Started
    <3> QED BY <3>1, <3>2 DEF VideoTypeOK
  <2>3. frame \in 1..MaxFrames /\ status.frames + 1 \in 0..MaxFrames /\ status.frames + 1 <= frame
    <3>1. frame \in 0..MaxFrames /\ status.frames <= frame - 1
      BY <2>1 DEF Counted, VideoTypeOK
    <3>2. status.frames \in Nat /\ MaxFrames \in Nat
      BY Types
    <3> QED BY <3>1, <3>2
  <2>4. /\ queue' \in Seq(1..MaxFrames) /\ Len(queue') = Len(queue) + 1
        /\ \A i \in 1..Len(queue) : queue'[i] = queue[i]
        /\ queue'[Len(queue) + 1] = frame
    BY <2>1, <2>3, Types
  <2>5. /\ accepted'[sink] \in Seq(1..MaxFrames) /\ Len(accepted'[sink]) = Len(accepted[sink]) + 1
        /\ \A i \in 1..Len(accepted[sink]) : accepted'[sink][i] = accepted[sink][i]
        /\ accepted'[sink][Len(accepted[sink]) + 1] = frame
        /\ \A r \in Recordings : r # sink => accepted'[r] = accepted[r]
    <3>1. accepted'[sink] = Append(accepted[sink], frame)
      BY <2>1, <2>2 DEF VideoTypeOK
    <3>2. accepted[sink] \in Seq(1..MaxFrames)
      BY <2>2, Types
    <3>3. \A r \in Recordings : r # sink => accepted'[r] = accepted[r]
      BY <2>1, <2>2 DEF VideoTypeOK
    <3> QED BY <2>3, <3>1, <3>2, <3>3
  <2>6. /\ status'.frames = status.frames + 1 /\ (status'.active => status.active)
        /\ status' \in [recording : 0..MaxRecordings, active : BOOLEAN, frames : 0..MaxFrames, limit : Limits \cup {0}]
    <3>1. status \in [recording : 0..MaxRecordings, active : BOOLEAN, frames : 0..MaxFrames, limit : Limits \cup {0}]
      BY DEF VideoTypeOK
    <3>2. (status.active /\ ~full) \in BOOLEAN
      OBVIOUS
    <3> QED BY <2>1, <2>3, <3>1, <3>2
  <2>7. VideoTypeOK'
    <3>1. accepted' \in [Recordings -> Seq(1..MaxFrames)]
      BY <2>1, <2>2, <2>5 DEF VideoTypeOK
    <3>2. Len(queue') <= MaxQueue
      BY <1>b, <2>4, Types, VideoAssumption
    <3>3. active' \in BOOLEAN
      BY <2>1 DEF VideoTypeOK
    <3>4. writer' \in {"none", "ready", "asleep", "writing", "failed", "done"}
      BY <2>1 DEF VideoTypeOK
    <3> QED BY <2>1, <2>4, <2>6, <3>1, <3>2, <3>3, <3>4 DEF VideoTypeOK
  <2>8. Counted'
    BY <2>1, <2>3, <2>6, Types DEF Counted
  <2>9. Locked' /\ Staged' /\ Writing' /\ Sunk'
    BY <2>1, <2>2, <2>6 DEF Locked, Staged, Writing, Sunk
  <2>10. Emptied'
    <3>1. writer # "done" /\ \A d \in Callers : within[d] # "close"
      BY <1>b DEF Writing, Staged
    <3> QED BY <2>1, <3>1 DEF Emptied
  <2>11. Framed'
    <3>1. Len(written[sink]) \in Nat /\ Len(accepted[sink]) \in Nat /\ Len(queue) \in Nat
      BY <2>2, Types
    <3>2. Begun'
      BY <2>1, <2>5, <3>1 DEF Framed, Begun
    <3>3. Settled'
      BY <2>1, <2>2, <2>5, Types DEF Framed, Settled, Recordings
    <3>4. InHand' = InHand /\ InHand \in {0, 1} /\ (writer' = "writing" <=> writer = "writing")
      BY <2>1 DEF InHand
    <3>5. ASSUME sink \notin failed
          PROVE  /\ Len(accepted'[sink]) = Len(written[sink]) + InHand + Len(queue')
                 /\ writer = "writing" => accepted'[sink][Len(written[sink]) + 1] = inhand
                 /\ \A i \in 1..Len(queue') : accepted'[sink][Len(written[sink]) + InHand + i] = queue'[i]
      <4>1. /\ Len(accepted[sink]) = Len(written[sink]) + InHand + Len(queue)
            /\ writer = "writing" => accepted[sink][Len(written[sink]) + 1] = inhand
            /\ \A i \in 1..Len(queue) : accepted[sink][Len(written[sink]) + InHand + i] = queue[i]
        BY <2>2, <3>5 DEF Framed, InFlight, Recordings
      <4>2. Len(accepted'[sink]) = Len(written[sink]) + InHand + Len(queue')
        <5>1. Len(accepted'[sink]) = Len(accepted[sink]) + 1 /\ Len(queue') = Len(queue) + 1
          BY <2>4, <2>5
        <5>2. InHand \in Nat
          BY <3>4
        <5>3. Len(accepted[sink]) = Len(written[sink]) + InHand + Len(queue)
          BY <4>1
        <5>4. (Len(written[sink]) + InHand + Len(queue)) + 1 = Len(written[sink]) + InHand + (Len(queue) + 1)
          BY <3>1, <5>2, Places
        <5> QED BY <5>1, <5>3, <5>4
      <4>3. writer = "writing" => Len(written[sink]) + 1 \in 1..Len(accepted[sink])
        BY <3>1, <4>1 DEF InHand
      <4>4. \A i \in 1..Len(queue) : Len(written[sink]) + InHand + i \in 1..Len(accepted[sink])
        BY <3>1, <3>4, <4>1
      <4>5. ASSUME NEW i \in 1..Len(queue')
            PROVE  accepted'[sink][Len(written[sink]) + InHand + i] = queue'[i]
        <5>1. CASE i \in 1..Len(queue)
          BY <2>4, <2>5, <4>1, <4>4, <5>1
        <5>2. CASE i = Len(queue) + 1
          <6>1. Len(written[sink]) + InHand + i = Len(accepted[sink]) + 1
            <7>1. InHand \in Nat
              BY <3>4
            <7>2. (Len(written[sink]) + InHand + Len(queue)) + 1 = Len(written[sink]) + InHand + (Len(queue) + 1)
              BY <3>1, <7>1, Places
            <7> QED BY <4>1, <5>2, <7>2
          <6> QED BY <2>4, <2>5, <5>2, <6>1
        <5> QED BY <2>4, <3>1, <5>1, <5>2
      <4> QED BY <2>5, <4>1, <4>2, <4>3, <4>5
    <3>6. InFlight'
      BY <2>1, <3>4, <3>5 DEF InFlight
    <3> QED BY <3>2, <3>3, <3>6 DEF Framed
  <2> QED BY <2>7, <2>8, <2>9, <2>10, <2>11
<1> QED BY <1>a, <1>b

\* The writer takes one.
LEMMA TakeFrameKeeps ==
  ASSUME VideoInv, TakeFrame
  PROVE  VideoInv'
<1> USE DEF VideoInv, NoSink
<1>1. VideoTypeOK'
  <2>1. CASE queue # <<>>
    <3>1. Head(queue) \in 1..MaxFrames /\ Tail(queue) \in Seq(1..MaxFrames) /\ Len(Tail(queue)) = Len(queue) - 1
      BY <2>1, Types, HeadTailProperties
    <3>2. Len(Tail(queue)) <= MaxQueue
      BY <3>1, Types, VideoAssumption DEF VideoTypeOK
    <3>3. /\ writer' = "writing" /\ inhand' = Head(queue) /\ queue' = Tail(queue)
          /\ UNCHANGED <<callerVars, sink, active, status, finishing, written, failed, pusherVars, closed>>
      BY <2>1 DEF TakeFrame
    <3>4. inhand' \in 0..MaxFrames /\ queue' \in Seq(1..MaxFrames) /\ Len(queue') <= MaxQueue
      BY <3>1, <3>2, <3>3, Types
    <3> QED BY <3>3, <3>4 DEF VideoTypeOK, callerVars, pusherVars
  <2>2. CASE queue = <<>>
    BY <2>2 DEF VideoTypeOK, TakeFrame, callerVars, pusherVars
  <2> QED BY <2>1, <2>2
<1>2. Counted'
  BY Types DEF Counted, TakeFrame, callerVars, sharedVars, writerVars, pusherVars
<1>3. Locked'
  BY DEF Locked, VideoTypeOK, TakeFrame, callerVars, sharedVars, writerVars, pusherVars
<1>4. Staged'
  BY Types DEF Staged, Locked, Writing, Sunk, VideoTypeOK, Started, TakeFrame, callerVars, sharedVars, writerVars, pusherVars
<1>5. Writing'
  BY DEF Writing, Locked, Staged, Sunk, VideoTypeOK, TakeFrame, callerVars, sharedVars, writerVars, pusherVars
<1>6. Sunk'
  BY Types DEF Sunk, Staged, Started, VideoTypeOK, Recordings, TakeFrame, callerVars, sharedVars, writerVars, pusherVars
<1>7. Framed'
  <2>1. CASE queue = <<>>
    BY <2>1, FramesStay DEF InHand, Started, TakeFrame, pusherVars
  <2>2. CASE queue # <<>>
    <3>1. /\ writer = "ready" /\ writer' = "writing" /\ inhand' = Head(queue) /\ queue' = Tail(queue)
          /\ UNCHANGED <<sink, status, written, failed, accepted>>
      BY <2>2 DEF TakeFrame, pusherVars
    <3>2. /\ Len(queue') = Len(queue) - 1 /\ Len(queue) \in Nat \ {0} /\ inhand' = queue[1]
          /\ \A i \in 1..Len(queue') : queue'[i] = queue[i + 1]
      <4>1. Len(queue) \in Nat \ {0}
        BY <2>2, Types, EmptySeq
      <4>2. Len(Tail(queue)) = Len(queue) - 1 /\ \A i \in 1..Len(Tail(queue)) : Tail(queue)[i] = queue[i + 1]
        BY <2>2, Types, HeadTailProperties
      <4> QED BY <3>1, <4>1, <4>2
    <3>3. Begun' /\ Settled'
      BY <3>1 DEF Framed, Begun, Settled, Started
    <3>4. ASSUME sink # NoSink, sink \notin failed
          PROVE  /\ Len(accepted[sink]) = Len(written[sink]) + 1 + Len(queue')
                 /\ accepted[sink][Len(written[sink]) + 1] = inhand'
                 /\ \A i \in 1..Len(queue') : accepted[sink][Len(written[sink]) + 1 + i] = queue'[i]
      <4>1. /\ Len(accepted[sink]) = Len(written[sink]) + Len(queue)
            /\ \A i \in 1..Len(queue) : accepted[sink][Len(written[sink]) + i] = queue[i]
            /\ Len(written[sink]) \in Nat
        <5>1. InHand = 0 /\ Len(written[sink]) \in Nat
          BY <3>1, <3>4, Types DEF InHand, VideoTypeOK
        <5> QED BY <3>4, <5>1, Types DEF Framed, InFlight
      <4>2. Len(accepted[sink]) = Len(written[sink]) + 1 + Len(queue')
        BY <3>2, <4>1
      <4>3. accepted[sink][Len(written[sink]) + 1] = inhand'
        BY <3>2, <4>1
      <4>4. ASSUME NEW i \in 1..Len(queue') PROVE accepted[sink][Len(written[sink]) + 1 + i] = queue'[i]
        <5>1. Len(written[sink]) \in Nat /\ i \in 1..(Len(queue) - 1) /\ Len(queue) \in Nat
          BY <3>2, <4>1
        <5>2. i + 1 \in 1..Len(queue) /\ Len(written[sink]) + (i + 1) = Len(written[sink]) + 1 + i
          BY <5>1, Places
        <5> QED BY <3>2, <4>1, <5>2
      <4> QED BY <4>2, <4>3, <4>4
    <3>5. InFlight'
      BY <3>1, <3>4 DEF InFlight, InHand
    <3> QED BY <3>3, <3>5 DEF Framed
  <2> QED BY <2>1, <2>2
<1>8. Emptied'
  BY DEF Emptied, Staged, Writing, Locked, VideoTypeOK, TakeFrame, callerVars, sharedVars, writerVars, pusherVars
<1> QED BY <1>1, <1>2, <1>3, <1>4, <1>5, <1>6, <1>7, <1>8

\* It writes it.
LEMMA WriteFrameKeeps ==
  ASSUME VideoInv, WriteFrame
  PROVE  VideoInv'
<1> USE DEF VideoInv, NoSink
<1>a. sink \in Recordings /\ sink = Started /\ sink # NoSink /\ sink \notin failed /\ writer = "writing"
  BY DEF WriteFrame, Writing, Sunk, VideoTypeOK
<1>b. inhand \in 1..MaxFrames
  <2>1. /\ Len(accepted[sink]) = Len(written[sink]) + 1 + Len(queue)
        /\ accepted[sink][Len(written[sink]) + 1] = inhand
    BY <1>a DEF Framed, InFlight, InHand
  <2>2. Len(written[sink]) + 1 \in 1..Len(accepted[sink]) /\ accepted[sink] \in Seq(1..MaxFrames)
    BY <1>a, <2>1, Types
  <2> QED BY <2>1, <2>2, ElementOfSeq
<1>1. VideoTypeOK'
  <2>1. written' \in [Recordings -> Seq(1..MaxFrames)]
    <3>1. \A r \in Recordings : Append(written[r], inhand) \in Seq(1..MaxFrames)
      BY <1>b, Types
    <3>2. CASE written' = [r \in Recordings |-> IF r = sink THEN Append(written[r], inhand) ELSE written[r]]
      BY <3>1, <3>2, Types
    <3>3. CASE written' = written
      BY <3>3 DEF VideoTypeOK
    <3> QED BY <3>2, <3>3 DEF WriteFrame
  <2>2. failed' \subseteq Recordings /\ writer' \in {"ready", "failed"}
    BY <1>a DEF WriteFrame, VideoTypeOK
  <2> QED BY <2>1, <2>2 DEF VideoTypeOK, WriteFrame, callerVars, sharedVars, pusherVars
<1>2. Counted'
  BY Types DEF Counted, WriteFrame, callerVars, sharedVars, writerVars, pusherVars
<1>3. Locked'
  BY DEF Locked, VideoTypeOK, WriteFrame, callerVars, sharedVars, writerVars, pusherVars
<1>4. Staged'
  BY Types DEF Staged, Locked, Writing, Sunk, VideoTypeOK, Started, WriteFrame, callerVars, sharedVars, writerVars, pusherVars
<1>5. Writing'
  BY DEF Writing, Locked, Staged, Sunk, VideoTypeOK, WriteFrame, callerVars, sharedVars, writerVars, pusherVars
<1>6. Sunk'
  <2>1. failed' \subseteq failed \cup {sink} /\ UNCHANGED <<sink, status, closed>>
    BY DEF WriteFrame, sharedVars
  <2>2. sink \in 1..Started
    BY <1>a, Types DEF Recordings
  <2> QED BY <2>1, <2>2 DEF Sunk, Started
<1>7. Framed'
  <2>0. UNCHANGED <<sink, queue, status, accepted, inhand>>
    BY DEF WriteFrame, sharedVars, pusherVars
  <2>1. /\ Len(accepted[sink]) = Len(written[sink]) + 1 + Len(queue)
        /\ accepted[sink][Len(written[sink]) + 1] = inhand
        /\ \A i \in 1..Len(queue) : accepted[sink][Len(written[sink]) + 1 + i] = queue[i]
        /\ Len(written[sink]) \in Nat /\ Len(queue) \in Nat /\ written[sink] \in Seq(1..MaxFrames)
    BY <1>a, Types DEF Framed, InFlight, InHand
  <2>2. CASE written' = [r \in Recordings |-> IF r = sink THEN Append(written[r], inhand) ELSE written[r]]
             /\ writer' = "ready" /\ failed' = failed
    <3>1. /\ Len(written'[sink]) = Len(written[sink]) + 1
          /\ \A i \in 1..Len(written[sink]) : written'[sink][i] = written[sink][i]
          /\ written'[sink][Len(written[sink]) + 1] = inhand
          /\ \A r \in Recordings : r # sink => written'[r] = written[r]
      <4>1. written'[sink] = Append(written[sink], inhand) /\ \A r \in Recordings : r # sink => written'[r] = written[r]
        BY <1>a, <2>2
      <4> QED BY <1>b, <2>1, <4>1
    <3>2. Begun'
      <4>1. Len(written'[sink]) <= Len(accepted[sink])
        BY <2>1, <3>1
      <4>2. ASSUME NEW i \in 1..Len(written'[sink]) PROVE written'[sink][i] = accepted[sink][i]
        <5>1. CASE i \in 1..Len(written[sink])
          BY <1>a, <3>1, <5>1 DEF Framed, Begun
        <5>2. CASE i = Len(written[sink]) + 1
          BY <2>1, <3>1, <5>2
        <5> QED BY <2>1, <3>1, <5>1, <5>2
      <4> QED BY <2>0, <3>1, <4>1, <4>2 DEF Framed, Begun
    <3>3. Settled'
      BY <2>0, <2>2, <3>1 DEF Framed, Settled, Started
    <3>4. InFlight'
      <4>1. InHand' = 0 /\ writer' # "writing"
        BY <2>2 DEF InHand
      <4>2. Len(accepted[sink]) = Len(written'[sink]) + 0 + Len(queue)
        BY <2>1, <3>1
      <4>3. ASSUME NEW i \in 1..Len(queue) PROVE accepted[sink][Len(written'[sink]) + 0 + i] = queue[i]
        <5>1. Len(written'[sink]) + 0 + i = Len(written[sink]) + 1 + i
          BY <2>1, <3>1
        <5> QED BY <2>1, <5>1
      <4> QED BY <2>0, <4>1, <4>2, <4>3 DEF InFlight
    <3> QED BY <3>2, <3>3, <3>4 DEF Framed
  <2>3. CASE writer' = "failed" /\ failed' = failed \cup {sink} /\ written' = written
    <3>1. Begun' /\ Settled'
      BY <2>0, <2>3 DEF Framed, Begun, Settled, Started
    <3>2. InFlight'
      BY <2>0, <2>3 DEF InFlight
    <3> QED BY <3>1, <3>2 DEF Framed
  <2> QED BY <2>2, <2>3 DEF WriteFrame
<1>8. Emptied'
  BY DEF Emptied, Staged, Writing, Locked, VideoTypeOK, WriteFrame, callerVars, sharedVars, writerVars, pusherVars
<1> QED BY <1>1, <1>2, <1>3, <1>4, <1>5, <1>6, <1>7, <1>8

\* It gives up.
LEMMA GiveUpKeeps ==
  ASSUME VideoInv, GiveUp
  PROVE  VideoInv'
<1> USE DEF VideoInv, NoSink
<1>1. VideoTypeOK'
  BY Types DEF VideoTypeOK, GiveUp, callerVars, sharedVars, writerVars, pusherVars
<1>2. Counted'
  BY Types DEF Counted, GiveUp, callerVars, sharedVars, writerVars, pusherVars
<1>3. Locked'
  BY DEF Locked, VideoTypeOK, GiveUp, callerVars, sharedVars, writerVars, pusherVars
<1>4. Staged'
  BY Types DEF Staged, Locked, Writing, Sunk, VideoTypeOK, Started, GiveUp, callerVars, sharedVars, writerVars, pusherVars
<1>5. Writing'
  BY DEF Writing, Locked, Staged, Sunk, VideoTypeOK, GiveUp, callerVars, sharedVars, writerVars, pusherVars
<1>6. Sunk'
  BY Types DEF Sunk, Staged, Started, VideoTypeOK, Recordings, GiveUp, callerVars, sharedVars, writerVars, pusherVars
<1>7. Framed'
  BY FramesStay DEF InHand, Started, VideoTypeOK, GiveUp, callerVars, sharedVars, writerVars, pusherVars
<1>8. Emptied'
  BY DEF Emptied, Staged, Writing, Locked, VideoTypeOK, GiveUp, callerVars, sharedVars, writerVars, pusherVars
<1> QED BY <1>1, <1>2, <1>3, <1>4, <1>5, <1>6, <1>7, <1>8

-----------------------------------------------------------------------------
(* The theorems.                                                           *)

\* Nothing has been recorded.
LEMMA InitKeeps == ASSUME VideoInit PROVE VideoInv
<1>1. Len(<<>>) = 0 /\ <<>> \in Seq(1..MaxFrames)
  BY EmptySeq
<1>2. VideoTypeOK
  <2>1. accepted \in [Recordings -> Seq(1..MaxFrames)] /\ written \in [Recordings -> Seq(1..MaxFrames)]
    BY <1>1 DEF VideoInit
  <2>2. closed \in [Recordings -> Nat]
    BY DEF VideoInit
  <2>3. 0 \in 0..MaxFrames /\ 0 \in 0..MaxRecordings
    BY VideoAssumption
  <2>4. status \in [recording : 0..MaxRecordings, active : BOOLEAN, frames : 0..MaxFrames, limit : Limits \cup {0}]
    BY <2>3 DEF VideoInit
  <2>5. queue \in Seq(1..MaxFrames) /\ Len(queue) <= MaxQueue
    BY <1>1, VideoAssumption DEF VideoInit
  <2>6. within \in [Callers -> {"idle", "look", "end", "notify", "join", "close", "open", "spawn", "report"}]
        /\ op \in [Callers -> {"start", "stop", "status"}]
    BY DEF VideoInit
  <2> QED BY <2>1, <2>2, <2>3, <2>4, <2>5, <2>6 DEF VideoInit, VideoTypeOK
<1>3. Counted
  BY DEF VideoInit, Counted
<1>4. Locked /\ Staged
  BY DEF VideoInit, Locked, Staged
<1>5. Writing /\ Sunk
  <2>1. \A r \in Recordings : r > 0
    BY DEF Recordings
  <2>2. Writing
    BY DEF VideoInit, Writing, NoSink
  <2> QED BY <2>1, <2>2 DEF VideoInit, Sunk, Started, NoSink, Recordings
<1>6. Framed /\ Emptied
  BY <1>1 DEF VideoInit, Framed, Begun, Settled, InFlight, Emptied, NoSink
<1> QED BY <1>2, <1>3, <1>4, <1>5, <1>6 DEF VideoInv

\* The inductive invariant of the recorder: one caller at a time, what it can
\* count on at each place of start, stop and status, the writer's sink, and
\* where each accepted frame is: in the file, in hand or in the queue.
THEOREM VideoInvariance == VideoSpec => []VideoInv
<1>1. VideoInit => VideoInv
  BY InitKeeps
<1>2. VideoInv /\ [VideoNext]_videoVars => VideoInv'
  <2> SUFFICES ASSUME VideoInv, [VideoNext]_videoVars PROVE VideoInv'
    OBVIOUS
  <2>1. ASSUME NEW c \in Callers, CallerStep(c) PROVE VideoInv'
    BY <2>1, EndRecordingKeeps, NotifyWriterKeeps, LookEndedKeeps, JoinWriterKeeps,
       CloseSinkKeeps, OpenSinkKeeps, SpawnWriterKeeps, ReportKeeps DEF CallerStep
  <2>2. ASSUME NEW c \in Callers, NEW kind \in {"start", "stop", "status"}, Begin(c, kind) PROVE VideoInv'
    BY <2>2, BeginKeeps
  <2>3. CASE OfferFrame \/ Push
    BY <2>3, OfferFrameKeeps, PushKeeps
  <2>4. CASE WriterStep
    BY <2>4, TakeFrameKeeps, WriteFrameKeeps, GiveUpKeeps DEF WriterStep
  <2>5. CASE UNCHANGED videoVars
    <3>1. UNCHANGED <<within, op, lifecycle, sink, queue, active, status, finishing,
                      writer, inhand, written, failed, emulator, frame, accepted, closed>>
      BY <2>5 DEF videoVars, callerVars, sharedVars, writerVars, pusherVars
    <3>2. VideoTypeOK' /\ Counted' /\ Locked' /\ Staged' /\ Writing' /\ Sunk' /\ Emptied'
      BY <3>1 DEF VideoInv, VideoTypeOK, Counted, Locked, Staged, Writing, Sunk, Emptied, Started
    <3>3. Framed'
      BY <3>1, FramesStay DEF VideoInv, InHand, Started
    <3> QED BY <3>2, <3>3 DEF VideoInv
  <2> QED BY <2>1, <2>2, <2>3, <2>4, <2>5 DEF VideoNext
<1> QED BY <1>1, <1>2, PTL DEF VideoSpec

\* The recorder's state is what video_recorder.h declares, its queue within
\* MAX_QUEUED_FRAMES.
THEOREM VideoTypeCorrect == VideoSpec => []VideoTypeOK
<1>1. VideoInv => VideoTypeOK
  BY DEF VideoInv
<1> QED BY <1>1, VideoInvariance, PTL

\* A recording's file holds the frames push accepted for it, in order and no
\* other's; after its sink is closed all of them, unless a write failed; and
\* finish closes each sink once, when its writer is gone.
THEOREM RecordingsAreWhole == VideoSpec => []RecordingIsWhole
<1>1. VideoInv => WrittenAsAccepted
  <2> SUFFICES ASSUME VideoInv, NEW r \in Recordings
               PROVE  /\ Len(written[r]) <= Len(accepted[r])
                      /\ written[r] = SubSeq(accepted[r], 1, Len(written[r]))
    BY DEF WrittenAsAccepted
  <2> DEFINE n == Len(written[r])
             part == SubSeq(accepted[r], 1, n)
  <2>1. /\ n \in Nat /\ written[r] \in Seq(1..MaxFrames)
        /\ Len(accepted[r]) \in Nat /\ accepted[r] \in Seq(1..MaxFrames)
    BY Types DEF VideoInv
  <2>2. n <= Len(accepted[r]) /\ \A i \in 1..n : written[r][i] = accepted[r][i]
    BY DEF VideoInv, Framed, Begun
  <2>3. \A i \in 1..n : accepted[r][i] \in 1..MaxFrames
    <3>1. \A i \in 1..n : i \in 1..Len(accepted[r])
      BY <2>1, <2>2
    <3> QED BY <2>1, <3>1, ElementOfSeq
  <2>4. part \in Seq(1..MaxFrames) /\ Len(part) = n /\ \A i \in 1..n : part[i] = accepted[r][i]
    <3>1. 1 \in Int /\ n \in Int
      BY <2>1
    <3> HIDE DEF n
    <3>2. /\ part \in Seq(1..MaxFrames)
          /\ Len(part) = IF 1 <= n THEN n - 1 + 1 ELSE 0
          /\ \A i \in 1..(n - 1 + 1) : part[i] = accepted[r][1 + i - 1]
      BY <2>3, <3>1, SubSeqProperties
    <3>3. n \in Nat
      BY <2>1 DEF n
    <3>4. Len(part) = n /\ \A i \in 1..n : i \in 1..(n - 1 + 1) /\ 1 + i - 1 = i
      BY <3>2, <3>3
    <3> QED BY <3>2, <3>4
  <2> HIDE DEF part
  <2>5. written[r] = part
    BY <2>1, <2>2, <2>4, SeqEqual
  <2> QED BY <2>2, <2>5 DEF part
<1>2. VideoInv => NothingLost
  BY DEF VideoInv, Sunk, Framed, Settled, NothingLost
<1>3. VideoInv => ClosedOnce
  BY DEF VideoInv, Sunk, Writing, ClosedOnce
<1> QED BY <1>1, <1>2, <1>3, VideoInvariance, PTL DEF RecordingIsWhole

-----------------------------------------------------------------------------
(* Sound.                                                                  *)

\* A ring is well made, and holds the newest of m samples.
RingOk(r) ==
  /\ DOMAIN r = {"cap", "buf", "head", "size"}
  /\ r.cap \in Nat \ {0} /\ r.head \in 0..(r.cap - 1) /\ r.size \in 0..r.cap
  /\ r.buf \in [0..(r.cap - 1) -> Nat]
HasNewest(r, m) ==
  r.size <= m /\ \A k \in 1..r.size : r.buf[(r.head + k - 1) % r.cap] = m - r.size + k

SoundTypes ==
  /\ made \in Nat /\ normal \in BOOLEAN /\ clock \in Nat /\ faithful \in BOOLEAN
  /\ paced \in [at : {"run", "look", "hold"}, on : Nat, stuck : Nat]
  /\ device \in [at : {"closed", "opened", "clocked", "open", "lost", "unpaced"},
                 n : Nat, padding : Nat, buffered : Nat, stalls : Nat]
  /\ taken \in [last : Nat, missed : BOOLEAN]

RingsKept ==
  /\ \A s \in DOMAIN rings : RingOk(rings[s]) /\ HasNewest(rings[s], made)
  /\ "device" \in DOMAIN rings => rings["device"].cap = DeviceCap

\* A stream has its sink from open to close, and the clock in between.
Attached ==
  /\ device.at # "closed" <=> "device" \in DOMAIN rings
  /\ device.at # "closed" => device.n # 0
  /\ clock # NoStream => clock = device.n /\ device.at \in {"clocked", "open", "lost"}

\* Nothing made since a stream was opened, while its ring is empty.
Fresh ==
  device.at = "opened" => /\ ~taken.missed
                          /\ rings["device"].size = 0 => taken.last = made

\* A faithful clock leaves room for what is made next.
Faithful ==
  faithful =>
    /\ clock # NoStream /\ ~taken.missed /\ taken.last = made - rings["device"].size
    /\ paced.at = "run" => rings["device"].size <= Target
    /\ paced.at = "hold" /\ paced.stuck > 0 => rings["device"].size = 0

SoundInv == SoundTypes /\ RingsKept /\ Attached /\ Fresh /\ Faithful

-----------------------------------------------------------------------------
(* Going round a ring.                                                     *)

LEMMA Round ==
  ASSUME NEW c \in Nat \ {0}, NEW h \in 0..(c - 1), NEW a \in 0..c
  PROVE  /\ h + a < c => (h + a) % c = h + a
         /\ h + a >= c => (h + a) % c = h + a - c
         /\ (h + a) % c \in 0..(c - 1)
<1>1. h + a \in Nat /\ c \in Nat /\ h + a < 2 * c
  OBVIOUS
<1>2. ASSUME h + a < c PROVE (h + a) % c = h + a
  BY <1>1, <1>2
<1>3. ASSUME h + a >= c PROVE (h + a) % c = h + a - c
  BY <1>1, <1>3
<1> QED BY <1>1, <1>2, <1>3

\* Going on from where one has gone.
LEMMA RoundAgain ==
  ASSUME NEW c \in Nat \ {0}, NEW h \in 0..(c - 1), NEW a \in 0..c, NEW b \in 0..c, a + b <= c
  PROVE  (((h + a) % c) + b) % c = (h + (a + b)) % c
<1> DEFINE g == (h + a) % c
<1>1. /\ h + a < c => g = h + a
      /\ h + a >= c => g = h + a - c
      /\ g \in 0..(c - 1)
  BY Round
<1> HIDE DEF g
<1>2. /\ g + b < c => (g + b) % c = g + b
      /\ g + b >= c => (g + b) % c = g + b - c
  BY <1>1, Round
<1>3. a + b \in 0..c
  OBVIOUS
<1>4. /\ h + (a + b) < c => (h + (a + b)) % c = h + (a + b)
      /\ h + (a + b) >= c => (h + (a + b)) % c = h + (a + b) - c
  BY <1>3, Round
<1>5. (g + b) % c = (h + (a + b)) % c
  BY <1>1, <1>2, <1>4
<1> QED BY <1>5 DEF g

\* Two different steps lead to two different cells.
LEMMA RoundApart ==
  ASSUME NEW c \in Nat \ {0}, NEW h \in 0..(c - 1), NEW a \in 0..(c - 1), NEW b \in 0..(c - 1), a # b
  PROVE  (h + a) % c # (h + b) % c
<1>1. a \in 0..c /\ b \in 0..c
  OBVIOUS
<1> DEFINE x == (h + a) % c
           y == (h + b) % c
<1>2. /\ h + a < c => x = h + a
      /\ h + a >= c => x = h + a - c
  BY <1>1, Round
<1>3. /\ h + b < c => y = h + b
      /\ h + b >= c => y = h + b - c
  BY <1>1, Round
<1> HIDE DEF x, y
<1>4. x # y
  BY <1>2, <1>3
<1> QED BY <1>4 DEF x, y

LEMMA MinOfTwo ==
  ASSUME NEW a \in Nat, NEW b \in Nat
  PROVE  Min({a, b}) = IF a <= b THEN a ELSE b
  BY DEF Min

-----------------------------------------------------------------------------
(* What is read of a ring.                                                 *)

LEMMA ReadKeeps ==
  ASSUME NEW r, NEW m \in Nat, RingOk(r), HasNewest(r, m), NEW max \in Nat
  PROVE  LET read == RingRead(r, max)
         IN /\ RingOk(read.ring) /\ HasNewest(read.ring, m)
            /\ read.ring.cap = r.cap /\ read.ring.size <= r.size
            /\ read.out = <<>> => read.ring.size = r.size
            /\ read.out # <<>> => read.out[1] = m - r.size + 1 /\ read.out[Len(read.out)] = m - read.ring.size
<1> DEFINE n == Min({r.size, max})
           c == r.cap
           h == (r.head + n) % c
           b == [i \in DOMAIN r.buf |-> IF \E k \in 0..(n - 1) : (r.head + k) % c = i THEN 0 ELSE r.buf[i]]
           q == [r EXCEPT !.head = h, !.size = r.size - n, !.buf = b]
           out == SubSeq(Held(r), 1, n)
<1>1. RingRead(r, max) = [out |-> out, ring |-> q]
  BY DEF RingRead
<1>2. n \in Nat /\ n <= r.size /\ r.size \in Nat /\ r.size <= c /\ c \in Nat \ {0} /\ r.head \in 0..(c - 1)
  <2>1. r.size \in Nat /\ r.size <= c /\ c \in Nat \ {0} /\ r.head \in 0..(c - 1)
    BY DEF RingOk
  <2>2. n = IF r.size <= max THEN r.size ELSE max
    BY <2>1, MinOfTwo
  <2> QED BY <2>1, <2>2
<1>3. q.head = h /\ q.size = r.size - n /\ q.buf = b /\ q.cap = c /\ DOMAIN q = DOMAIN r
  BY DEF RingOk
<1> HIDE DEF n, q, out, h, b
<1>4. h \in 0..(c - 1)
  <2>1. n \in 0..c
    BY <1>2
  <2> QED BY <1>2, <2>1, Round DEF h
<1>5. b \in [0..(c - 1) -> Nat] /\ \A i \in 0..(c - 1) : (\A k \in 0..(n - 1) : (r.head + k) % c # i) => b[i] = r.buf[i]
  BY DEF RingOk, b
<1>6. RingOk(q)
  BY <1>2, <1>3, <1>4, <1>5 DEF RingOk
<1>7. HasNewest(q, m)
  <2> SUFFICES ASSUME NEW k \in 1..(r.size - n) PROVE b[(h + k - 1) % c] = m - (r.size - n) + k
    BY <1>2, <1>3 DEF HasNewest
  <2> DEFINE j == n + (k - 1)
             i == (r.head + j) % c
  <2>1. k \in Nat /\ k - 1 \in 0..c /\ n \in 0..c /\ n + (k - 1) <= c /\ j \in 0..(c - 1) /\ j \in 0..c
        /\ j + 1 \in 1..r.size
    BY <1>2
  <2>2. (h + (k - 1)) % c = i
    BY <1>2, <2>1, RoundAgain DEF h
  <2>3. i \in 0..(c - 1)
    BY <1>2, <2>1, Round
  <2>4. ASSUME NEW p \in 0..(n - 1) PROVE (r.head + p) % c # i
    <3>1. p \in 0..(c - 1) /\ p # j
      BY <1>2, <2>1
    <3> QED BY <1>2, <2>1, <3>1, RoundApart
  <2>5. b[i] = r.buf[i]
    BY <1>5, <2>3, <2>4
  <2>6. r.buf[(r.head + (j + 1) - 1) % c] = m - r.size + (j + 1)
    BY <2>1 DEF HasNewest
  <2>7. r.head + (j + 1) - 1 = r.head + j /\ h + k - 1 = h + (k - 1)
    BY <1>2, <1>4, <2>1
  <2>8. m - r.size + (j + 1) = m - (r.size - n) + k
    BY <1>2, <2>1
  <2> QED BY <2>2, <2>5, <2>6, <2>7, <2>8
<1>8. ASSUME n # 0
      PROVE out # <<>> /\ out[1] = m - r.size + 1 /\ out[Len(out)] = m - (r.size - n)
  <2> DEFINE held == Held(r)
  <2>1. /\ held \in Seq(Nat) /\ Len(held) = r.size
        /\ \A k \in 1..r.size : held[k] = m - r.size + k
    <3>1. held = [k \in 1..r.size |-> r.buf[(r.head + k - 1) % r.cap]]
      BY DEF Held
    <3>2. \A k \in 1..r.size : held[k] = m - r.size + k /\ held[k] \in Nat
      BY <1>2, <3>1 DEF HasNewest
    <3>3. held \in [1..r.size -> Nat]
      BY <3>1, <3>2
    <3>4. held \in Seq(Nat) /\ Len(held) = r.size
      BY <1>2, <3>3
    <3> QED BY <3>2, <3>4
  <2> HIDE DEF held
  <2>2. Len(out) = n /\ \A k \in 1..n : out[k] = held[k]
    BY <1>2, <1>8, <2>1 DEF out, held
  <2> QED BY <1>2, <1>8, <2>1, <2>2
<1>9. n = 0 => out = <<>> /\ q.size = r.size
  <2> SUFFICES ASSUME n = 0 PROVE out = <<>>
    BY <1>2, <1>3
  <2> QED BY DEF out, Held
<1> QED BY <1>1, <1>2, <1>3, <1>6, <1>7, <1>8, <1>9

-----------------------------------------------------------------------------
(* What is written into one.                                               *)

LEMMA WriteKeeps ==
  ASSUME NEW r, NEW m \in Nat, RingOk(r), HasNewest(r, m), NEW len \in Nat \ {0}
  PROVE  LET q == RingWrite(r, [k \in 1..len |-> m + k])
         IN /\ RingOk(q) /\ HasNewest(q, m + len)
            /\ q.cap = r.cap /\ q.size # 0
            /\ r.size + len <= r.cap => q.size = r.size + len
<1> DEFINE xs == [k \in 1..len |-> m + k]
           c == r.cap
           n == Min({Len(xs), c})
           from == IF Len(xs) >= c THEN [r EXCEPT !.head = 0, !.size = 0] ELSE r
           drop == IF from.size + n > c THEN from.size + n - c ELSE 0
           old == from.size - drop
           h == (from.head + drop) % c
           w == (h + from.size - drop) % c
           b == [i \in 0..(c - 1) |->
                   IF \E k \in 1..n : (w + k - 1) % c = i
                   THEN Newest(xs, n)[CHOOSE k \in 1..n : (w + k - 1) % c = i] ELSE r.buf[i]]
           q == [r EXCEPT !.head = h, !.size = from.size - drop + n, !.buf = b]
<1>1. RingWrite(r, xs) = q
  BY DEF RingWrite
<1>2. xs \in Seq(Nat) /\ Len(xs) = len /\ \A k \in 1..len : xs[k] = m + k
  <2>1. xs \in [1..len -> Nat]
    OBVIOUS
  <2> QED BY <2>1
<1>3. c \in Nat \ {0} /\ r.head \in 0..(c - 1) /\ r.size \in 0..c
  BY DEF RingOk
<1> HIDE DEF xs
<1>4. n = IF len <= c THEN len ELSE c
  BY <1>2, <1>3, MinOfTwo
<1>5. /\ from.cap = c /\ from.buf = r.buf /\ DOMAIN from = {"cap", "buf", "head", "size"}
      /\ len >= c => from.head = 0 /\ from.size = 0
      /\ len < c => from.head = r.head /\ from.size = r.size
  BY <1>2, <1>3 DEF RingOk
<1> HIDE DEF n, from
<1>6. n \in 1..c /\ from.head \in 0..(c - 1) /\ from.size \in 0..c
  BY <1>3, <1>4, <1>5
<1>7. drop \in 0..from.size /\ old \in 0..c /\ old + n <= c /\ (from.size + n <= c => drop = 0)
  BY <1>6, <1>3
<1>8. q.head = h /\ q.size = old + n /\ q.buf = b /\ q.cap = c /\ DOMAIN q = {"cap", "buf", "head", "size"}
  BY DEF RingOk
<1> HIDE DEF drop, q, b, h
<1>9. h \in 0..(c - 1)
  <2>1. drop \in 0..c
    BY <1>3, <1>6, <1>7
  <2> QED BY <1>3, <1>6, <2>1, Round DEF h
<1>10. w = (h + old) % c /\ w \in 0..(c - 1)
  <2>1. h + from.size - drop = h + old
    BY <1>6, <1>7, <1>9
  <2> QED BY <1>3, <1>7, <1>9, <2>1, Round
<1> HIDE DEF w, old
\* The cells written, and what is put there.
<1>11. ASSUME NEW k \in 1..n
       PROVE  (w + k - 1) % c = (h + (old + (k - 1))) % c /\ (w + k - 1) % c \in 0..(c - 1)
  <2>1. k - 1 \in 0..c /\ old + (k - 1) <= c /\ w + k - 1 = w + (k - 1) /\ old + (k - 1) \in 0..c
    BY <1>3, <1>6, <1>7, <1>10
  <2>2. (w + (k - 1)) % c = (h + (old + (k - 1))) % c
    BY <1>3, <1>7, <1>9, <1>10, <2>1, RoundAgain
  <2>3. (w + (k - 1)) % c \in 0..(c - 1)
    BY <1>3, <1>10, <2>1, Round
  <2> QED BY <2>1, <2>2, <2>3
<1>12. ASSUME NEW k \in 1..n, NEW j \in 1..n, (w + k - 1) % c = (w + j - 1) % c PROVE k = j
  <2> SUFFICES ASSUME k # j PROVE FALSE
    OBVIOUS
  <2>1. k - 1 \in 0..(c - 1) /\ j - 1 \in 0..(c - 1) /\ k - 1 # j - 1
        /\ w + k - 1 = w + (k - 1) /\ w + j - 1 = w + (j - 1)
    BY <1>3, <1>6, <1>10
  <2> QED BY <1>3, <1>10, <1>12, <2>1, RoundApart
<1>13. Len(Newest(xs, n)) = n /\ \A k \in 1..n : Newest(xs, n)[k] = m + (len - n + k)
  <2>1. len - n + 1 \in 1..len /\ len \in 1..len /\ n <= len /\ n \in Nat
    BY <1>3, <1>4
  <2>2. Newest(xs, n) = SubSeq(xs, len - n + 1, len)
    BY <1>2 DEF Newest
  <2>3. /\ Len(SubSeq(xs, len - n + 1, len)) = len - (len - n + 1) + 1
        /\ \A k \in 1..(len - (len - n + 1) + 1) : SubSeq(xs, len - n + 1, len)[k] = xs[k + (len - n + 1) - 1]
    BY <1>2, <2>1
  <2>4. len - (len - n + 1) + 1 = n
    BY <2>1
  <2>5. ASSUME NEW k \in 1..n PROVE Newest(xs, n)[k] = m + (len - n + k)
    <3>1. k + (len - n + 1) - 1 = len - n + k /\ len - n + k \in 1..len
      BY <1>6, <2>1
    <3> QED BY <1>2, <2>2, <2>3, <2>4, <3>1
  <2> QED BY <2>2, <2>3, <2>4, <2>5
<1>14. ASSUME NEW k \in 1..n PROVE b[(w + k - 1) % c] = m + (len - n + k)
  <2> DEFINE i == (w + k - 1) % c
  <2>1. i \in 0..(c - 1)
    BY <1>11
  <2>2. (CHOOSE j \in 1..n : (w + j - 1) % c = i) = k
    BY <1>12
  <2> QED BY <1>13, <2>1, <2>2 DEF b
<1>15. ASSUME NEW i \in 0..(c - 1), \A k \in 1..n : (w + k - 1) % c # i PROVE b[i] = r.buf[i]
  BY <1>15 DEF b
<1>16. b \in [0..(c - 1) -> Nat]
  <2>1. ASSUME NEW i \in 0..(c - 1) PROVE b[i] \in Nat
    <3>1. CASE \A k \in 1..n : (w + k - 1) % c # i
      BY <1>15, <3>1 DEF RingOk
    <3>2. ASSUME NEW k \in 1..n, (w + k - 1) % c = i PROVE b[i] \in Nat
      <4>1. m + (len - n + k) \in Nat
        BY <1>4, <1>6, <1>3
      <4> QED BY <1>14, <3>2, <4>1
    <3> QED BY <3>1, <3>2
  <2> QED BY <2>1 DEF b
<1>17. RingOk(q)
  BY <1>3, <1>6, <1>7, <1>8, <1>9, <1>16 DEF RingOk
<1>18. HasNewest(q, m + len)
  <2>1. old + n <= m + len
    BY <1>3, <1>4, <1>5, <1>6, <1>7 DEF HasNewest, old
  <2>2. ASSUME NEW k \in 1..(old + n) PROVE b[(h + k - 1) % c] = (m + len) - (old + n) + k
    <3>0. k \in Nat /\ h + k - 1 = h + (k - 1) /\ k - 1 \in 0..(c - 1) /\ k - 1 \in 0..c
      BY <1>3, <1>6, <1>7, <1>9
    <3>1. CASE k > old
      <4> DEFINE j == k - old
      <4>1. j \in 1..n /\ old + (j - 1) = k - 1
        BY <1>7, <1>6, <3>1
      <4>2. b[(h + (k - 1)) % c] = m + (len - n + j)
        BY <1>11, <1>14, <4>1
      <4>3. m + (len - n + j) = (m + len) - (old + n) + k
        BY <1>6, <1>7, <4>1
      <4> QED BY <3>0, <4>2, <4>3
    <3>2. CASE k <= old
      <4> DEFINE i == (h + (k - 1)) % c
                 p == drop + (k - 1)
      <4>1. len < c /\ from.head = r.head /\ from.size = r.size /\ n = len
        BY <1>3, <1>4, <1>5, <1>7, <3>0, <3>2 DEF old
      <4>2. i \in 0..(c - 1)
        BY <1>3, <1>9, <3>0, Round
      <4>3. ASSUME NEW j \in 1..n PROVE (w + j - 1) % c # i
        <5>1. old + (j - 1) \in 0..(c - 1) /\ old + (j - 1) # k - 1
          BY <1>3, <1>6, <1>7, <3>0, <3>2
        <5>2. (h + (old + (j - 1))) % c # i
          BY <1>3, <1>9, <3>0, <5>1, RoundApart
        <5> QED BY <1>11, <5>2
      <4>4. b[i] = r.buf[i]
        BY <1>15, <4>2, <4>3
      <4>5. drop \in 0..c /\ p \in 0..c /\ p + 1 \in 1..r.size /\ drop + (k - 1) <= c
        BY <1>3, <1>7, <3>0, <3>2, <4>1 DEF old
      <4>6. i = (r.head + p) % c
        <5>1. (((r.head + drop) % c) + (k - 1)) % c = (r.head + (drop + (k - 1))) % c
          BY <1>3, <3>0, <4>5, RoundAgain
        <5> QED BY <4>1, <5>1 DEF h
      <4>7. r.buf[(r.head + (p + 1) - 1) % c] = m - r.size + (p + 1)
        BY <4>5 DEF HasNewest
      <4>8. r.head + (p + 1) - 1 = r.head + p
        BY <1>3, <4>5
      <4>9. m - r.size + (p + 1) = (m + len) - (old + n) + k
        BY <1>3, <1>7, <3>0, <4>1, <4>5 DEF old
      <4> QED BY <3>0, <4>4, <4>6, <4>7, <4>8, <4>9
    <3> QED BY <1>7, <3>0, <3>1, <3>2
  <2>3. \A k \in 1..(old + n) : b[(h + k - 1) % c] = (m + len) - (old + n) + k
    BY <2>2
  <2>4. q.size <= m + len /\ \A k \in 1..q.size : q.buf[(q.head + k - 1) % q.cap] = (m + len) - q.size + k
    <3> HIDE DEF c
    <3> QED BY ONLY <1>8, <2>1, <2>3
  <2> QED BY <2>4 DEF HasNewest
<1>19. q.size # 0 /\ (r.size + len <= c => q.size = r.size + len)
  BY <1>3, <1>4, <1>5, <1>6, <1>7, <1>8 DEF old
<1> QED BY <1>1, <1>8, <1>17, <1>18, <1>19 DEF xs

-----------------------------------------------------------------------------
(* The invariant, step by step.                                            *)

LEMMA SoundStarts == SoundInit => SoundInv
<1> SUFFICES ASSUME SoundInit PROVE SoundInv
  OBVIOUS
<1>1. DOMAIN rings = {}
  BY DEF SoundInit
<1>2. SoundTypes
  BY DEF SoundInit, SoundTypes, NoStream
<1> QED BY <1>1, <1>2 DEF SoundInit, SoundInv, RingsKept, Attached, Fresh, Faithful

LEMMA SmallRing ==
  ASSUME NEW cap \in Nat \ {0}, NEW m \in Nat
  PROVE  /\ RingOk(EmptyRing(cap)) /\ HasNewest(EmptyRing(cap), m)
         /\ EmptyRing(cap).cap = cap /\ EmptyRing(cap).size = 0
  BY DEF RingOk, HasNewest, EmptyRing

\* A block is made and put into every ring.
LEMMA Published ==
  ASSUME SoundInv, NEW n \in Blocks, Publish(n)
  PROVE  SoundInv'
<1> USE DEF SoundInv
<1>1. n \in Nat \ {0} /\ made \in Nat /\ Target \in Nat /\ Target + n <= DeviceCap
  BY SoundAssumption DEF SoundTypes
<1>2. SoundTypes'
  <2>1. paced' \in [at : {"run", "look", "hold"}, on : Nat, stuck : Nat]
    BY DEF SoundTypes, Publish
  <2>2. made' \in Nat
    BY <1>1 DEF Publish
  <2> QED BY <2>1, <2>2 DEF SoundTypes, Publish
<1>3. CASE normal /\ rings # <<>>
  <2> DEFINE xs == [k \in 1..n |-> made + k]
  <2>1. made' = made + n /\ DOMAIN rings' = DOMAIN rings
        /\ \A s \in DOMAIN rings : rings'[s] = RingWrite(rings[s], xs)
    BY <1>3 DEF Publish
  <2>2. ASSUME NEW s \in DOMAIN rings
        PROVE  /\ RingOk(rings'[s]) /\ HasNewest(rings'[s], made')
               /\ rings'[s].cap = rings[s].cap /\ rings'[s].size # 0
               /\ rings[s].size + n <= rings[s].cap => rings'[s].size = rings[s].size + n
    <3>1. RingOk(rings[s]) /\ HasNewest(rings[s], made)
      BY DEF RingsKept
    <3> DEFINE q == RingWrite(rings[s], xs)
    <3>2. /\ RingOk(q) /\ HasNewest(q, made + n)
          /\ q.cap = rings[s].cap /\ q.size # 0
          /\ rings[s].size + n <= rings[s].cap => q.size = rings[s].size + n
      BY <1>1, <3>1, WriteKeeps
    <3>3. rings'[s] = q
      BY <2>1
    <3> HIDE DEF q
    <3> QED BY <2>1, <3>2, <3>3
  <2> HIDE DEF xs
  <2>3. RingsKept'
    <3>1. ASSUME NEW s \in DOMAIN rings' PROVE RingOk(rings'[s]) /\ HasNewest(rings'[s], made')
      BY <2>1, <2>2
    <3>2. "device" \in DOMAIN rings' => rings'["device"].cap = DeviceCap
      BY <2>1, <2>2 DEF RingsKept
    <3> QED BY <3>1, <3>2 DEF RingsKept
  <2>4. Attached'
    BY <2>1 DEF Attached, Publish
  <2>5. Fresh'
    BY <2>2 DEF Fresh, Attached, Publish
  <2>6. Faithful'
    <3> SUFFICES ASSUME faithful
                 PROVE  taken.last = made' - rings'["device"].size
      BY DEF Faithful, Publish
    <3>1. "device" \in DOMAIN rings
      BY DEF Faithful, Attached
    <3>2. rings["device"].size <= Target /\ rings["device"].cap = DeviceCap /\ rings["device"].size \in Nat
          /\ taken.last = made - rings["device"].size
      BY <3>1 DEF Faithful, Publish, RingsKept, RingOk
    <3>3. DeviceCap \in Nat
      BY SoundAssumption
    <3>4. rings'["device"].size = rings["device"].size + n
      BY <1>1, <2>2, <3>1, <3>2, <3>3
    <3> QED BY <1>1, <2>1, <3>2, <3>4
  <2> QED BY <1>2, <2>3, <2>4, <2>5, <2>6
<1>4. CASE ~(normal /\ rings # <<>>)
  <2>1. UNCHANGED <<made, rings, normal, clock, timeouts, device, stalled, taken, faithful>>
        /\ paced'.at = "look"
    BY <1>4 DEF Publish, SoundTypes
  <2> QED BY <1>2, <2>1 DEF RingsKept, Attached, Fresh, Faithful
<1> QED BY <1>3, <1>4

\* The machine holds on a copy of the clock, and goes on: with a faithful
\* clock only when there is room again.
LEMMA Paced ==
  ASSUME SoundInv, EmulatorPaces
  PROVE  SoundInv'
<1> USE DEF SoundInv
<1>1. CASE LookAtClock
  <2>1. UNCHANGED <<made, normal, clock, device, rings, taken>>
        /\ faithful' \in BOOLEAN /\ (faithful' => faithful /\ normal)
        /\ paced' \in [at : {"run", "look", "hold"}, on : Nat, stuck : Nat]
        /\ (normal /\ clock # NoStream => paced'.at = "hold" /\ paced'.stuck = 0)
    <3>1. faithful' \in BOOLEAN /\ (faithful' => faithful /\ normal)
      BY <1>1 DEF LookAtClock
    <3>2. CASE normal /\ clock # NoStream
      <4>1. paced' = [at |-> "hold", on |-> clock, stuck |-> 0] /\ clock \in Nat
        BY <1>1, <3>2 DEF LookAtClock, SoundTypes
      <4> QED BY <1>1, <3>1, <4>1 DEF LookAtClock
    <3>3. CASE ~(normal /\ clock # NoStream)
      <4>1. paced' = [paced EXCEPT !.at = "run"]
        BY <1>1, <3>3 DEF LookAtClock
      <4>2. paced' \in [at : {"run", "look", "hold"}, on : Nat, stuck : Nat]
        BY <4>1 DEF SoundTypes
      <4> QED BY <1>1, <3>1, <3>3, <4>2 DEF LookAtClock
    <3> QED BY <3>2, <3>3
  <2>2. SoundTypes' /\ RingsKept'
    BY <2>1 DEF SoundTypes, RingsKept
  <2>3. Attached'
    BY <2>1 DEF Attached
  <2>4. Fresh'
    BY <2>1 DEF Fresh
  <2>5. Faithful'
    BY <2>1 DEF Faithful
  <2> QED BY <2>2, <2>3, <2>4, <2>5
<1>2. CASE Drained
  <2>1. UNCHANGED <<made, normal, clock, device, rings, taken, faithful>>
        /\ paced' \in [at : {"run", "look", "hold"}, on : Nat, stuck : Nat]
        /\ paced'.at = "run" /\ paced.at = "hold" /\ Reading <= Target
    BY <1>2 DEF Drained, SoundTypes
  <2>2. ASSUME faithful PROVE rings["device"].size <= Target
    <3>1. "device" \in DOMAIN rings
      BY <2>2 DEF Faithful, Attached
    <3>2. rings["device"].size \in Nat /\ device.buffered \in Nat /\ Target \in Nat /\ paced.stuck \in Nat
      BY <3>1, SoundAssumption DEF RingsKept, RingOk, SoundTypes
    <3>3. CASE paced.stuck > 0
      BY <2>1, <2>2, <3>2, <3>3 DEF Faithful
    <3>4. CASE paced.stuck = 0
      <4>1. Reading = device.buffered + rings["device"].size
        BY <3>1, <3>4 DEF Reading
      <4> QED BY <2>1, <3>2, <4>1
    <3> QED BY <3>2, <3>3, <3>4
  <2> QED BY <2>1, <2>2 DEF SoundTypes, RingsKept, Attached, Fresh, Faithful
<1>3. CASE TimeOut
  <2>1. UNCHANGED <<made, normal, device, rings, taken>> /\ faithful' = FALSE
        /\ paced' \in [at : {"run", "look", "hold"}, on : Nat, stuck : Nat]
        /\ clock' \in {NoStream, clock} /\ clock' \in Nat
    <3>1. clock' \in {NoStream, clock} /\ clock' \in Nat
      BY <1>3 DEF TimeOut, SoundTypes, NoStream
    <3>2. paced' \in [at : {"run", "look", "hold"}, on : Nat, stuck : Nat]
      BY <1>3 DEF TimeOut, SoundTypes
    <3> QED BY <1>3, <3>1, <3>2 DEF TimeOut
  <2>2. SoundTypes' /\ RingsKept'
    BY <2>1 DEF SoundTypes, RingsKept, NoStream
  <2>3. Attached'
    BY <2>1 DEF Attached, NoStream
  <2>4. Fresh'
    BY <2>1 DEF Fresh
  <2>5. Faithful'
    BY <2>1 DEF Faithful
  <2> QED BY <2>2, <2>3, <2>4, <2>5
<1> QED BY <1>1, <1>2, <1>3 DEF EmulatorPaces

\* What the device is given follows what it was given last.
LEMMA Rendered ==
  ASSUME SoundInv, Render
  PROVE  SoundInv'
<1> USE DEF SoundInv
<1> DEFINE max  == Buffer - device.padding
           r    == rings["device"]
           read == RingRead(r, max)
<1>1. device.at = "open" /\ "device" \in DOMAIN rings /\ max \in Nat /\ made \in Nat
  BY SoundAssumption DEF Render, Attached, SoundTypes
<1>2. RingOk(r) /\ HasNewest(r, made) /\ r.cap = DeviceCap /\ r.size \in Nat
  BY <1>1 DEF RingsKept, RingOk
<1>3. /\ RingOk(read.ring) /\ HasNewest(read.ring, made)
      /\ read.ring.cap = r.cap /\ read.ring.size <= r.size
      /\ read.out = <<>> => read.ring.size = r.size
      /\ read.out # <<>> => read.out[1] = made - r.size + 1 /\ read.out[Len(read.out)] = made - read.ring.size
  <2> HIDE DEF max, r
  <2> QED BY <1>1, <1>2, ReadKeeps
<1>4. /\ rings' = [rings EXCEPT !["device"] = read.ring]
      /\ taken' = IF read.out = <<>> THEN taken
                  ELSE [last |-> read.out[Len(read.out)],
                        missed |-> taken.missed \/ read.out[1] # taken.last + 1]
  BY DEF Render, TakeSamples
<1>5. UNCHANGED <<made, normal, paced, clock, timeouts, stalled, faithful>>
      /\ device' = [device EXCEPT !.padding = Buffer, !.buffered = Buffer]
  BY DEF Render
<1> HIDE DEF max, read
<1>6. read.ring.size \in Nat /\ made - read.ring.size \in Nat
  BY <1>1, <1>3 DEF RingOk, HasNewest
<1>7. SoundTypes'
  <2>1. taken' \in [last : Nat, missed : BOOLEAN]
    BY <1>3, <1>4, <1>6 DEF SoundTypes
  <2>2. device' \in [at : {"closed", "opened", "clocked", "open", "lost", "unpaced"},
                     n : Nat, padding : Nat, buffered : Nat, stalls : Nat]
    BY <1>5, SoundAssumption DEF SoundTypes
  <2> QED BY <1>5, <2>1, <2>2 DEF SoundTypes
<1>8. device'.at = "open" /\ device'.n = device.n
  BY <1>1, <1>5 DEF SoundTypes
<1>9. DOMAIN rings' = DOMAIN rings /\ rings'["device"] = read.ring
      /\ \A s \in DOMAIN rings \ {"device"} : rings'[s] = rings[s]
  BY <1>1, <1>4
<1>10. RingsKept'
  BY <1>2, <1>3, <1>5, <1>9 DEF RingsKept
<1>11. Attached'
  BY <1>1, <1>5, <1>8, <1>9 DEF Attached
<1>12. Fresh'
  BY <1>8 DEF Fresh
<1>13. Faithful'
  <2> SUFFICES ASSUME faithful
               PROVE  ~taken'.missed /\ taken'.last = made - read.ring.size
    <3>1. faithful' = faithful /\ clock' = clock /\ paced' = paced /\ made' = made /\ rings'["device"] = read.ring
      BY <1>5, <1>9
    <3>2. Target \in Nat /\ (r.size <= Target => read.ring.size <= Target) /\ (r.size = 0 => read.ring.size = 0)
      BY <1>2, <1>3, <1>6, SoundAssumption
    <3> QED BY <3>1, <3>2 DEF Faithful
  <2>1. ~taken.missed /\ taken.last = made - r.size
    BY DEF Faithful
  <2>2. CASE read.out = <<>>
    BY <1>3, <1>4, <2>1, <2>2
  <2>3. CASE read.out # <<>>
    BY <1>1, <1>2, <1>3, <1>4, <2>1, <2>3
  <2> QED BY <2>2, <2>3
<1> QED BY <1>7, <1>10, <1>11, <1>12, <1>13

\* A stream closes after its clock is gone, and the next starts with an empty ring.
LEMMA Reopened ==
  ASSUME SoundInv, Reopens
  PROVE  SoundInv'
<1> USE DEF SoundInv
<1> DEFINE Devices == [at : {"closed", "opened", "clocked", "open", "lost", "unpaced"},
                       n : Nat, padding : Nat, buffered : Nat, stalls : Nat]
<1>1. CASE UnsetClock
  <2>1. UNCHANGED <<made, normal, paced, rings, taken>> /\ faithful' = FALSE /\ clock' = NoStream
        /\ device' \in Devices /\ device'.at = "unpaced" /\ device'.n = device.n /\ device.at = "lost"
    BY <1>1 DEF UnsetClock, SoundTypes
  <2> QED BY <2>1 DEF SoundTypes, RingsKept, Attached, Fresh, Faithful, NoStream
<1>2. CASE Close
  <2>1. UNCHANGED <<made, normal, clock, taken, faithful>>
        /\ device' \in Devices /\ device'.at = "closed" /\ device.at = "unpaced"
        /\ rings' = [x \in DOMAIN rings \ {"device"} |-> rings[x]]
    BY <1>2 DEF Close, RemoveSink, SoundTypes
  <2>2. clock = NoStream /\ ~faithful
    BY <2>1 DEF Attached, Faithful
  <2>3. "device" \in DOMAIN rings
    BY <2>1 DEF Attached
  <2>4. Reading \in Nat
    <3>1. rings["device"].size \in Nat
      BY <2>3 DEF RingsKept, RingOk
    <3> QED BY <2>3, <3>1 DEF Reading, SoundTypes
  <2>5. paced' \in [at : {"run", "look", "hold"}, on : Nat, stuck : Nat]
    BY <1>2, <2>4 DEF Close, SoundTypes
  <2>6. SoundTypes'
    BY <2>1, <2>5 DEF SoundTypes
  <2>7. RingsKept'
    BY <2>1 DEF RingsKept
  <2> QED BY <2>1, <2>2, <2>6, <2>7 DEF Attached, Fresh, Faithful
<1>3. CASE Open
  <2>1. UNCHANGED <<made, normal, paced, clock, faithful>>
        /\ device' \in Devices /\ device'.at = "opened" /\ device'.n # 0 /\ device.at = "closed"
        /\ rings' = [x \in DOMAIN rings \cup {"device"} |-> IF x = "device" THEN EmptyRing(DeviceCap) ELSE rings[x]]
        /\ taken' = [last |-> made, missed |-> FALSE]
    <3>1. device' = [device EXCEPT !.at = "opened", !.n = @ + 1, !.stalls = 0] /\ device.n \in Nat
          /\ device \in Devices /\ device.at = "closed"
      BY <1>3 DEF Open, SoundTypes
    <3>2. device' \in Devices /\ device'.at = "opened" /\ device'.n # 0
      <4>1. device'.at = "opened" /\ device'.n = device.n + 1
        BY <3>1
      <4>2. device' = [at |-> "opened", n |-> device.n + 1, padding |-> device.padding,
                       buffered |-> device.buffered, stalls |-> 0]
        BY <3>1
      <4>3. device' \in Devices
        BY <3>1, <4>2
      <4> QED BY <3>1, <4>1, <4>3
    <3>3. rings' = [x \in DOMAIN rings \cup {"device"} |-> IF x = "device" THEN EmptyRing(DeviceCap) ELSE rings[x]]
          /\ taken' = [last |-> made, missed |-> FALSE]
      BY <1>3 DEF Open, AddSink
    <3> QED BY <1>3, <3>1, <3>2, <3>3 DEF Open
  <2>2. clock = NoStream /\ ~faithful
    BY <2>1 DEF Attached, Faithful
  <2>3. SoundTypes'
    BY <2>1 DEF SoundTypes
  <2>4. DOMAIN rings' = DOMAIN rings \cup {"device"} /\ rings'["device"] = EmptyRing(DeviceCap)
        /\ \A s \in DOMAIN rings \ {"device"} : rings'[s] = rings[s]
    BY <2>1
  <2>5. RingOk(EmptyRing(DeviceCap)) /\ HasNewest(EmptyRing(DeviceCap), made)
        /\ EmptyRing(DeviceCap).cap = DeviceCap /\ EmptyRing(DeviceCap).size = 0
    BY SoundAssumption, SmallRing DEF SoundTypes
  <2>6. RingsKept'
    BY <2>1, <2>4, <2>5 DEF RingsKept
  <2> QED BY <2>1, <2>2, <2>3, <2>4, <2>5, <2>6 DEF Attached, Fresh, Faithful
<1>4. CASE SetClock
  <2>1. UNCHANGED <<made, normal, paced, rings, taken>>
        /\ device' \in Devices /\ device'.at = "clocked" /\ device'.n = device.n /\ device.at = "opened"
        /\ clock' = device.n /\ faithful' = (rings["device"].size = 0)
    BY <1>4 DEF SetClock, SoundTypes
  <2>2. SoundTypes' /\ RingsKept' /\ Attached' /\ Fresh'
    BY <2>1 DEF SoundTypes, RingsKept, Attached, Fresh
  <2>3. Faithful'
    BY <2>1, SoundAssumption DEF SoundTypes, Attached, Fresh, Faithful, NoStream
  <2> QED BY <2>2, <2>3
<1>5. CASE StartDevice
  <2>1. UNCHANGED <<made, normal, paced, clock, rings, taken, faithful>>
        /\ device' \in Devices /\ device'.at \in {"open", "lost"} /\ device'.n = device.n /\ device.at = "clocked"
    BY <1>5 DEF StartDevice, SoundTypes
  <2> QED BY <2>1 DEF SoundTypes, RingsKept, Attached, Fresh, Faithful
<1> QED BY <1>1, <1>2, <1>3, <1>4, <1>5 DEF Reopens

\* The device plays, stalls, recovers or goes away.
LEMMA DeviceMoved ==
  ASSUME SoundInv, Play \/ Stall \/ Recover \/ Lose
  PROVE  SoundInv'
<1> USE DEF SoundInv
<1>1. UNCHANGED <<made, normal, paced, clock, rings, taken, faithful>>
  BY DEF Play, Stall, Recover, Lose
<1>2. /\ device' \in [at : {"closed", "opened", "clocked", "open", "lost", "unpaced"},
                      n : Nat, padding : Nat, buffered : Nat, stalls : Nat]
      /\ device'.n = device.n
      /\ device'.at = device.at \/ (device.at = "open" /\ device'.at = "lost")
  <2>1. CASE Play
    <3>1. device.padding - 1 \in Nat
      BY <2>1 DEF Play, SoundTypes
    <3> QED BY <2>1, <3>1 DEF Play, SoundTypes
  <2>2. CASE Stall
    BY <2>2 DEF Stall, SoundTypes
  <2>3. CASE Recover
    BY <2>3 DEF Recover, SoundTypes
  <2>4. CASE Lose
    BY <2>4 DEF Lose, SoundTypes
  <2> QED BY <2>1, <2>2, <2>3, <2>4
<1>3. SoundTypes' /\ RingsKept'
  BY <1>1, <1>2 DEF SoundTypes, RingsKept
<1>4. Attached'
  BY <1>1, <1>2 DEF Attached
<1>5. Fresh'
  BY <1>1, <1>2 DEF Fresh
<1>6. Faithful'
  BY <1>1 DEF Faithful
<1> QED BY <1>3, <1>4, <1>5, <1>6

\* A listener comes, is sent what its ring holds, and goes.
LEMMA Listened ==
  ASSUME SoundInv, Listen \/ SendOn \/ HangUp
  PROVE  SoundInv'
<1> USE DEF SoundInv
<1>1. UNCHANGED <<made, normal, paced, clock, device, taken, faithful>>
  BY DEF Listen, SendOn, HangUp, AddSink, TakeSamples
<1>2. /\ DOMAIN rings' \ {"listener"} = DOMAIN rings \ {"listener"}
      /\ \A s \in DOMAIN rings \ {"listener"} : rings'[s] = rings[s]
      /\ "listener" \in DOMAIN rings' => RingOk(rings'["listener"]) /\ HasNewest(rings'["listener"], made)
  <2>1. CASE Listen
    <3>1. rings' = [x \in DOMAIN rings \cup {"listener"} |->
                      IF x = "listener" THEN EmptyRing(ListenerCap) ELSE rings[x]]
      BY <2>1 DEF Listen, AddSink
    <3>2. RingOk(EmptyRing(ListenerCap)) /\ HasNewest(EmptyRing(ListenerCap), made)
      BY SoundAssumption, SmallRing DEF SoundTypes
    <3> QED BY <3>1, <3>2
  <2>2. CASE SendOn
    <3> DEFINE read == RingRead(rings["listener"], ListenerCap)
    <3>1. "listener" \in DOMAIN rings /\ rings' = [rings EXCEPT !["listener"] = read.ring]
      BY <2>2 DEF SendOn, TakeSamples
    <3>2. RingOk(read.ring) /\ HasNewest(read.ring, made)
      <4>1. RingOk(rings["listener"]) /\ HasNewest(rings["listener"], made)
        BY <3>1 DEF RingsKept
      <4> QED BY <4>1, SoundAssumption, ReadKeeps DEF SoundTypes
    <3> HIDE DEF read
    <3> QED BY <3>1, <3>2
  <2>3. CASE HangUp
    BY <2>3 DEF HangUp, RemoveSink
  <2> QED BY <2>1, <2>2, <2>3
<1>3. ("device" \in DOMAIN rings' <=> "device" \in DOMAIN rings)
      /\ ("device" \in DOMAIN rings => rings'["device"] = rings["device"])
  BY <1>2
<1>4. SoundTypes'
  BY <1>1 DEF SoundTypes
<1>5. RingsKept'
  <2>1. ASSUME NEW s \in DOMAIN rings' PROVE RingOk(rings'[s]) /\ HasNewest(rings'[s], made)
    <3>1. CASE s = "listener"
      BY <1>2, <3>1
    <3>2. CASE s # "listener"
      BY <1>2, <3>2 DEF RingsKept
    <3> QED BY <3>1, <3>2
  <2> QED BY <1>1, <1>3, <2>1 DEF RingsKept
<1>6. Attached'
  BY <1>1, <1>3 DEF Attached
<1>7. Fresh'
  BY <1>1, <1>3 DEF Fresh, Attached
<1>8. Faithful'
  BY <1>1, <1>3 DEF Faithful, Attached
<1> QED BY <1>4, <1>5, <1>6, <1>7, <1>8

LEMMA SoundStep == SoundInv /\ [SoundNext]_soundVars => SoundInv'
<1> SUFFICES ASSUME SoundInv, [SoundNext]_soundVars PROVE SoundInv'
  OBVIOUS
<1>1. CASE \E n \in Blocks : Publish(n)
  BY <1>1, Published
<1>2. CASE EmulatorPaces
  BY <1>2, Paced
<1>3. CASE DeviceRuns
  BY <1>3, Rendered, DeviceMoved DEF DeviceRuns
<1>4. CASE Reopens
  BY <1>4, Reopened
<1>5. CASE Stall \/ Recover \/ Lose
  BY <1>5, DeviceMoved
<1>6. CASE Listen \/ SendOn \/ HangUp
  BY <1>6, Listened
<1>7. CASE SetSpeed
  BY <1>7 DEF SetSpeed, SoundInv, SoundTypes, RingsKept, Attached, Fresh, Faithful
<1>8. CASE UNCHANGED soundVars
  BY <1>8 DEF soundVars, SoundInv, SoundTypes, RingsKept, Attached, Fresh, Faithful
<1> QED BY <1>1, <1>2, <1>3, <1>4, <1>5, <1>6, <1>7, <1>8 DEF SoundNext

\* The invariant holds at every step of the machine, the device and a listener.
THEOREM SoundInvariance == SoundSpec => []SoundInv
<1> QED BY SoundStarts, SoundStep, PTL DEF SoundSpec

\* Every ring holds the newest samples without a gap, the clock is that of a
\* stream that is open, and the device misses no sample while the clock has
\* held every block (AudioRing, publish_audio, pace_wait, render_loop).
THEOREM SoundAlwaysKept == SoundSpec => []SoundKept
<1>1. SoundInv => SoundKept
  <2> SUFFICES ASSUME SoundInv PROVE SoundKept
    OBVIOUS
  <2>1. ASSUME NEW s \in DOMAIN rings
        PROVE  LET r == rings[s] IN
               /\ r.size <= r.cap
               /\ r.size > 0 => Held(r) = [k \in 1..r.size |-> made - r.size + k]
    <3> DEFINE r == rings[s]
    <3>1. RingOk(r) /\ HasNewest(r, made)
      BY DEF SoundInv, RingsKept
    <3>2. r.size <= r.cap
      BY <3>1 DEF RingOk
    <3>3. Held(r) = [k \in 1..r.size |-> made - r.size + k]
      BY <3>1 DEF Held, HasNewest
    <3> QED BY <3>2, <3>3
  <2>2. clock # NoStream => clock = device.n /\ "device" \in DOMAIN rings
    BY DEF SoundInv, Attached
  <2>3. faithful => ~taken.missed /\ taken.last = made - rings["device"].size
    BY DEF SoundInv, Faithful
  <2> QED BY <2>1, <2>2, <2>3 DEF SoundKept
<1> QED BY <1>1, SoundInvariance, PTL

-----------------------------------------------------------------------------
(* Tracing.  Captures are told apart by the order they are opened in, and  *)
(* requests by the order they are made in.  The inductive invariant says   *)
(* where the flag, the pending capture and the two counts stand to each    *)
(* other (Numbered), that a capture is asked for once and by one caller    *)
(* (AskedOnce), and that of the captures asked for only the newest one not *)
(* taken up, and the newest one taken up, can still be open                *)
(* (OlderAreClosed).                                                       *)

Numbered ==
  /\ applied \in 0..Len(asked)
  /\ change_pending <=> applied < Len(asked)
  /\ at = "take" => change_pending
  /\ pending = IF change_pending THEN asked[Len(asked)] ELSE None
  /\ \A c \in Clients :
       pc[c] \in {"post", "wait"} => want[c] \in 1..Len(asked) /\ asked[want[c]] = log[c]

AskedOnce ==
  /\ open \subseteq 1..opened
  /\ \A c \in Clients : log[c] <= opened
  /\ \A i \in 1..Len(asked) : asked[i] <= opened
  /\ trace # None => \E i \in 1..Len(asked) : asked[i] = trace
  /\ \A c \in Busy : log[c] # None =>
       /\ \A i \in 1..Len(asked) : asked[i] # log[c]
       /\ \A d \in Busy : log[d] = log[c] => d = c

OlderAreClosed ==
  \A i \in 1..Len(asked) : asked[i] \in open =>
    \/ i = applied /\ asked[i] = trace
    \/ i = Len(asked) /\ applied < i

TInv == TypeOK /\ Numbered /\ AskedOnce /\ OlderAreClosed

-----------------------------------------------------------------------------
(* The initial state, and the types.                                       *)

\* The initial state satisfies them.
LEMMA InitInv == Init => TInv /\ HookedIsInstalled /\ NoOrphanedCapture
<1> SUFFICES ASSUME Init PROVE TInv /\ HookedIsInstalled /\ NoOrphanedCapture
  OBVIOUS
<1>1. asked = <<>> /\ Len(asked) = 0 /\ asked \in Seq(Captures \cup {None})
  BY EmptySeq DEF Init
<1>2. TypeOK
  <2>1. pc \in [Clients -> {"idle", "request", "post", "wait"}]
    BY DEF Init
  <2>2. log \in [Clients -> Captures \cup {None}] /\ want \in [Clients -> Nat]
    BY DEF Init, None
  <2>3. opened \in 0..MaxRequests /\ applied \in Nat /\ posted \in Nat
    BY TraceAssumption DEF Init
  <2>4. QED BY <1>1, <2>1, <2>2, <2>3 DEF Init, TypeOK
<1>3. Numbered /\ AskedOnce /\ OlderAreClosed
  BY <1>1 DEF Init, Numbered, AskedOnce, OlderAreClosed, Busy, None
<1>4. HookedIsInstalled /\ NoOrphanedCapture
  BY DEF Init, HookedIsInstalled, NoOrphanedCapture
<1>5. QED BY <1>2, <1>3, <1>4 DEF TInv

\* The emulator thread's steps that only move it along.
Passing ==
  /\ UNCHANGED <<clientVars, open, pending, change_pending, applied, trace>>
  /\ hooked' \in {hooked, None}
  /\ at' = "take" => change_pending

\* What a step can be, as the lemmas below take it.
LEMMA StepCases ==
  ASSUME TypeOK, Numbered, [Next]_vars
  PROVE  \/ \E c \in Clients : StartTrace(c) \/ StopTrace(c) \/ RequestTrace(c) \/ PostWake(c) \/ Release(c)
         \/ CaptureFills
         \/ Take
         \/ Passing
<1>1. CASE Pop \/ Yield \/ StartRun \/ EndRun \/ DrainQueue
  BY <1>1 DEF Pop, Yield, StartRun, EndRun, DrainQueue, Passing, emulatorVars, Numbered
<1>2. CASE Look
  BY <1>2 DEF Look, Passing
<1>3. CASE UNCHANGED vars
  BY <1>3 DEF vars, Passing, emulatorVars, Numbered
<1>4. QED BY <1>1, <1>2, <1>3 DEF Next, ClientStep, EmulatorStep

\* Every step keeps the state's shape.
LEMMA StepTypes ==
  ASSUME TInv, [Next]_vars
  PROVE  TypeOK'
<1> USE TraceAssumption DEF TInv, TypeOK, emulatorVars, clientVars
<1>1. ASSUME NEW c \in Clients, StartTrace(c) PROVE TypeOK'
  <2>1. opened + 1 \in 1..MaxRequests
    BY <1>1 DEF StartTrace
  <2>2. QED BY <1>1, <2>1 DEF StartTrace, Captures
<1>2. ASSUME NEW c \in Clients, StopTrace(c) PROVE TypeOK'
  BY <1>2 DEF StopTrace
<1>3. ASSUME NEW c \in Clients, RequestTrace(c) PROVE TypeOK'
  <2>1. asked' \in Seq(Captures \cup {None}) /\ Len(asked') \in Nat
    <3>1. asked' = Append(asked, log[c]) /\ log[c] \in Captures \cup {None}
      BY <1>3 DEF RequestTrace
    <3>2. QED BY <3>1, AppendProperties, LenProperties
  <2>2. QED BY <1>3, <2>1 DEF RequestTrace
<1>4. ASSUME NEW c \in Clients, PostWake(c) PROVE TypeOK'
  BY <1>4 DEF PostWake
<1>5. ASSUME NEW c \in Clients, Release(c) PROVE TypeOK'
  BY <1>5 DEF Release
<1>6. CASE Pop \/ Yield \/ StartRun \/ EndRun
  BY <1>6 DEF Pop, Yield, StartRun, EndRun
<1>7. CASE CaptureFills \/ DrainQueue
  BY <1>7 DEF CaptureFills, DrainQueue
<1>8. CASE Look
  BY <1>8 DEF Look
<1>9. CASE Take
  <2>1. Len(asked) \in Nat
    BY LenProperties
  <2>2. QED BY <1>9, <2>1 DEF Take
<1>10. CASE UNCHANGED vars
  BY <1>10 DEF vars
<1>11. QED BY <1>1, <1>2, <1>3, <1>4, <1>5, <1>6, <1>7, <1>8, <1>9, <1>10 DEF Next, ClientStep, EmulatorStep

-----------------------------------------------------------------------------
(* The invariant.                                                          *)

\* What a request appends to those made.
LEMMA RequestAppends ==
  ASSUME TypeOK, NEW c \in Clients, RequestTrace(c)
  PROVE  /\ Len(asked) \in Nat
         /\ Len(asked') = Len(asked) + 1
         /\ asked'[Len(asked) + 1] = log[c]
         /\ \A i \in 1..Len(asked) : asked'[i] = asked[i]
<1>1. asked' = Append(asked, log[c]) /\ log[c] \in Captures \cup {None}
  BY DEF RequestTrace, TypeOK
<1>2. QED BY <1>1, AppendProperties, LenProperties DEF TypeOK

\* Every step keeps the requests numbered in the order they were made.
LEMMA StepNumbered ==
  ASSUME TInv, [Next]_vars
  PROVE  Numbered'
<1> USE DEF TInv
<1>1. Len(asked) \in Nat
  BY LenProperties DEF TypeOK
<1>2. ASSUME NEW c \in Clients, StartTrace(c) \/ StopTrace(c) PROVE Numbered'
  <2>1. pc'[c] = "request" /\ \A d \in Clients : d # c => pc'[d] = pc[d] /\ log'[d] = log[d]
    BY <1>2 DEF StartTrace, StopTrace, TypeOK
  <2>2. UNCHANGED <<want, asked, applied, change_pending, at, pending>>
    BY <1>2 DEF StartTrace, StopTrace, emulatorVars
  <2>3. QED BY <2>1, <2>2 DEF Numbered
<1>3. ASSUME NEW c \in Clients, RequestTrace(c) PROVE Numbered'
  <2>1. /\ Len(asked') = Len(asked) + 1
        /\ asked'[Len(asked) + 1] = log[c]
        /\ \A i \in 1..Len(asked) : asked'[i] = asked[i]
    BY <1>3, RequestAppends
  <2>2. change_pending' /\ applied' = applied /\ applied \in 0..Len(asked) /\ pending' = log[c]
    BY <1>3 DEF RequestTrace, emulatorVars, Numbered
  <2>3. \A d \in Clients : pc'[d] \in {"post", "wait"} => want'[d] \in 1..Len(asked') /\ asked'[want'[d]] = log'[d]
    <3>1. want'[c] = Len(asked) + 1 /\ log' = log
      BY <1>1, <1>3, <2>1 DEF RequestTrace, TypeOK
    <3>2. \A d \in Clients : d # c => pc'[d] = pc[d] /\ want'[d] = want[d]
      BY <1>3 DEF RequestTrace, TypeOK
    <3>3. QED BY <1>1, <2>1, <3>1, <3>2 DEF Numbered
  <2>4. QED BY <1>1, <2>1, <2>2, <2>3 DEF Numbered
<1>4. ASSUME NEW c \in Clients, PostWake(c) \/ Release(c) PROVE Numbered'
  <2>1. /\ pc[c] \in {"post", "wait"}
        /\ \A d \in Clients : d # c => pc'[d] = pc[d]
    BY <1>4 DEF PostWake, Release, TypeOK
  <2>2. UNCHANGED <<want, log, asked, applied, change_pending, at, pending>>
    BY <1>4 DEF PostWake, Release, emulatorVars
  <2>3. QED BY <2>1, <2>2 DEF Numbered
<1>5. CASE CaptureFills
  BY <1>5 DEF CaptureFills, Numbered, clientVars, emulatorVars
<1>6. CASE Take
  BY <1>1, <1>6 DEF Take, Numbered, clientVars
<1>7. CASE Passing
  BY <1>7 DEF Passing, Numbered, clientVars
<1>8. QED BY <1>2, <1>3, <1>4, <1>5, <1>6, <1>7, StepCases

\* Every step leaves each capture asked for at most once.
LEMMA StepAskedOnce ==
  ASSUME TInv, [Next]_vars
  PROVE  AskedOnce'
<1> USE DEF TInv
<1>1. Len(asked) \in Nat /\ opened \in Nat /\ \A i \in 1..Len(asked) : asked[i] \in Nat
  BY LenProperties, ElementOfSeq, TraceAssumption DEF TypeOK, Captures, None
<1>2. ASSUME NEW c \in Clients, StartTrace(c) PROVE AskedOnce'
  <2>1. opened' = opened + 1 /\ open' = open \cup {opened'} /\ UNCHANGED <<asked, trace>>
    BY <1>2 DEF StartTrace, emulatorVars
  <2>2. /\ log'[c] = opened' /\ Busy' = Busy \cup {c} /\ c \notin Busy
        /\ \A d \in Clients : d # c => log'[d] = log[d]
    BY <1>2 DEF StartTrace, TypeOK, Busy
  <2>3. \A d \in Clients : log[d] \in Nat
    BY DEF TypeOK, Captures, None
  <2>4. open' \subseteq 1..opened'
    BY <1>1, <2>1 DEF AskedOnce
  <2>5. \A d \in Clients : log'[d] <= opened'
    BY <1>1, <2>1, <2>2, <2>3 DEF AskedOnce
  <2>6. \A i \in 1..Len(asked) : asked[i] <= opened' /\ asked[i] # opened'
    BY <1>1, <2>1 DEF AskedOnce
  <2>7. \A d \in Busy : log'[d] = log[d] /\ log[d] # opened'
    BY <1>1, <2>1, <2>2, <2>3 DEF AskedOnce, Busy
  <2>8. QED BY <2>1, <2>2, <2>4, <2>5, <2>6, <2>7 DEF AskedOnce
<1>3. ASSUME NEW c \in Clients, StopTrace(c) PROVE AskedOnce'
  <2>1. log'[c] = None /\ Busy' = Busy \cup {c} /\ \A d \in Clients : d # c => log'[d] = log[d]
    BY <1>3 DEF StopTrace, TypeOK, Busy
  <2>2. UNCHANGED <<opened, open, asked, trace>>
    BY <1>3 DEF StopTrace, emulatorVars
  <2>3. None <= opened
    BY <1>1 DEF None
  <2>4. \A d \in Busy' : log'[d] # None => d \in Busy /\ log'[d] = log[d]
    BY <2>1 DEF Busy
  <2>5. QED BY <2>1, <2>2, <2>3, <2>4 DEF AskedOnce
<1>4. ASSUME NEW c \in Clients, RequestTrace(c) PROVE AskedOnce'
  <2>1. /\ Len(asked') = Len(asked) + 1
        /\ asked'[Len(asked) + 1] = log[c]
        /\ \A i \in 1..Len(asked) : asked'[i] = asked[i]
    BY <1>4, RequestAppends
  <2>2. open' \subseteq open /\ UNCHANGED <<opened, log, trace>>
    BY <1>4 DEF RequestTrace, emulatorVars
  <2>3. c \in Busy /\ Busy' = Busy \ {c}
    BY <1>4 DEF RequestTrace, TypeOK, Busy
  <2>4. \A i \in 1..Len(asked') : asked'[i] <= opened /\ (i <= Len(asked) \/ asked'[i] = log[c])
    BY <1>1, <2>1 DEF AskedOnce
  <2>5. trace # None => \E i \in 1..Len(asked') : asked'[i] = trace
    <3>1. ASSUME trace # None PROVE \E i \in 1..Len(asked') : asked'[i] = trace
      <4>1. PICK i \in 1..Len(asked) : asked[i] = trace
        BY <3>1 DEF AskedOnce
      <4>2. i \in 1..Len(asked') /\ asked'[i] = trace
        BY <1>1, <2>1, <4>1
      <4>3. QED BY <4>2
    <3>2. QED BY <3>1
  <2>6. \A d \in Busy' : log[d] # None =>
          /\ \A i \in 1..Len(asked') : asked'[i] # log[d]
          /\ \A e \in Busy' : log[e] = log[d] => e = d
    <3>1. ASSUME NEW d \in Busy', log[d] # None, NEW i \in 1..Len(asked') PROVE asked'[i] # log[d]
      <4>1. d \in Busy /\ d # c
        BY <2>3
      <4>2. CASE i \in 1..Len(asked)
        BY <2>1, <3>1, <4>1, <4>2 DEF AskedOnce
      <4>3. CASE i = Len(asked) + 1
        BY <2>1, <2>3, <3>1, <4>1, <4>3 DEF AskedOnce
      <4>4. QED BY <1>1, <2>1, <4>2, <4>3
    <3>2. QED BY <2>3, <3>1 DEF AskedOnce
  <2>7. QED BY <2>2, <2>4, <2>5, <2>6 DEF AskedOnce
<1>5. ASSUME NEW c \in Clients, PostWake(c) \/ Release(c) PROVE AskedOnce'
  <2>1. Busy' \subseteq Busy
    BY <1>5 DEF PostWake, Release, TypeOK, Busy
  <2>2. UNCHANGED <<opened, open, log, asked, trace>>
    BY <1>5 DEF PostWake, Release, emulatorVars
  <2>3. QED BY <2>1, <2>2 DEF AskedOnce
<1>6. CASE CaptureFills
  BY <1>6 DEF CaptureFills, AskedOnce, Busy, clientVars, emulatorVars
<1>7. CASE Take
  <2>1. UNCHANGED <<opened, log, asked, pc>> /\ Busy' = Busy /\ open' \subseteq open
    BY <1>7 DEF Take, clientVars, Busy
  <2>2. trace' # None => \E i \in 1..Len(asked) : asked[i] = trace'
    <3>1. CASE trace' = trace
      BY <3>1 DEF AskedOnce
    <3>2. CASE trace' # trace
      <4>1. trace' = pending /\ pending # None
        BY <1>7, <3>2 DEF Take
      <4>2. pending = asked[Len(asked)] /\ Len(asked) \in 1..Len(asked)
        BY <1>1, <4>1 DEF Numbered
      <4>3. QED BY <4>1, <4>2
    <3>3. QED BY <3>1, <3>2
  <2>3. QED BY <2>1, <2>2 DEF AskedOnce
<1>8. CASE Passing
  BY <1>8 DEF Passing, AskedOnce, Busy, clientVars
<1>9. QED BY <1>2, <1>3, <1>4, <1>5, <1>6, <1>7, <1>8, StepCases

\* Every step keeps every capture but the newest taken up closed.
LEMMA StepClosed ==
  ASSUME TInv, [Next]_vars
  PROVE  OlderAreClosed'
<1> USE DEF TInv
<1>1. Len(asked) \in Nat /\ opened \in Nat /\ \A i \in 1..Len(asked) : asked[i] \in Nat
  BY LenProperties, ElementOfSeq, TraceAssumption DEF TypeOK, Captures, None
<1>2. applied \in 0..Len(asked)
  BY DEF Numbered
<1>3. ASSUME open' \subseteq open, UNCHANGED <<asked, applied, trace>> PROVE OlderAreClosed'
  BY <1>3 DEF OlderAreClosed
<1>4. ASSUME NEW c \in Clients, StartTrace(c) PROVE OlderAreClosed'
  <2>1. open' = open \cup {opened + 1} /\ UNCHANGED <<asked, applied, trace>>
    BY <1>4 DEF StartTrace, emulatorVars
  <2>2. \A i \in 1..Len(asked) : asked[i] # opened + 1
    BY <1>1 DEF AskedOnce
  <2>3. QED BY <2>1, <2>2 DEF OlderAreClosed
<1>5. ASSUME NEW c \in Clients, RequestTrace(c) PROVE OlderAreClosed'
  <2>1. /\ Len(asked') = Len(asked) + 1
        /\ asked'[Len(asked) + 1] = log[c]
        /\ \A i \in 1..Len(asked) : asked'[i] = asked[i]
    BY <1>5, RequestAppends
  <2>2. open' = open \ {pending} /\ UNCHANGED <<applied, trace>>
    BY <1>5 DEF RequestTrace, emulatorVars
  <2>3. ASSUME NEW i \in 1..Len(asked), asked'[i] \in open' PROVE i = applied /\ asked'[i] = trace
    <3>1. asked[i] \in open /\ asked[i] # pending
      BY <2>1, <2>2, <2>3
    <3>2. ~(i = Len(asked) /\ applied < i)
      BY <3>1 DEF Numbered
    <3>3. QED BY <2>1, <3>1, <3>2 DEF OlderAreClosed
  <2>4. QED BY <1>1, <1>2, <2>1, <2>2, <2>3 DEF OlderAreClosed
<1>6. CASE Take
  <2>1. /\ open' = open \ {trace} /\ applied' = Len(asked) /\ asked' = asked
        /\ trace' = IF pending = None THEN trace ELSE pending
    BY <1>6 DEF Take, clientVars
  <2>2. ASSUME NEW i \in 1..Len(asked), asked[i] \in open' PROVE i = Len(asked) /\ asked[i] = trace'
    <3>1. asked[i] \in open /\ asked[i] # trace
      BY <2>1, <2>2
    <3>2. i = Len(asked) /\ applied < i
      BY <3>1 DEF OlderAreClosed
    <3>3. pending = asked[i] /\ asked[i] # None
      BY <3>1, <3>2 DEF Numbered, AskedOnce, None
    <3>4. QED BY <2>1, <3>2, <3>3
  <2>3. QED BY <2>1, <2>2 DEF OlderAreClosed
<1>7. CASE \E c \in Clients : StopTrace(c) \/ PostWake(c) \/ Release(c)
  BY <1>3, <1>7 DEF StopTrace, PostWake, Release, emulatorVars
<1>8. CASE CaptureFills
  BY <1>3, <1>8 DEF CaptureFills, clientVars, emulatorVars
<1>9. CASE Passing
  BY <1>3, <1>9 DEF Passing, clientVars
<1>10. QED BY <1>4, <1>5, <1>6, <1>7, <1>8, <1>9, StepCases

-----------------------------------------------------------------------------
(* The theorems.                                                           *)

\* The invariant holds throughout.
THEOREM Invariance == Spec => []TInv
<1>1. TInv /\ [Next]_vars => TInv'
  BY StepTypes, StepNumbered, StepAskedOnce, StepClosed DEF TInv
<1>2. Init => TInv
  BY InitInv
<1>3. QED BY <1>1, <1>2, PTL DEF Spec

\* The state keeps its shape.
THEOREM TypeCorrect == Spec => []TypeOK
<1>1. TInv => TypeOK
  BY DEF TInv
<1>2. QED BY Invariance, <1>1, PTL

\* The plain pointer in the machine never points at a capture that trace_ no
\* longer owns.
THEOREM HookIsSafe == Spec => []HookedIsInstalled
<1>1. Init => HookedIsInstalled
  BY InitInv
<1>2. ASSUME TInv, HookedIsInstalled, [Next]_vars PROVE HookedIsInstalled'
  <2>1. CASE \E c \in Clients : StartTrace(c) \/ StopTrace(c) \/ RequestTrace(c) \/ PostWake(c) \/ Release(c)
    BY <1>2, <2>1 DEF StartTrace, StopTrace, RequestTrace, PostWake, Release, emulatorVars, HookedIsInstalled
  <2>2. CASE CaptureFills
    BY <1>2, <2>2 DEF CaptureFills, emulatorVars, HookedIsInstalled
  <2>3. CASE Take
    BY <2>3 DEF Take, HookedIsInstalled
  <2>4. CASE Passing
    BY <1>2, <2>4 DEF Passing, HookedIsInstalled
  <2>5. QED BY <1>2, <2>1, <2>2, <2>3, <2>4, StepCases DEF TInv
<1>3. QED BY Invariance, <1>1, <1>2, PTL DEF Spec

\* No capture is left open with nobody to close it.
THEOREM NoneOrphaned == Spec => []NoOrphanedCapture
<1>1. Init => NoOrphanedCapture
  BY InitInv
<1>2. ASSUME TInv, NoOrphanedCapture, [Next]_vars PROVE NoOrphanedCapture'
  <2> USE <1>2 DEF NoOrphanedCapture
  <2>1. ASSUME NEW c \in Clients, StartTrace(c) PROVE NoOrphanedCapture'
    <3>1. /\ open' = open \cup {opened'} /\ log'[c] = opened' /\ c \in Busy'
          /\ \A d \in Busy : d \in Busy' /\ log'[d] = log[d]
      BY <2>1 DEF StartTrace, TInv, TypeOK, Busy
    <3>2. UNCHANGED <<trace, pending>>
      BY <2>1 DEF StartTrace, emulatorVars
    <3>3. QED BY <3>1, <3>2
  <2>2. ASSUME NEW c \in Clients, StopTrace(c) PROVE NoOrphanedCapture'
    <3>1. UNCHANGED <<open, trace, pending>> /\ \A d \in Busy : d \in Busy' /\ log'[d] = log[d]
      BY <2>2 DEF StopTrace, TInv, TypeOK, Busy, emulatorVars
    <3>2. QED BY <3>1
  <2>3. ASSUME NEW c \in Clients, RequestTrace(c) PROVE NoOrphanedCapture'
    <3>1. /\ open' = open \ {pending} /\ pending' = log[c] /\ UNCHANGED <<trace, log>>
          /\ \A d \in Busy : d = c \/ d \in Busy'
      BY <2>3 DEF RequestTrace, TInv, TypeOK, Busy, emulatorVars
    <3>2. QED BY <3>1
  <2>4. ASSUME NEW c \in Clients, PostWake(c) \/ Release(c) PROVE NoOrphanedCapture'
    <3>1. UNCHANGED <<open, trace, pending, log>> /\ \A d \in Busy : d \in Busy'
      BY <2>4 DEF PostWake, Release, TInv, TypeOK, Busy, emulatorVars
    <3>2. QED BY <3>1
  <2>5. CASE CaptureFills
    BY <2>5 DEF CaptureFills, Busy, clientVars, emulatorVars
  <2>6. CASE Take
    <3>1. /\ open' = open \ {trace} /\ UNCHANGED log /\ Busy' = Busy
          /\ trace' = IF pending = None THEN trace ELSE pending
      BY <2>6 DEF Take, Busy, clientVars
    <3>2. \A k \in open : k # None
      BY DEF TInv, AskedOnce, None
    <3>3. QED BY <3>1, <3>2
  <2>7. CASE Passing
    BY <2>7 DEF Passing, Busy, clientVars
  <2>8. QED BY <2>1, <2>2, <2>3, <2>4, <2>5, <2>6, <2>7, StepCases DEF TInv
<1>3. QED BY Invariance, <1>1, <1>2, PTL DEF Spec

\* A capture is written while it is open and installed, and closed after.
THEOREM CapturesAlwaysKept == Spec => []CapturesKept
<1>1. HookedIsInstalled /\ NoOrphanedCapture => CapturesKept
  BY DEF CapturesKept
<1>2. QED BY <1>1, HookIsSafe, NoneOrphaned, PTL

\* A caller that returns has been heard: everything asked for before it is
\* closed, and by a stop, everything asked for up to it.
THEOREM ReleasedWereHeard == Spec => ReleasedMeansTaken
<1> DEFINE Heard ==
      \A c \in Clients :
        pc[c] = "wait" /\ pc'[c] = "idle" =>
          \A i \in 1..Len(asked) :
            i < want[c] \/ (i = want[c] /\ log[c] = None) => asked[i] \notin open
<1>1. ASSUME TInv, [Next]_vars PROVE Heard
  <2>1. SUFFICES ASSUME NEW c \in Clients, pc[c] = "wait", pc'[c] = "idle",
                        NEW i \in 1..Len(asked),
                        i < want[c] \/ (i = want[c] /\ log[c] = None)
                 PROVE  asked[i] \notin open
    OBVIOUS
  <2>2. Release(c)
    BY <1>1, <2>1, StepCases
       DEF StartTrace, StopTrace, RequestTrace, PostWake, Release, CaptureFills, Take, Passing, clientVars, TInv, TypeOK
  <2>3. applied >= want[c] /\ applied \in 0..Len(asked) /\ want[c] \in 1..Len(asked) /\ asked[want[c]] = log[c]
    BY <1>1, <2>1, <2>2 DEF Release, TInv, Numbered
  <2>4. Len(asked) \in Nat
    BY <1>1, LenProperties DEF TInv, TypeOK
  <2>5. CASE i < want[c]
    BY <1>1, <2>3, <2>4, <2>5 DEF TInv, OlderAreClosed
  <2>6. CASE i = want[c] /\ log[c] = None
    BY <1>1, <2>3, <2>6 DEF TInv, AskedOnce, None
  <2>7. QED BY <2>1, <2>5, <2>6
<1>2. TInv /\ [Next]_vars => [Heard]_vars
  BY <1>1
<1>3. QED BY Invariance, <1>2, PTL DEF Spec, ReleasedMeansTaken

-----------------------------------------------------------------------------
(* The code's handover implements the abstract one.                        *)

Stages == [c \in Clients |-> Stage(c)]

\* Where each action takes the callers in the abstract handover.
LEMMA StepImplements ==
  ASSUME TInv, [Next]_vars
  PROVE  [Promise!Next]_Stages
<1> USE DEF TInv
<1>1. /\ Len(asked) \in Nat /\ applied \in 0..Len(asked)
      /\ \A c \in Clients : want[c] \in Nat /\ pc[c] \in {"idle", "request", "post", "wait"}
      /\ \A c \in Clients : pc[c] \in {"post", "wait"} => want[c] <= Len(asked)
  BY LenProperties DEF TypeOK, Numbered
<1>2. \A c \in Clients : Stages[c] = Stage(c)
  BY DEF Stages
<1>3. ASSUME \A c \in Clients : Stage(c)' = Stage(c) PROVE Stages' = Stages
  BY <1>3 DEF Stages
<1>4. ASSUME NEW c \in Clients, StartTrace(c) \/ StopTrace(c) \/ PostWake(c) PROVE Stages' = Stages
  <2>1. /\ UNCHANGED <<want, applied>> /\ \A d \in Clients : d # c => pc'[d] = pc[d]
        /\ \/ pc[c] = "idle" /\ pc'[c] = "request"
           \/ pc[c] = "post" /\ pc'[c] = "wait"
    BY <1>4 DEF StartTrace, StopTrace, PostWake, TypeOK, emulatorVars
  <2>2. QED BY <1>3, <2>1 DEF Stage
<1>5. ASSUME NEW c \in Clients, RequestTrace(c) PROVE Promise!Ask(c)
  <2>1. /\ pc[c] = "request" /\ pc'[c] = "post" /\ want'[c] = Len(asked) + 1 /\ applied' = applied
        /\ \A d \in Clients : d # c => pc'[d] = pc[d] /\ want'[d] = want[d]
    BY <1>5, RequestAppends DEF RequestTrace, TypeOK, emulatorVars
  <2>2. ~(want'[c] <= applied')
    BY <1>1, <2>1
  <2>3. Stage(c) = "idle" /\ Stage(c)' = "asked"
    BY <2>1, <2>2 DEF Stage
  <2>4. \A d \in Clients : d # c => Stage(d)' = Stage(d)
    BY <2>1 DEF Stage
  <2>5. QED BY <2>3, <2>4 DEF Promise!Ask, Stages
<1>6. ASSUME NEW c \in Clients, Release(c) PROVE Promise!Release(c)
  <2>1. /\ pc[c] = "wait" /\ pc'[c] = "idle" /\ applied >= want[c] /\ UNCHANGED <<want, applied>>
        /\ \A d \in Clients : d # c => pc'[d] = pc[d]
    BY <1>6 DEF Release, TypeOK, emulatorVars
  <2>2. Stage(c) = "taken" /\ Stage(c)' = "idle"
    BY <1>1, <2>1 DEF Stage
  <2>3. \A d \in Clients : d # c => Stage(d)' = Stage(d)
    BY <2>1 DEF Stage
  <2>4. QED BY <2>2, <2>3 DEF Promise!Release, Stages
<1>7. CASE Take
  <2>1. UNCHANGED <<pc, want>> /\ applied' = Len(asked)
    BY <1>7 DEF Take, clientVars
  <2>2. \A c \in Clients : Stage(c)' = IF Stage(c) = "asked" THEN "taken" ELSE Stage(c)
    BY <1>1, <2>1 DEF Stage
  <2>3. CASE \E c \in Clients : Stage(c) = "asked"
    <3>1. Promise!TakeUp
      BY <2>2, <2>3 DEF Promise!TakeUp, Stages
    <3>2. QED BY <3>1 DEF Promise!Next
  <2>4. CASE \A c \in Clients : Stage(c) # "asked"
    BY <1>3, <2>2, <2>4
  <2>5. QED BY <2>3, <2>4
<1>8. CASE CaptureFills
  BY <1>3, <1>8 DEF CaptureFills, clientVars, emulatorVars, Stage
<1>9. CASE Passing
  BY <1>3, <1>9 DEF Passing, clientVars, Stage
<1>10. QED BY <1>4, <1>5, <1>6, <1>7, <1>8, <1>9, StepCases DEF Promise!Next

\* For any callers and any requests, the counters, the flag and the pending
\* capture make the handover the comments promise: a caller waits for its own
\* request and no other.
THEOREM ImplementsHandover == Spec => HandedOver
<1>1. Init => Promise!Init
  BY DEF Init, Promise!Init, Stage
<1>2. TInv /\ [Next]_vars => [Promise!Next]_Stages
  BY StepImplements
<1>3. QED BY Invariance, <1>1, <1>2, PTL DEF Spec, HandedOver, Promise!Spec, Stages
=============================================================================
