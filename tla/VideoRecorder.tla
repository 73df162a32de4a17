--------------------------- MODULE VideoRecorder ----------------------------
(***************************************************************************)
(* Recording video (cpp-core/src/video_recorder.cpp).                      *)
(*                                                                         *)
(* The emulator thread pushes frames, a writer thread made for each        *)
(* recording writes them to the encoder's pipe, and client threads start,  *)
(* stop and look at the recording under a lifecycle lock.  A recording is  *)
(* known by its number and a frame by the number of its push.              *)
(***************************************************************************)
EXTENDS Naturals, Sequences

CONSTANTS
  Callers,       \* the threads that start, stop and look
  Limits,        \* frame limits a recording may be started with, 0 for none
  MaxQueue,      \* MAX_QUEUED_FRAMES
  MaxFrames,     \* bound: frames pushed
  MaxRecordings  \* bound: recordings started

ASSUME VideoAssumption ==
  /\ Limits \subseteq Nat
  /\ MaxQueue \in Nat \ {0}
  /\ {MaxFrames, MaxRecordings} \subseteq Nat

Recordings == 1..MaxRecordings
NoSink == 0

VARIABLES
  within,     \* where each client is within start, stop or status
  op,         \* which it is making
  lifecycle,  \* lifecycle_mutex_ is held
  sink,       \* sink_, as the recording it belongs to
  queue,      \* queue_
  active,     \* active_, read without the lock
  status,     \* status_: [recording, active, frames, limit]
  finishing,  \* finishing_
  writer,     \* the writer thread
  inhand,     \* the frame it has taken
  emulator,   \* the emulator thread: "running" or "pushing"
  frame,      \* frames the emulator thread has offered
  accepted,   \* each recording's frames, as push took them
  written,    \* and as the writer wrote them
  failed,     \* recordings a write failed in
  closed      \* times each recording's sink was closed

callerVars == <<within, op, lifecycle>>
sharedVars == <<sink, queue, active, status, finishing>>
writerVars == <<writer, inhand, written, failed>>
pusherVars == <<emulator, frame, accepted>>
videoVars == <<callerVars, sharedVars, writerVars, pusherVars, closed>>

Started == status.recording

VideoInit ==
  /\ within = [c \in Callers |-> "idle"]
  /\ op = [c \in Callers |-> "status"]
  /\ lifecycle = FALSE
  /\ sink = NoSink
  /\ queue = <<>>
  /\ active = FALSE
  /\ status = [recording |-> 0, active |-> FALSE, frames |-> 0, limit |-> 0]
  /\ finishing = FALSE
  /\ writer = "none"
  /\ inhand = 0
  /\ emulator = "running"
  /\ frame = 0
  /\ accepted = [r \in Recordings |-> <<>>]
  /\ written = [r \in Recordings |-> <<>>]
  /\ failed = {}
  /\ closed = [r \in Recordings |-> 0]

-----------------------------------------------------------------------------
(* The clients.                                                            *)

Goto(c, label) == within' = [within EXCEPT ![c] = label]

Begin(c, kind) ==
  /\ within[c] = "idle" /\ ~lifecycle
  /\ kind = "start" => Started < MaxRecordings
  /\ lifecycle' = TRUE
  /\ op' = [op EXCEPT ![c] = kind]
  /\ Goto(c, IF kind = "status" THEN "look" ELSE "end")
  /\ UNCHANGED <<sharedVars, writerVars, pusherVars, closed>>

\* end_recording, and then its notify_all outside the lock.
EndRecording(c) ==
  /\ within[c] = "end"
  /\ finishing' = TRUE
  /\ status' = [status EXCEPT !.active = FALSE]
  /\ active' = FALSE
  /\ Goto(c, "notify")
  /\ UNCHANGED <<op, lifecycle, sink, queue, writerVars, pusherVars, closed>>

Woken == IF writer = "asleep" THEN "ready" ELSE writer


NotifyWriter(c) ==
  /\ within[c] = "notify"
  /\ writer' = Woken
  /\ Goto(c, "join")
  /\ UNCHANGED <<op, lifecycle, sharedVars, inhand, written, failed, pusherVars, closed>>

\* status: a recording that ended by itself still has its sink to close.
LookEnded(c) ==
  /\ within[c] = "look"
  /\ Goto(c, IF ~status.active /\ sink # NoSink THEN "join" ELSE "report")
  /\ UNCHANGED <<op, lifecycle, sharedVars, writerVars, pusherVars, closed>>


\* finish: wait for the writer thread, then close the sink and drop whatever
\* a failed writer left in the queue.
JoinWriter(c) ==
  /\ within[c] = "join"
  /\ writer \in {"none", "done"}
  /\ writer' = "none"
  /\ Goto(c, "close")
  /\ UNCHANGED <<op, lifecycle, sharedVars, inhand, written, failed, pusherVars, closed>>


CloseSink(c) ==
  /\ within[c] = "close"
  /\ closed' = [r \in Recordings |-> IF r = sink THEN closed[r] + 1 ELSE closed[r]]
  /\ sink' = NoSink
  /\ queue' = <<>>
  /\ Goto(c, IF op[c] = "start" THEN "open" ELSE "report")
  /\ UNCHANGED <<op, lifecycle, active, status, finishing, writerVars, pusherVars>>

\* start's second half: the new recording, and then its writer thread.
OpenSink(c) ==
  /\ within[c] = "open"
  /\ \E limit \in Limits :
       status' = [recording |-> Started + 1, active |-> TRUE, frames |-> 0, limit |-> limit]
  /\ sink' = Started + 1
  /\ queue' = <<>>
  /\ finishing' = FALSE
  /\ active' = TRUE
  /\ Goto(c, "spawn")
  /\ UNCHANGED <<op, lifecycle, writerVars, pusherVars, closed>>

SpawnWriter(c) ==
  /\ within[c] = "spawn"
  /\ writer' = "ready"
  /\ Goto(c, "report")
  /\ UNCHANGED <<op, lifecycle, sharedVars, inhand, written, failed, pusherVars, closed>>

Report(c) ==
  /\ within[c] = "report"
  /\ lifecycle' = FALSE
  /\ Goto(c, "idle")
  /\ UNCHANGED <<op, sharedVars, writerVars, pusherVars, closed>>

-----------------------------------------------------------------------------
(* The emulator thread: push.                                              *)

\* The relaxed load that spares the copy when nothing is recording.
OfferFrame ==
  /\ emulator = "running"
  /\ frame < MaxFrames
  /\ active
  /\ frame' = frame + 1
  /\ emulator' = "pushing"
  /\ UNCHANGED <<callerVars, sharedVars, writerVars, accepted, closed>>

\* What push accepts under the lock, with or without looking again.
Accept ==
  /\ queue' = Append(queue, frame)
  /\ accepted' = [accepted EXCEPT ![Started] = Append(@, frame)]
  /\ LET full == status.limit # 0 /\ status.frames + 1 >= status.limit
     IN /\ status' = [status EXCEPT !.frames = @ + 1, !.active = @ /\ ~full]
        /\ active' = (active /\ ~full)
  /\ writer' = Woken


\* Refused if the recording ended meanwhile, dropped if the queue is full.
Push ==
  /\ emulator = "pushing"
  /\ emulator' = "running"
  /\ IF status.active /\ ~finishing /\ Len(queue) < MaxQueue
     THEN Accept
     ELSE UNCHANGED <<queue, active, status, writer, accepted>>
  /\ UNCHANGED <<callerVars, sink, finishing, inhand, written, failed, frame, closed>>

-----------------------------------------------------------------------------
(* The writer thread: writer_loop.                                         *)

TakeOrStop ==
  /\ writer = "ready"
  /\ IF status.active /\ queue # <<>>
     THEN writer' = "writing" /\ inhand' = Head(queue) /\ queue' = Tail(queue)
     ELSE /\ writer' = IF status.active THEN "asleep" ELSE "done"
          /\ UNCHANGED <<inhand, queue>>
  /\ UNCHANGED <<callerVars, sink, active, status, finishing, written, failed, pusherVars, closed>>

\* Take a frame; with none, finish if the recording is over and sleep if not.
TakeFrame ==
  /\ writer = "ready"
  /\ IF queue # <<>>
     THEN writer' = "writing" /\ inhand' = Head(queue) /\ queue' = Tail(queue)
     ELSE /\ writer' = IF status.active THEN "asleep" ELSE "done"
          /\ UNCHANGED <<inhand, queue>>
  /\ UNCHANGED <<callerVars, sink, active, status, finishing, written, failed, pusherVars, closed>>

\* fwrite, outside the lock: it succeeds, or the far end has gone.
WriteFrame ==
  /\ writer = "writing"
  /\ \/ /\ written' = [r \in Recordings |-> IF r = sink THEN Append(written[r], inhand) ELSE written[r]]
        /\ writer' = "ready"
        /\ UNCHANGED failed
     \/ /\ writer' = "failed"
        /\ failed' = failed \cup {sink}
        /\ UNCHANGED written
  /\ UNCHANGED <<callerVars, sharedVars, inhand, pusherVars, closed>>

GiveUp ==
  /\ writer = "failed"
  /\ writer' = "done"
  /\ status' = [status EXCEPT !.active = FALSE]
  /\ active' = FALSE
  /\ UNCHANGED <<callerVars, sink, queue, finishing, inhand, written, failed, pusherVars, closed>>

-----------------------------------------------------------------------------
CallerStep(c) ==
  \/ EndRecording(c) \/ NotifyWriter(c) \/ LookEnded(c) \/ JoinWriter(c)
  \/ CloseSink(c) \/ OpenSink(c) \/ SpawnWriter(c) \/ Report(c)

WriterStep == TakeFrame \/ WriteFrame \/ GiveUp

VideoNext ==
  \/ \E c \in Callers : CallerStep(c) \/ \E kind \in {"start", "stop", "status"} : Begin(c, kind)
  \/ OfferFrame \/ Push
  \/ WriterStep

VideoSpec == VideoInit /\ [][VideoNext]_videoVars

\* Every thread that has something to do is scheduled, and the encoder reads
\* its pipe, so that a write ends one way or the other.
VideoFairness == WF_videoVars(WriterStep) /\ \A c \in Callers : WF_videoVars(CallerStep(c))

FairVideoSpec == VideoSpec /\ VideoFairness

-----------------------------------------------------------------------------
(* Properties.                                                             *)

\* The state's shape.
VideoTypeOK ==
  /\ within \in [Callers -> {"idle", "look", "end", "notify", "join", "close", "open", "spawn", "report"}]
  /\ op \in [Callers -> {"start", "stop", "status"}]
  /\ {lifecycle, active, finishing} \subseteq BOOLEAN
  /\ sink \in Recordings \cup {NoSink}
  /\ queue \in Seq(1..MaxFrames) /\ Len(queue) <= MaxQueue
  /\ status \in [recording : 0..MaxRecordings, active : BOOLEAN, frames : 0..MaxFrames, limit : Limits \cup {0}]
  /\ writer \in {"none", "ready", "asleep", "writing", "failed", "done"}
  /\ inhand \in 0..MaxFrames /\ frame \in 0..MaxFrames
  /\ emulator \in {"running", "pushing"}
  /\ accepted \in [Recordings -> Seq(1..MaxFrames)]
  /\ written \in [Recordings -> Seq(1..MaxFrames)]
  /\ failed \subseteq Recordings
  /\ closed \in [Recordings -> Nat]

\* What reaches a recording's file is what was accepted for it, in order, and
\* never another recording's frames.
WrittenAsAccepted ==
  \A r \in Recordings :
    /\ Len(written[r]) <= Len(accepted[r])
    /\ written[r] = SubSeq(accepted[r], 1, Len(written[r]))

\* A stop loses nothing that had been accepted: once a recording's sink is
\* closed every accepted frame is in the file, unless a write failed.
NothingLost ==
  \A r \in Recordings : closed[r] > 0 /\ r \notin failed => written[r] = accepted[r]

\* Each sink is closed exactly once, before the next recording begins, and
\* never under a writer that is still using it.
ClosedOnce ==
  /\ \A r \in Recordings : closed[r] = IF r <= Started /\ r # sink THEN 1 ELSE 0
  /\ writer # "none" => sink # NoSink

\* Of a recording: what reaches its file is what was accepted for it, in order
\* and never another's; once it is closed that is everything, unless a write
\* failed; and its sink is closed exactly once, with no writer left on it.
RecordingIsWhole == WrittenAsAccepted /\ NothingLost /\ ClosedOnce
=============================================================================
