---------------------------- MODULE FrameCapture ----------------------------
(***************************************************************************)
(* Capturing frames of the picture (cpp-core/src/engine.cpp: note_frame,   *)
(* arm_capture, capture_frames; mcp_server.cpp: get_screen_sequence).      *)
(*                                                                         *)
(* A caller arms THE capture, and the emulator thread fills it at frame    *)
(* boundaries: of a run if one is going, else of a job the caller posts.   *)
(* The caller waits until it is full or its time runs out, and takes what  *)
(* there is.  Callers are not kept apart: a second arms over the first.    *)
(***************************************************************************)
EXTENDS Naturals, Sequences, SequencesExt

CONSTANTS
  Callers,      \* the threads that ask for frames
  Asked,        \* what they may ask for: [count, every]
  MaxFrame,     \* bound: the frame counter
  MaxCaptures,  \* bound: captures asked for
  NoCaller

\* An "every" of 0 is taken for 1.
ASSUME CaptureAssumption ==
  /\ Asked \subseteq [count : Nat, every : Nat \ {0}]
  /\ NoCaller \notin Callers

VARIABLES
  caller,        \* each caller: where it is, what it asked for, what it got
  armed,         \* capture_active_
  capture,       \* capture_wanted_, capture_every_, capture_next_frame_
  captured,      \* capture_frames_: their numbers
  frame_count,   \* ula.frame_count()
  running,       \* a run owns the emulator thread
  turns,          \* captures posted as jobs, the one it is in first
  left,          \* frames that job may still turn over
  last_arm,      \* the caller that armed last, NoCaller once it is disarmed (history)
  captures       \* how many were asked for

captureVars == <<caller, armed, capture, captured, frame_count, running, turns, left, last_arm, captures>>

NoCapture == [count |-> 0, every |-> 1]
Out == [at |-> "out", ask |-> NoCapture, got |-> <<>>, alone |-> TRUE, timed_out |-> FALSE]

CaptureInit ==
  /\ caller = [c \in Callers |-> Out]
  /\ armed = FALSE /\ captured = <<>>
  /\ capture = [wanted |-> 0, every |-> 1, next |-> 0]
  /\ frame_count = 0 /\ running = FALSE
  /\ turns = <<>> /\ left = 0
  /\ last_arm = NoCaller /\ captures = 0

Inside(c) == caller[c].at # "out"
Move(c, label) == caller' = [caller EXCEPT ![c].at = label]

\* capture_frames: arm_capture, over whatever was armed.  Two captures at once
\* are no longer alone, and neither is one whose machine is taken back.

Arm(c, ask) ==
  /\ armed' = (ask.count # 0)
  /\ capture' = [wanted |-> ask.count, every |-> ask.every, next |-> 0]
  /\ captured' = <<>>

CaptureFrames(c, ask) ==
  /\ ~Inside(c) /\ captures < MaxCaptures
  /\ Arm(c, ask)
  /\ caller' = [d \in Callers |->
       IF d = c THEN [Out EXCEPT !.at = "look", !.ask = ask, !.alone = \A e \in Callers : ~Inside(e)]
       ELSE [caller[d] EXCEPT !.alone = @ /\ ~Inside(d)]]
  /\ last_arm' = c /\ captures' = captures + 1
  /\ UNCHANGED <<frame_count, running, turns, left>>

\* running_ decides who turns the frames over; by the time the job's turn
\* comes a run may have been and gone.
LookWhoRuns(c) ==
  /\ caller[c].at = "look"
  /\ IF running THEN Move(c, "wait") /\ UNCHANGED turns
     ELSE Move(c, "posted") /\ turns' = Append(turns, c)
  /\ UNCHANGED <<armed, capture, captured, frame_count, running, left, last_arm, captures>>

\* A run begins and ends; runs and jobs exclude each other.
RunBegins ==
  /\ ~running /\ left = 0
  /\ running' = TRUE
  /\ UNCHANGED <<caller, armed, capture, captured, frame_count, turns, left, last_arm, captures>>

RunEnds ==
  /\ running
  /\ running' = FALSE
  /\ UNCHANGED <<caller, armed, capture, captured, frame_count, turns, left, last_arm, captures>>

StartJob ==
  /\ ~running /\ left = 0 /\ turns # <<>> /\ caller[Head(turns)].at = "posted"
  /\ Move(Head(turns), "driven")
  /\ left' = caller[Head(turns)].ask.count * caller[Head(turns)].ask.every + 1
  /\ UNCHANGED <<armed, capture, captured, frame_count, running, turns, last_arm, captures>>

\* note_frame, at a new frame: take it if it is due, and disarm once full.

NoteFrame ==
  IF armed /\ frame_count' >= capture.next
  THEN /\ captured' = Append(captured, frame_count')
       /\ capture' = [capture EXCEPT !.next = frame_count' + capture.every]
       /\ armed' = (Len(captured') < capture.wanted)
  ELSE UNCHANGED <<captured, capture, armed>>

RunFrame ==
  /\ running /\ frame_count < MaxFrame
  /\ frame_count' = frame_count + 1
  /\ NoteFrame
  /\ UNCHANGED <<caller, running, turns, left, last_arm, captures>>

\* The job looks at the flag, then turns one frame over.
JobFrame ==
  /\ left > 0 /\ armed /\ frame_count < MaxFrame
  /\ frame_count' = frame_count + 1 /\ left' = left - 1
  /\ NoteFrame
  /\ UNCHANGED <<caller, running, turns, last_arm, captures>>

\* It ends, full or at its bound, and announces the stop.
EndJob ==
  /\ turns # <<>> /\ caller[Head(turns)].at = "driven"
  /\ left = 0 \/ ~armed
  /\ left' = 0 /\ turns' = Tail(turns)
  /\ Move(Head(turns), "wait")
  /\ UNCHANGED <<armed, capture, captured, frame_count, running, last_arm, captures>>

\* Going back in the history: an earlier frame, and no boundary is noted.
GoBack ==
  /\ ~running /\ left = 0
  /\ \E f \in 0..(frame_count - 1) : frame_count' = f
  /\ caller' = [d \in Callers |-> [caller[d] EXCEPT !.alone = @ /\ ~Inside(d)]]
  /\ UNCHANGED <<armed, capture, captured, running, turns, left, last_arm, captures>>

\* Full, or out of time: disarm either way and take what there is.
TakeArmed(c) ==
  /\ caller[c].at = "wait"
  /\ armed' = (armed /\ Len(captured) < capture.wanted)
  /\ captured' = <<>>
  /\ caller' = [caller EXCEPT ![c].at = "out", ![c].got = captured, ![c].timed_out = armed]
  /\ last_arm' = NoCaller
  /\ UNCHANGED <<capture, frame_count, running, turns, left, captures>>

TakeFrames(c) ==
  /\ caller[c].at = "wait"
  /\ armed' = FALSE /\ captured' = <<>>
  /\ caller' = [caller EXCEPT ![c].at = "out", ![c].got = captured, ![c].timed_out = armed]
  /\ last_arm' = NoCaller
  /\ UNCHANGED <<capture, frame_count, running, turns, left, captures>>

CaptureNext ==
  \/ \E c \in Callers : LookWhoRuns(c) \/ TakeFrames(c) \/ \E ask \in Asked : CaptureFrames(c, ask)
  \/ RunBegins \/ RunEnds \/ RunFrame
  \/ StartJob \/ JobFrame \/ EndJob
  \/ GoBack

CaptureSpec == CaptureInit /\ [][CaptureNext]_captureVars

-----------------------------------------------------------------------------
(* Properties.                                                             *)

Spaced(frames, ask) ==
  \A i \in DOMAIN frames \ {1} : frames[i] - frames[i - 1] = ask.every

\* What a capture comes to, whoever runs the machine meanwhile.  Frames are
\* collected only for somebody who will take them.  A caller that had the
\* capture to itself gets exactly as many frames as it asked for, evenly
\* spaced, unless it ran out of time; and the job it posts on a stopped machine
\* is allowed frames enough for that, so that it does not wait for nothing.
CaptureKept ==
  /\ armed => last_arm # NoCaller /\ Inside(last_arm)
  /\ \A c \in Callers : caller[c].alone /\ ~Inside(c) =>
       /\ Spaced(caller[c].got, caller[c].ask)
       /\ caller[c].timed_out \/ Len(caller[c].got) = caller[c].ask.count
  /\ \A c \in Callers : caller[c].alone /\ caller[c].at = "driven" /\ left = 0 => ~armed
=============================================================================
