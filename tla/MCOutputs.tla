----------------------------- MODULE MCOutputs ------------------------------
(* What leaves the machine on other threads, for TLC: a trace capture, a     *)
(* recorded video and the sound.  The three share no state, so each          *)
(* behaviour moves one of them, part, and the rest stay where they start.    *)
EXTENDS TraceHandover, VideoRecorder, Sound

VARIABLE part

\* The same threads record video and trace.
ASSUME OutputsAssumption == Callers = Clients

allVars == <<part, vars, videoVars, soundVars>>

OutputsInit ==
  /\ part \in {"trace", "video", "sound"}
  /\ Init /\ VideoInit /\ SoundInit

OutputsNext ==
  /\ UNCHANGED part
  /\ \/ part = "trace" /\ Next /\ UNCHANGED <<videoVars, soundVars>>
     \/ part = "video" /\ VideoNext /\ UNCHANGED <<vars, soundVars>>
     \/ part = "sound" /\ SoundNext /\ UNCHANGED <<vars, videoVars>>

\* Each part's own fairness, where it is the one that moves.
OutputsSpec ==
  /\ OutputsInit /\ [][OutputsNext]_allVars
  /\ WF_vars(part = "trace" /\ EmulatorStep)
  /\ \A c \in Clients : WF_vars(part = "trace" /\ ClientStep(c))
  /\ WF_videoVars(part = "video" /\ WriterStep)
  /\ \A c \in Clients : WF_videoVars(part = "video" /\ CallerStep(c))
  /\ WF_soundVars(part = "sound" /\ EmulatorPaces)
  /\ WF_soundVars(part = "sound" /\ Reopens)
  /\ WF_soundVars(part = "sound" /\ Render)
  /\ WF_soundVars(part = "sound" /\ Play)

\* Whoever waits is let go.  A caller that starts or stops a trace, running or
\* idle; one that starts, stops or looks at a recording and waits for its
\* writer; and the machine itself, which the clock of a dead device, or of one
\* replaced in the middle of a hold, never keeps.
Waiting(c) ==
  CASE part = "trace" -> pc[c] = "post"
    [] part = "video" -> within[c] \in {"end", "look"}
    [] part = "sound" -> paced.at = "hold"

LetGo(c) ==
  CASE part = "trace" -> pc[c] = "idle"
    [] part = "video" -> within[c] = "idle"
    [] part = "sound" -> paced.at # "hold"

WaitsEnd == \A c \in Clients : Waiting(c) ~> LetGo(c)
=============================================================================
