------------------------------- MODULE Engine -------------------------------
(***************************************************************************)
(* The Engine's command queue and run loop (cpp-core/src/engine.cpp).      *)
(*                                                                         *)
(* One emulator thread owns the machine.  Clients (DAP connections, MCP    *)
(* requests) are threads that append a job to a queue and wait for it.  A  *)
(* `run` is itself a job, and it may never return, so at every yield its   *)
(* loop services the queued jobs that are not marked to wait for its end.  *)
(* Typing LOAD "" is not marked, though it emulates for seconds: at a      *)
(* yield it is a second loop inside the first.                             *)
(* `pause_requested_` and `running_` are atomics that bypass the queue,    *)
(* and a stop is announced to the subscribers by the thread whose call     *)
(* caused it, once that call's job has been answered.                      *)
(*                                                                         *)
(* A job is represented by the client that waits for it: a client has at   *)
(* most one call outstanding and call[c] says what it is.                  *)
(*                                                                         *)
(* An operator no action uses, placed just before the one it varies, is a  *)
(* bug the code does not have: putting it in the other's place must break  *)
(* a property.  The other modules keep theirs in the same way.             *)
(***************************************************************************)
EXTENDS Naturals, Sequences, FiniteSets

CONSTANTS
  Clients,      \* the threads that call the Engine
  May,          \* which operations each client uses
  MaxCalls,     \* bound: calls a client makes
  YieldEvery,   \* instructions between two yields (yield_interval)
  TypingFrames, \* frames of emulation it takes to type LOAD ""
  MaxIntervals  \* bound: intervals a search back through the history replays

(***************************************************************************)
(* The operations, by how they use the queue and the atomics.  `edit`      *)
(* stands for every queued read or edit; `reset` for those that announce   *)
(* a stop whatever the machine is doing (reset, set_registers); `load` for *)
(* those that announce one only if no run is in flight (set_model,         *)
(* load_tape; the tape's handover is TapeHandover); `type_load` for those  *)
(* of them that type LOAD "" (load_tape with auto_start, wait_for_tape).   *)
(* `registers` is the read of the stop's address that the loads make       *)
(* before announcing it.  Drivers are the jobs marked to wait for a run's  *)
(* end (Job::during_run), Ordinary the rest.                               *)
(***************************************************************************)
Loops     == {"run", "step_over_halt"}
History   == {"rewind", "return_to_live"}
Drivers   == Loops \cup History \cup {"step"}
Typing    == {"type_load"}
Ordinary  == {"edit", "reset", "load", "load_snapshot", "registers"} \cup Typing
Queued    == Drivers \cup Ordinary
Calls     == (Queued \ {"registers"}) \cup {"pause"}

ASSUME EngineAssumption ==
  /\ May \in [Clients -> SUBSET Calls]
  /\ MaxCalls \in Nat
  /\ YieldEvery \in Nat \ {0}
  /\ TypingFrames \in Nat \ {0}
  /\ MaxIntervals \in Nat \ {0}

VARIABLES
  queue,           \* the jobs waiting, oldest first
  stack,           \* the jobs the emulator thread is inside, innermost last
  phase,           \* where the innermost emulation loop is
  count,           \* its instructions, modulo YieldEvery (a search's intervals)
  frames,          \* the frames emulated of a typing in hand
  pause_requested, \* pause_requested_
  running,         \* running_
  shutting_down,   \* the destructor has begun
  exited,          \* the emulator thread has returned
  pc,              \* where each client is within its call
  call,            \* the call it is making
  calls,           \* how many it has made
  view             \* what the subscribers were last told

clientVars  == <<pc, call, calls>>
actorVars   == <<stack, phase, count, frames, exited>>
atomicVars  == <<pause_requested, running, shutting_down>>
vars == <<queue, clientVars, actorVars, atomicVars, view>>

Labels == {"idle", "guard", "clear", "mark", "continued", "submit", "wait",
           "answered", "check", "announce"}

Init ==
  /\ queue = <<>>
  /\ stack = <<>>
  /\ phase = "check"
  /\ count = 0
  /\ frames = 0
  /\ pause_requested = FALSE
  /\ running = FALSE
  /\ shutting_down = FALSE
  /\ exited = FALSE
  /\ pc = [c \in Clients |-> "idle"]
  /\ call = [c \in Clients |-> "edit"]
  /\ calls = [c \in Clients |-> 0]
  /\ view = "stopped"

-----------------------------------------------------------------------------
(* What a client does.                                                     *)

Goto(c, label) == pc' = [pc EXCEPT ![c] = label]

\* Where a call begins: run and step_over_halt clear an old pause, the jumps
\* in the history first look whether a run is in flight, the rest just queue.
FirstLabel(kind) ==
  CASE kind \in Loops   -> "clear"
    [] kind \in History -> "guard"
    [] OTHER            -> "submit"

Start(c, kind) ==
  /\ pc[c] = "idle"
  /\ kind \in May[c] \ {"pause"}
  /\ calls[c] < MaxCalls
  /\ ~shutting_down
  /\ calls' = [calls EXCEPT ![c] = @ + 1]
  /\ call' = [call EXCEPT ![c] = kind]
  /\ Goto(c, FirstLabel(kind))
  /\ UNCHANGED <<queue, actorVars, atomicVars, view>>

\* pause(): an atomic store, from any thread at any time.
Pause(c) ==
  /\ pc[c] = "idle"
  /\ "pause" \in May[c]
  /\ calls[c] < MaxCalls
  /\ ~shutting_down
  /\ calls' = [calls EXCEPT ![c] = @ + 1]
  /\ pause_requested' = TRUE
  /\ UNCHANGED <<queue, pc, call, actorVars, running, shutting_down, view>>

\* rewind() and return_to_live() refuse a running machine; they ask the
\* atomic, not the queue.  Only a rewind, which a pause cancels, clears it.
GuardRewind(c) ==
  /\ pc[c] = "guard"
  /\ Goto(c, IF running THEN "idle" ELSE IF call[c] = "rewind" THEN "clear" ELSE "submit")
  /\ UNCHANGED <<queue, call, calls, actorVars, atomicVars, view>>

ClearPause(c) ==
  /\ pc[c] = "clear"
  /\ pause_requested' = FALSE
  /\ Goto(c, IF call[c] = "run" THEN "mark" ELSE "submit")
  /\ UNCHANGED <<queue, call, calls, actorVars, running, shutting_down, view>>


MarkRunning(c) ==
  /\ pc[c] = "mark"
  /\ running' = TRUE
  /\ Goto(c, "continued")
  /\ UNCHANGED <<queue, call, calls, actorVars, pause_requested, shutting_down, view>>

AnnounceContinuedSkipped(c) ==
  /\ pc[c] = "continued"
  /\ Goto(c, "submit")
  /\ UNCHANGED <<queue, call, calls, actorVars, atomicVars, view>>

AnnounceContinued(c) ==
  /\ pc[c] = "continued"
  /\ view' = "running"
  /\ Goto(c, "submit")
  /\ UNCHANGED <<queue, call, calls, actorVars, atomicVars>>

\* submit(): append the job, wake the emulator thread, wait for the promise.
Submit(c) ==
  /\ pc[c] = "submit"
  /\ queue' = Append(queue, c)
  /\ Goto(c, "wait")
  /\ UNCHANGED <<call, calls, actorVars, atomicVars, view>>

ReturnRunSilent(c) ==
  /\ pc[c] = "answered"
  /\ call[c] = "run"
  /\ running' = FALSE
  /\ Goto(c, IF pause_requested THEN "idle" ELSE "announce")
  /\ UNCHANGED <<queue, call, calls, actorVars, pause_requested, shutting_down, view>>

\* run() clears running_ a second time, on its own thread.
ReturnRun(c) ==
  /\ pc[c] = "answered"
  /\ call[c] = "run"
  /\ running' = FALSE
  /\ Goto(c, "announce")
  /\ UNCHANGED <<queue, call, calls, actorVars, pause_requested, shutting_down, view>>

\* Where every other call goes once its job is answered; a load may have
\* failed, and then says nothing.
AfterAnswer(kind) ==
  CASE kind = "edit"                  -> {"idle"}
    [] kind \in {"load", "type_load"} -> {"check", "idle"}
    [] kind = "load_snapshot"         -> {"submit", "idle"}
    [] OTHER                          -> {"announce"}

Return(c) ==
  /\ pc[c] = "answered"
  /\ call[c] # "run"
  /\ \E label \in AfterAnswer(call[c]) : Goto(c, label)
  /\ call' = [call EXCEPT ![c] = IF @ = "load_snapshot" THEN "registers" ELSE @]
  /\ UNCHANGED <<queue, calls, actorVars, atomicVars, view>>

\* A load says nothing if a run is in flight; otherwise it reads the address
\* to announce, which is a queued command of its own.
CheckRunning(c) ==
  /\ pc[c] = "check"
  /\ Goto(c, IF running THEN "idle" ELSE "submit")
  /\ call' = [call EXCEPT ![c] = IF running THEN @ ELSE "registers"]
  /\ UNCHANGED <<queue, calls, actorVars, atomicVars, view>>

\* on_stopped_, called by the thread whose call this was.
AnnounceStopped(c) ==
  /\ pc[c] = "announce"
  /\ view' = "stopped"
  /\ Goto(c, "idle")
  /\ UNCHANGED <<queue, call, calls, actorVars, atomicVars>>

ClientStep(c) ==
  \/ GuardRewind(c) \/ ClearPause(c) \/ MarkRunning(c) \/ AnnounceContinued(c)
  \/ Submit(c) \/ ReturnRun(c) \/ Return(c) \/ CheckRunning(c) \/ AnnounceStopped(c)

-----------------------------------------------------------------------------
(* What the emulator thread does.                                          *)

Top == stack[Len(stack)]
Job(i) == call[queue[i]]

DropFirst(i) == [j \in 1..(Len(queue) - 1) |-> IF j < i THEN queue[j] ELSE queue[j + 1]]

\* actor_loop takes the oldest job, whatever it is.
Pop ==
  /\ stack = <<>> /\ ~exited
  /\ queue # <<>>
  /\ stack' = <<Head(queue)>>
  /\ queue' = Tail(queue)
  /\ phase' = "check"
  /\ count' = 0
  /\ UNCHANGED <<frames, exited, clientVars, atomicVars, view>>

\* The innermost job ends: its promise is set, and its caller may go on.
Answer ==
  /\ pc' = [pc EXCEPT ![Top] = "answered"]
  /\ stack' = SubSeq(stack, 1, Len(stack) - 1)

\* A job that looks at neither the queue nor the pause flag until it is done:
\* every read and edit, step, and the return to the live edge.
Execute ==
  /\ stack # <<>>
  /\ call[Top] \in (Ordinary \ Typing) \cup {"step", "return_to_live"}
  /\ Answer
  /\ UNCHANGED <<queue, phase, count, frames, exited, call, calls, atomicVars, view>>

\* type_load_command emulates frame after frame and looks at neither as well.
\* It ends with the last one, or before it if the ROM's edit line does not
\* show what was typed.
TypeLoad ==
  /\ stack # <<>>
  /\ call[Top] \in Typing
  /\ \/ Answer /\ frames' = 0
     \/ /\ frames + 1 < TypingFrames
        /\ frames' = frames + 1
        /\ UNCHANGED <<stack, pc>>
  /\ UNCHANGED <<queue, phase, count, exited, call, calls, atomicVars, view>>

\* A search back: replay one interval.  It matched, or a pause cancels it, or
\* it was the oldest, and the job ends; or the search goes on to the one before.
Search ==
  /\ stack # <<>>
  /\ call[Top] = "rewind"
  /\ \/ Answer /\ UNCHANGED count
     \/ /\ ~pause_requested /\ count + 1 < MaxIntervals
        /\ count' = count + 1
        /\ UNCHANGED <<stack, pc>>
  /\ UNCHANGED <<queue, phase, frames, exited, call, calls, atomicVars, view>>

InLoop(at) == stack # <<>> /\ call[Top] \in Loops /\ phase = at

\* The loop ends.  Only a run clears running_, inside its job.
Finish ==
  /\ Answer
  /\ running' = IF call[Top] = "run" THEN FALSE ELSE running
  /\ UNCHANGED <<queue, phase, count, frames, exited, call, calls,
                 pause_requested, shutting_down, view>>

LoopCheckDeaf ==
  /\ InLoop("check")
  /\ phase' = "exec"
  /\ UNCHANGED <<queue, stack, count, frames, exited, clientVars, atomicVars, view>>

\* Each turn of the loop looks at the pause flag before its instruction.
LoopCheck ==
  /\ InLoop("check")
  /\ IF pause_requested
     THEN Finish
     ELSE /\ phase' = "exec"
          /\ UNCHANGED <<queue, stack, count, frames, exited, clientVars, atomicVars, view>>

NoYield ==
  /\ InLoop("exec")
  /\ \/ Finish
     \/ /\ phase' = "check"
        /\ UNCHANGED <<queue, stack, count, frames, exited, clientVars, atomicVars, view>>

\* One instruction: it hits a breakpoint, watchpoint or wanted interrupt (for
\* step_over_halt, its target) and the loop ends, or the loop goes on, with a
\* yield every YieldEvery instructions.
LoopExec ==
  /\ InLoop("exec")
  /\ \/ Finish
     \/ /\ count' = (count + 1) % YieldEvery
        /\ phase' = IF count' = 0 THEN "yield" ELSE "check"
        /\ UNCHANGED <<queue, stack, frames, exited, clientVars, atomicVars, view>>

AnyServicable(i) == TRUE
NewestServicable(i) == Job(i) \in Ordinary /\ \A j \in (i + 1)..Len(queue) : Job(j) \notin Ordinary

\* The oldest job a run may pick up: those marked to wait for its end are
\* stepped over (Job::during_run).
Servicable(i) ==
  /\ Job(i) \in Ordinary
  /\ \A j \in 1..(i - 1) : Job(j) \notin Ordinary

ServiceCopied ==
  /\ InLoop("yield")
  /\ \E i \in DOMAIN queue :
       /\ Servicable(i)
       /\ stack' = Append(stack, queue[i])
  /\ UNCHANGED <<queue, phase, count, frames, exited, clientVars, atomicVars, view>>

\* service_queue: take one such job out of the queue and run it here.
Service ==
  /\ InLoop("yield")
  /\ \E i \in DOMAIN queue :
       /\ Servicable(i)
       /\ stack' = Append(stack, queue[i])
       /\ queue' = DropFirst(i)
  /\ UNCHANGED <<phase, count, frames, exited, clientVars, atomicVars, view>>

EndYield ==
  /\ InLoop("yield")
  /\ \A i \in DOMAIN queue : ~Servicable(i)
  /\ phase' = "check"
  /\ UNCHANGED <<queue, stack, count, frames, exited, clientVars, atomicVars, view>>

\* The thread returns once told to shut down and the queue has drained.
Exit ==
  /\ stack = <<>> /\ queue = <<>>
  /\ shutting_down /\ ~exited
  /\ exited' = TRUE
  /\ UNCHANGED <<queue, stack, phase, count, frames, clientVars, atomicVars, view>>

EmulatorStep ==
  \/ Pop \/ Execute \/ TypeLoad \/ Search \/ LoopCheck \/ LoopExec \/ Service \/ EndYield \/ Exit

ShutdownUnpaused ==
  /\ ~shutting_down
  /\ \A c \in Clients : pc[c] \in {"idle", "wait", "answered", "announce"} /\
                        (pc[c] # "idle" => call[c] \in Loops)
  /\ shutting_down' = TRUE
  /\ UNCHANGED <<queue, clientVars, actorVars, running, pause_requested, view>>

\* ~Engine: refuse nothing, break any run in flight, join the thread.  The
\* only calls outstanding are runs that are being broken.
Shutdown ==
  /\ ~shutting_down
  /\ \A c \in Clients : pc[c] \in {"idle", "wait", "answered", "announce"} /\
                        (pc[c] # "idle" => call[c] \in Loops)
  /\ shutting_down' = TRUE
  /\ pause_requested' = TRUE
  /\ UNCHANGED <<queue, clientVars, actorVars, running, view>>

Next ==
  \/ \E c \in Clients : \/ \E kind \in Calls : Start(c, kind)
                        \/ Pause(c)
                        \/ ClientStep(c)
  \/ EmulatorStep
  \/ Shutdown

Spec == Init /\ [][Next]_vars

\* The operating system schedules the emulator thread and every client that
\* has begun a call; nobody has to begin one, and nothing in the machine has
\* to hit a breakpoint.
Fairness == WF_vars(EmulatorStep) /\ \A c \in Clients : WF_vars(ClientStep(c))

FairSpec == Spec /\ Fairness

-----------------------------------------------------------------------------
(* Properties.                                                             *)

InRange(c, s) == \E i \in DOMAIN s : s[i] = c
Injective(s) == \A i, j \in DOMAIN s : s[i] = s[j] => i = j

\* The state's shape.
TypeOK ==
  /\ queue \in Seq(Clients)
  /\ stack \in Seq(Clients)
  /\ phase \in {"check", "exec", "yield"}
  /\ count \in 0..(YieldEvery - 1) \cup 0..(MaxIntervals - 1)
  /\ frames \in 0..(TypingFrames - 1)
  /\ pause_requested \in BOOLEAN
  /\ running \in BOOLEAN
  /\ shutting_down \in BOOLEAN
  /\ exited \in BOOLEAN
  /\ pc \in [Clients -> Labels]
  /\ call \in [Clients -> Queued]
  /\ calls \in [Clients -> 0..MaxCalls]
  /\ view \in {"running", "stopped"}

\* submit hands the job references into its caller's stack frame (the promise,
\* and whatever the lambda captured), so a job may exist only while exactly
\* that caller is still waiting for it, and only one job per caller.
CallerOutlivesJob ==
  /\ Injective(queue) /\ Injective(stack)
  /\ \A c \in Clients : /\ ~(InRange(c, queue) /\ InRange(c, stack))
                        /\ pc[c] = "wait" <=> InRange(c, queue) \/ InRange(c, stack)

\* A job marked to wait for a run's end is never inside another, and only a
\* loop at its yield has one inside it, and never more than one.  So a typing
\* serviced there services nothing itself, and is the only second loop there is.
DriversOutermost ==
  /\ Len(stack) <= 2
  /\ \A i \in DOMAIN stack : call[stack[i]] \in Drivers => i = 1
  /\ Len(stack) = 2 => call[stack[1]] \in Loops /\ phase = "yield"

\* The emulator thread is never inside two jobs that emulate: what is serviced
\* at a yield does not start a second emulation loop inside the first.
OneEmulationLoop ==
  \A i, j \in DOMAIN stack :
    (call[stack[i]] \in Drivers \cup Typing /\ call[stack[j]] \in Drivers \cup Typing) => i = j

\* service_queue reorders only ordinary commands past drivers: of two
\* ordinary commands, the one queued first leaves the queue first.
OrdinaryInOrder ==
  [][\A i, j \in DOMAIN queue :
       /\ i < j
       /\ Job(i) \in Ordinary /\ Job(j) \in Ordinary
       /\ ~InRange(queue[j], queue')
       => ~InRange(queue[i], queue')]_vars

\* Once every call has returned, the subscribers' last news is that the
\* machine is stopped, and running_ says so too: no continued event is left
\* without the stop that ends it, however the calls overlapped.
QuiescentStopped ==
  (\A c \in Clients : pc[c] = "idle") => view = "stopped" /\ ~running

RunInFlight == stack # <<>> /\ call[stack[1]] = "run"

\* While a run owns the emulator thread, running() says so, and so does what
\* the subscribers were last told.
ViewTracksRun == RunInFlight => running /\ view = "running"

\* A pause requested while a loop owns the emulator thread ends that loop,
\* though nothing in the program would have.
PauseEndsLoop ==
  \A c \in Clients :
    (pause_requested /\ InRange(c, stack) /\ call[c] \in Loops) ~> ~InRange(c, stack)

\* Every queued read or edit is answered, even behind a run that never ends.
OrdinaryAnswered ==
  \A c \in Clients : (pc[c] = "wait" /\ call[c] \in Ordinary) ~> pc[c] = "answered"

\* The destructor's join returns, and every caller with it.
ShutdownCompletes ==
  shutting_down ~> exited /\ \A c \in Clients : pc[c] = "idle"
=============================================================================
