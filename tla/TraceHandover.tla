--------------------------- MODULE TraceHandover ----------------------------
(***************************************************************************)
(* Handing a trace capture to the emulator thread (cpp-core/src/engine.cpp:*)
(* start_trace, stop_trace, request_trace, service_trace).                 *)
(*                                                                         *)
(* A start opens its capture's file on the calling thread and leaves it in *)
(* pending_trace_; a stop leaves null there.  Both count the request,      *)
(* raise a flag, post an empty command so that an idle emulator thread     *)
(* wakes, and wait until the count of requests taken up reaches theirs.    *)
(* The emulator thread looks at the flag after every command and at every  *)
(* yield of a run, and takes the request up in one critical section.       *)
(***************************************************************************)
EXTENDS Naturals, Sequences

CONSTANTS
  Clients,      \* the threads that start and stop captures
  MaxRequests   \* bound: requests made

ASSUME TraceAssumption == MaxRequests \in Nat

None == 0
Captures == 1..MaxRequests

VARIABLES
  pc,             \* each client: "idle", "request", "post", "wait"
  log,            \* the capture it hands over, None for a stop
  want,           \* the request number it waits for
  opened,         \* captures opened so far
  open,           \* those whose file is open
  pending,        \* pending_trace_
  change_pending, \* trace_change_pending_
  asked,          \* every request made, in order: trace_requested_ is its length
  applied,        \* trace_applied_
  trace,          \* trace_
  hooked,         \* machine_.trace
  posted,         \* empty commands in the queue
  mode,           \* "idle", or "run" while a run owns the emulator thread
  at              \* the emulator thread: "free", "look" or "take"

clientVars == <<pc, log, want, opened, asked>>
emulatorVars == <<applied, trace, hooked, mode, at>>
vars == <<clientVars, open, pending, change_pending, posted, emulatorVars>>

Init ==
  /\ pc = [c \in Clients |-> "idle"]
  /\ log = [c \in Clients |-> None]
  /\ want = [c \in Clients |-> 0]
  /\ opened = 0
  /\ open = {}
  /\ pending = None
  /\ change_pending = FALSE
  /\ asked = <<>>
  /\ applied = 0
  /\ trace = None
  /\ hooked = None
  /\ posted = 0
  /\ mode = "idle"
  /\ at = "free"

Busy == {c \in Clients : pc[c] = "request"}

-----------------------------------------------------------------------------
(* The callers.                                                            *)

\* start_trace opens the file before it asks for anything.
StartTrace(c) ==
  /\ pc[c] = "idle"
  /\ opened < MaxRequests
  /\ opened' = opened + 1
  /\ open' = open \cup {opened'}
  /\ log' = [log EXCEPT ![c] = opened']
  /\ pc' = [pc EXCEPT ![c] = "request"]
  /\ UNCHANGED <<want, asked, pending, change_pending, posted, emulatorVars>>

StopTrace(c) ==
  /\ pc[c] = "idle"
  /\ log' = [log EXCEPT ![c] = None]
  /\ pc' = [pc EXCEPT ![c] = "request"]
  /\ UNCHANGED <<want, opened, asked, open, pending, change_pending, posted, emulatorVars>>

RequestUnnumbered(c) ==
  /\ pc[c] = "request"
  /\ Len(asked) < MaxRequests
  /\ open' = open \ {pending}
  /\ pending' = log[c]
  /\ asked' = Append(asked, log[c])
  /\ want' = [want EXCEPT ![c] = Len(asked)]
  /\ change_pending' = TRUE
  /\ pc' = [pc EXCEPT ![c] = "post"]
  /\ UNCHANGED <<log, opened, posted, emulatorVars>>

\* The first critical section of request_trace: a request not yet taken up is
\* replaced, and its capture's file closed as it goes.
RequestTrace(c) ==
  /\ pc[c] = "request"
  /\ Len(asked) < MaxRequests
  /\ open' = open \ {pending}
  /\ pending' = log[c]
  /\ asked' = Append(asked, log[c])
  /\ want' = [want EXCEPT ![c] = Len(asked')]
  /\ change_pending' = TRUE
  /\ pc' = [pc EXCEPT ![c] = "post"]
  /\ UNCHANGED <<log, opened, posted, emulatorVars>>

PostWakeForgotten(c) ==
  /\ pc[c] = "post"
  /\ pc' = [pc EXCEPT ![c] = "wait"]
  /\ UNCHANGED <<log, want, opened, asked, open, pending, change_pending, posted, emulatorVars>>

PostWake(c) ==
  /\ pc[c] = "post"
  /\ posted' = posted + 1
  /\ pc' = [pc EXCEPT ![c] = "wait"]
  /\ UNCHANGED <<log, want, opened, asked, open, pending, change_pending, emulatorVars>>

Release(c) ==
  /\ pc[c] = "wait"
  /\ applied >= want[c]
  /\ pc' = [pc EXCEPT ![c] = "idle"]
  /\ UNCHANGED <<log, want, opened, asked, open, pending, change_pending, posted, emulatorVars>>

-----------------------------------------------------------------------------
(* The emulator thread.                                                    *)

\* A run begins or ends when somebody says so; ending is the end of a command,
\* so the request flag is looked at.
StartRun ==
  /\ at = "free" /\ mode = "idle"
  /\ mode' = "run"
  /\ UNCHANGED <<clientVars, open, pending, change_pending, posted, applied, trace, hooked, at>>

EndRun ==
  /\ at = "free" /\ mode = "run"
  /\ mode' = "idle" /\ at' = "look"
  /\ UNCHANGED <<clientVars, open, pending, change_pending, posted, applied, trace, hooked>>

\* Instructions execute, and the hooked capture reaches its row limit or its
\* stop address and closes itself.
CaptureFills ==
  /\ at = "free" /\ mode = "run"
  /\ hooked \in open
  /\ open' = open \ {hooked}
  /\ UNCHANGED <<clientVars, pending, change_pending, posted, emulatorVars>>


\* Idle, actor_loop takes a command and then looks at the flag.
Pop ==
  /\ at = "free" /\ mode = "idle"
  /\ posted > 0
  /\ posted' = posted - 1
  /\ at' = "look"
  /\ UNCHANGED <<clientVars, open, pending, change_pending, applied, trace, hooked, mode>>

\* In a run, each yield looks at the flag, and then service_queue empties the
\* queue (an empty command has nothing else to do).
Yield ==
  /\ at = "free" /\ mode = "run"
  /\ at' = "look"
  /\ UNCHANGED <<clientVars, open, pending, change_pending, posted, applied, trace, hooked, mode>>

DrainQueue ==
  /\ at = "free" /\ mode = "run"
  /\ posted > 0
  /\ posted' = 0
  /\ UNCHANGED <<clientVars, open, pending, change_pending, emulatorVars>>

\* No request: only unhook a capture that has closed itself.
Look ==
  /\ at = "look"
  /\ IF change_pending
     THEN at' = "take" /\ UNCHANGED hooked
     ELSE at' = "free" /\ hooked' = IF trace \in open THEN hooked ELSE None
  /\ UNCHANGED <<clientVars, open, pending, change_pending, posted, applied, trace, mode>>

TakeWithoutClosing ==
  /\ at = "take"
  /\ open' = open
  /\ trace' = IF pending = None THEN trace ELSE pending
  /\ pending' = None
  /\ hooked' = IF trace' \in open' THEN trace' ELSE None
  /\ change_pending' = FALSE
  /\ applied' = Len(asked)
  /\ at' = "free"
  /\ UNCHANGED <<clientVars, posted, mode>>


\* The critical section of service_trace: close the outgoing capture, install
\* the pending one, release everybody who asked.
Take ==
  /\ at = "take"
  /\ open' = open \ {trace}
  /\ trace' = IF pending = None THEN trace ELSE pending
  /\ pending' = None
  /\ hooked' = IF trace' \in open' THEN trace' ELSE None
  /\ change_pending' = FALSE
  /\ applied' = Len(asked)
  /\ at' = "free"
  /\ UNCHANGED <<clientVars, posted, mode>>

-----------------------------------------------------------------------------
ClientStep(c) == RequestTrace(c) \/ PostWake(c) \/ Release(c)
EmulatorStep == Pop \/ Yield \/ Look \/ Take

Next ==
  \/ \E c \in Clients : StartTrace(c) \/ StopTrace(c) \/ ClientStep(c)
  \/ EmulatorStep
  \/ StartRun \/ EndRun \/ CaptureFills \/ DrainQueue

Spec == Init /\ [][Next]_vars

\* Both threads are scheduled; a run reaches its next yield, and one that is
\* not paused need never end.
Fairness == WF_vars(EmulatorStep) /\ \A c \in Clients : WF_vars(ClientStep(c))

FairSpec == Spec /\ Fairness

-----------------------------------------------------------------------------
(* Properties.                                                             *)

\* The state's shape.
TypeOK ==
  /\ pc \in [Clients -> {"idle", "request", "post", "wait"}]
  /\ log \in [Clients -> Captures \cup {None}]
  /\ want \in [Clients -> Nat]
  /\ opened \in 0..MaxRequests
  /\ open \in SUBSET Captures
  /\ pending \in Captures \cup {None}
  /\ change_pending \in BOOLEAN
  /\ asked \in Seq(Captures \cup {None})
  /\ applied \in Nat
  /\ trace \in Captures \cup {None}
  /\ hooked \in Captures \cup {None}
  /\ posted \in Nat
  /\ mode \in {"idle", "run"}
  /\ at \in {"free", "look", "take"}

\* machine_.trace is a plain pointer into the capture trace_ owns: it never
\* outlives it, whichever capture replaced which.
HookedIsInstalled == hooked # None => hooked = trace

\* No capture's file stays open with nobody to close it: an open one is
\* installed, waiting to be, or still in its caller's hands.
NoOrphanedCapture ==
  \A k \in open : k = trace \/ k = pending \/ \E c \in Busy : log[c] = k

\* Both: a capture is written while it is open and installed, and closed after.
CapturesKept == HookedIsInstalled /\ NoOrphanedCapture

\* A caller that returns has been heard: every capture asked for before its
\* own request is closed, and if it asked for a stop there is none left that
\* was asked for by then.
ReleasedMeansTaken ==
  [][\A c \in Clients :
       pc[c] = "wait" /\ pc'[c] = "idle" =>
         \A i \in 1..Len(asked) :
           i < want[c] \/ (i = want[c] /\ log[c] = None) => asked[i] \notin open]_vars

\* Where a caller is in the abstract handover: its request counts as taken up
\* once the emulator thread has been through its critical section with it.
Stage(c) ==
  IF pc[c] \in {"idle", "request"} THEN "idle"
  ELSE IF want[c] <= applied THEN "taken" ELSE "asked"

Promise == INSTANCE Handover WITH stage <- [c \in Clients |-> Stage(c)]

\* The code's handover is the one its comments promise.
HandedOver == Promise!Spec

=============================================================================
