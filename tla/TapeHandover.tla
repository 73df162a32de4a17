---------------------------- MODULE TapeHandover ----------------------------
(***************************************************************************)
(* Commands to the tape deck (cpp-core/src/engine.cpp: request_tape,       *)
(* set_tape_fast_load, load_tape, service_queue, service_tape).            *)
(*                                                                         *)
(* The same counter pair as the trace handover, but the emulator thread    *)
(* answers in two critical sections: one takes the pending command up, and *)
(* after it has walked the tape forward another publishes the deck's       *)
(* status and releases the callers.                                        *)
(***************************************************************************)
EXTENDS Naturals, Sequences

CONSTANTS
  Clients,      \* the threads that use the deck
  Commands,     \* tape_play, tape_stop, tape_rewind, tape_seek, tape_eject
  NoCommand,    \* TapeCommand::None: a request for a fresh status
  MaxCalls      \* bound: calls made

Wake == "wake"  \* the empty command that a request queues

ASSUME TapeAssumption == MaxCalls \in Nat /\ NoCommand \notin Commands /\ Wake \notin Clients

VARIABLES
  pc,             \* each client: "idle", "insert", "request", "post", "wait"
  what,           \* the command it asks for
  want,           \* the request number it waits for
  begun,          \* calls begun
  image,          \* the number of the tape it inserted, 0 for any other call
  pending,        \* pending_tape_
  change_pending, \* tape_change_pending_
  fast,           \* tape_fast_load_, set by any thread
  requested,      \* tape_requested_
  applied,        \* tape_applied_
  taken,          \* requests that had been made when a command was last taken up
  last,           \* the last command asked for
  deck,           \* the machine's deck: its last command, tape and fast load
  status,         \* live_tape_status_
  jobs,           \* the queue: empty commands, and the clients inserting a tape
  mode,           \* "idle", or "run" while a run owns the emulator thread
  at              \* the emulator thread: "free", "queue", "look", "take", "publish"

clientVars   == <<pc, what, want, image, begun>>
requestVars  == <<pending, change_pending, requested, last>>
emulatorVars == <<applied, taken, deck, status, mode, at>>
vars == <<clientVars, requestVars, fast, jobs, emulatorVars>>

EmptyDeck == [command |-> NoCommand, tape |-> 0, fast |-> TRUE]

Init ==
  /\ pc = [c \in Clients |-> "idle"]
  /\ what = [c \in Clients |-> NoCommand]
  /\ want = [c \in Clients |-> 0]
  /\ image = [c \in Clients |-> 0]
  /\ begun = 0
  /\ pending = NoCommand
  /\ change_pending = FALSE
  /\ fast = TRUE
  /\ requested = 0
  /\ applied = 0
  /\ taken = 0
  /\ last = NoCommand
  /\ deck = EmptyDeck
  /\ status = EmptyDeck
  /\ jobs = <<>>
  /\ mode = "idle"
  /\ at = "free"

-----------------------------------------------------------------------------
(* The callers.                                                            *)

Begin(c, label, command) ==
  /\ pc[c] = "idle"
  /\ begun < MaxCalls
  /\ begun' = begun + 1
  /\ pc' = [pc EXCEPT ![c] = label]
  /\ what' = [what EXCEPT ![c] = command]
  /\ image' = [image EXCEPT ![c] = 0]

\* tape_play and the rest.
AskCommand(c) ==
  /\ \E command \in Commands : Begin(c, "request", command)
  /\ UNCHANGED <<want, requestVars, fast, jobs, emulatorVars>>

\* set_tape_fast_load: the atomic first, then an empty request.
SetFastLoad(c) ==
  /\ Begin(c, "request", NoCommand)
  /\ fast' = ~fast
  /\ UNCHANGED <<want, requestVars, jobs, emulatorVars>>

\* load_tape: a queued command, then an empty request for its status.
LoadTape(c) ==
  /\ Begin(c, "insert", NoCommand)
  /\ jobs' = Append(jobs, c)
  /\ UNCHANGED <<want, requestVars, fast, emulatorVars>>

RequestOverwriting(c) ==
  /\ pc[c] = "request"
  /\ pending' = what[c]
  /\ last' = IF what[c] = NoCommand THEN last ELSE what[c]
  /\ requested' = requested + 1
  /\ want' = [want EXCEPT ![c] = requested']
  /\ change_pending' = TRUE
  /\ pc' = [pc EXCEPT ![c] = "post"]
  /\ UNCHANGED <<what, image, begun, fast, jobs, emulatorVars>>

\* The first critical section of request_tape: a command replaces the one not
\* yet taken up, an empty request replaces nothing.
RequestTape(c) ==
  /\ pc[c] = "request"
  /\ pending' = IF what[c] = NoCommand THEN pending ELSE what[c]
  /\ last' = IF what[c] = NoCommand THEN last ELSE what[c]
  /\ requested' = requested + 1
  /\ want' = [want EXCEPT ![c] = requested']
  /\ change_pending' = TRUE
  /\ pc' = [pc EXCEPT ![c] = "post"]
  /\ UNCHANGED <<what, image, begun, fast, jobs, emulatorVars>>

PostWake(c) ==
  /\ pc[c] = "post"
  /\ jobs' = Append(jobs, Wake)
  /\ pc' = [pc EXCEPT ![c] = "wait"]
  /\ UNCHANGED <<what, want, image, begun, requestVars, fast, emulatorVars>>

Release(c) ==
  /\ pc[c] = "wait"
  /\ applied >= want[c]
  /\ pc' = [pc EXCEPT ![c] = "idle"]
  /\ UNCHANGED <<what, want, image, begun, requestVars, fast, jobs, emulatorVars>>

-----------------------------------------------------------------------------
(* The emulator thread.                                                    *)

InsertUnpublished(c) ==
  \/ /\ deck' = [deck EXCEPT !.tape = @ + 1, !.fast = fast]
     /\ image' = [image EXCEPT ![c] = deck'.tape]
     /\ pc' = [pc EXCEPT ![c] = "idle"]
  \/ /\ pc' = [pc EXCEPT ![c] = "idle"]
     /\ UNCHANGED <<deck, image>>

\* The insert's job: the image parses and the deck takes it and the fast load
\* setting, or it does not and the caller is told so.
Insert(c) ==
  \/ /\ deck' = [deck EXCEPT !.tape = @ + 1, !.fast = fast]
     /\ image' = [image EXCEPT ![c] = deck'.tape]
     /\ pc' = [pc EXCEPT ![c] = "request"]
  \/ /\ pc' = [pc EXCEPT ![c] = "idle"]
     /\ UNCHANGED <<deck, image>>

Execute(job) ==
  IF job = Wake THEN UNCHANGED <<pc, image, deck>> ELSE Insert(job)

RunOldestJob ==
  /\ jobs # <<>>
  /\ jobs' = Tail(jobs)
  /\ Execute(Head(jobs))
  /\ UNCHANGED <<what, want, begun, requestVars, fast, applied, taken, status, mode>>

\* Idle, actor_loop takes one command and then services the deck.
Pop == at = "free" /\ mode = "idle" /\ at' = "look" /\ RunOldestJob

StartRun ==
  /\ at = "free" /\ mode = "idle"
  /\ mode' = "run"
  /\ UNCHANGED <<clientVars, requestVars, fast, jobs, applied, taken, deck, status, at>>

EndRun ==
  /\ at = "free" /\ mode = "run"
  /\ mode' = "idle" /\ at' = "look"
  /\ UNCHANGED <<clientVars, requestVars, fast, jobs, applied, taken, deck, status>>

\* At a yield, the queue is emptied before the deck is serviced.
Yield ==
  /\ at = "free" /\ mode = "run"
  /\ at' = "queue"
  /\ UNCHANGED <<clientVars, requestVars, fast, jobs, applied, taken, deck, status, mode>>

ServiceQueue == at = "queue" /\ at' = "queue" /\ RunOldestJob

QueueServiced ==
  /\ at = "queue" /\ jobs = <<>>
  /\ at' = "look"
  /\ UNCHANGED <<clientVars, requestVars, fast, jobs, applied, taken, deck, status, mode>>

Look ==
  /\ at = "look"
  /\ at' = IF change_pending THEN "take" ELSE "publish"
  /\ UNCHANGED <<clientVars, requestVars, fast, jobs, applied, taken, deck, status, mode>>


\* The first critical section of service_tape: the fast load setting and the
\* pending command reach the deck.
Take ==
  /\ at = "take"
  /\ deck' = [deck EXCEPT !.command = IF pending = NoCommand THEN @ ELSE pending,
                          !.fast = fast]
  /\ taken' = requested
  /\ pending' = NoCommand
  /\ change_pending' = FALSE
  /\ at' = "publish"
  /\ UNCHANGED <<clientVars, requested, last, fast, jobs, applied, status, mode>>



\* The second: the status is published and everybody who has asked is let go.
Publish ==
  /\ at = "publish"
  /\ status' = deck
  /\ applied' = requested
  /\ at' = "free"
  /\ UNCHANGED <<clientVars, requestVars, fast, jobs, taken, deck, mode>>

-----------------------------------------------------------------------------
ClientStep(c) == RequestTape(c) \/ PostWake(c) \/ Release(c)
EmulatorStep == Pop \/ Yield \/ ServiceQueue \/ QueueServiced \/ Look \/ Take \/ Publish

Next ==
  \/ \E c \in Clients : AskCommand(c) \/ SetFastLoad(c) \/ LoadTape(c) \/ ClientStep(c)
  \/ EmulatorStep
  \/ StartRun \/ EndRun

Spec == Init /\ [][Next]_vars

-----------------------------------------------------------------------------
(* Properties.                                                             *)

Decks == [command : Commands \cup {NoCommand}, tape : Nat, fast : BOOLEAN]

\* The state's shape.
TypeOK ==
  /\ pc \in [Clients -> {"idle", "insert", "request", "post", "wait"}]
  /\ what \in [Clients -> Commands \cup {NoCommand}]
  /\ want \in [Clients -> Nat]
  /\ image \in [Clients -> Nat]
  /\ begun \in 0..MaxCalls
  /\ pending \in Commands \cup {NoCommand}
  /\ last \in Commands \cup {NoCommand}
  /\ change_pending \in BOOLEAN /\ fast \in BOOLEAN
  /\ requested \in Nat /\ taken \in 0..requested /\ applied \in 0..requested
  /\ deck \in Decks /\ status \in Decks
  /\ jobs \in Seq(Clients \cup {Wake})
  /\ mode \in {"idle", "run"}
  /\ at \in {"free", "queue", "look", "take", "publish"}

\* What callers ask for reaches the deck.  Play then Stop inside one yield means
\* Stop, and an insert or a setting beside them changes nothing about that: with
\* no command pending, the deck has had the last one.  With no request on its way
\* the deck has the fast-load setting, whichever tape was put in meanwhile.  And a
\* request that waits is one the emulator thread will still look at, however it
\* fell between the two critical sections.
RequestsReach ==
  /\ pending = NoCommand => deck.command = last
  /\ ~change_pending /\ (\A c \in Clients : pc[c] # "request") => deck.fast = fast
  /\ \A c \in Clients : pc[c] \in {"post", "wait"} /\ want[c] > taken => change_pending

\* load_tape returns only once the published status describes the tape it put
\* in, or a later one.
InsertSeen ==
  [][\A c \in Clients :
       pc[c] # "idle" /\ pc'[c] = "idle" => status.tape >= image'[c]]_vars
=============================================================================
