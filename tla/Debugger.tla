------------------------------ MODULE Debugger ------------------------------
(***************************************************************************)
(* The front ends over one Engine: DAP connections (cpp-core/src/dap.cpp)  *)
(* and MCP requests (mcp_server.cpp).                                      *)
(*                                                                         *)
(* Every connection has a thread of its own that handles one request after *)
(* another, and may leave a detached thread behind that drives a run.  The *)
(* Engine has ONE flat set of breakpoints, one running_ flag, one pause    *)
(* flag and one stop handler, which the front ends reconcile and fan out.  *)
(* A call into the Engine that is an ordinary queued command is one step:  *)
(* Engine shows that a run services it.  A run waits its turn.             *)
(***************************************************************************)
EXTENDS Naturals, Sequences, SequencesExt

Requests == {"setBreakpoints", "setExceptionBreakpoints", "configurationDone", "agentBreakpoint",
             "continue", "nextOver", "nextHalt", "step", "reset", "pause", "disconnect"}

CONSTANTS
  Conns,        \* DAP connections
  Agents,       \* MCP clients, each with one request at a time
  Keys,         \* breakpoints: RomSource::bank_key of an address and a bank
  May,          \* which requests the clients make
  Audience,     \* the connections whose events are followed
  Drivers,      \* the clients that run the machine
  Categories,   \* a connection's source paths, and its instruction breakpoints
  MaxRequests,  \* bound: requests of all the clients together
  None

Clients == Conns \cup Agents
Handler(c) == <<c, "handler">>    \* the thread that serves a client's requests
Runner(c)  == <<c, "runner">>     \* the detached thread it may have left
Actors == {Handler(c) : c \in Clients} \cup {Runner(c) : c \in Clients}

ASSUME DebuggerAssumption ==
  /\ MaxRequests \in Nat
  /\ None \notin Keys \cup Actors
  /\ Conns \cap Agents = {} /\ "mcp" \notin Conns
  /\ May \subseteq Requests
  /\ Audience \subseteq Conns
  /\ Drivers \subseteq Conns \cup Agents

VARIABLES
  breaks,        \* Spectrum::breakpoints
  on_interrupt,  \* break_on_interrupt_
  running,       \* running_
  pause,         \* pause_requested_
  queue,         \* drivers (runs and steps) waiting for the emulator thread
  owner,         \* the driver that has it, or None
  wants,         \* source_breakpoints and instruction_breakpoints
  known,         \* known_breakpoints
  todo,          \* what is left of the loops of sync_breakpoints
  connected,     \* g_connections, in the order they came
  pc,            \* where each client's handler is
  thread,        \* its detached thread: what it runs, where it is, its temporary key
  mail,          \* an actor's broadcast: the event, and who has yet to get it
  view,          \* what each connection last heard
  requests,      \* how many the clients have made
  configured,    \* connections that have been through configurationDone
  agent_keys,    \* what MCP clients have set and not cleared
  contested      \* keys two owners have claimed at once (history)

engine == <<breaks, on_interrupt, running, pause, queue, owner>>
sets == <<wants, known, todo>>
vars == <<engine, sets, connected, pc, thread, mail, view, requests, configured, agent_keys, contested>>

NoMail == [event |-> "stopped", to |-> <<>>]
NoThread == [kind |-> "none", at |-> "done", temp |-> None]

Init ==
  /\ breaks = {} /\ on_interrupt = FALSE /\ running = FALSE /\ pause = FALSE
  /\ queue = <<>> /\ owner = None
  /\ wants = [c \in Conns |-> [k \in Categories |-> {}]]
  /\ known = [c \in Conns |-> {}]
  /\ todo = [c \in Conns |-> [add |-> {}, drop |-> {}]]
  /\ connected = <<>>
  /\ pc = [c \in Clients |-> IF c \in Conns THEN "absent" ELSE "idle"]
  /\ thread = [c \in Clients |-> NoThread]
  /\ mail = [a \in Actors |-> NoMail]
  /\ view = [c \in Conns |-> "running"]
  /\ requests = 0
  /\ agent_keys = {}
  /\ configured = {}
  /\ contested = {}

-----------------------------------------------------------------------------
(* Who claims a key.  The history variable takes, after every step, the    *)
(* keys more than one owner claims and those cleared by somebody who does  *)
(* not hold them: nobody's breakpoint is safe there, by design.            *)

Open == ToSet(connected)
Desired(c) == UNION {wants[c][k] : k \in Categories}
Armed(c) == thread[c].temp # None /\ thread[c].at \notin {"arm", "done"}

Claims(k) == {<<c, "set">> : c \in {d \in Conns : k \in known[d] \cup Desired(d)}}
        \cup {<<c, "temp">> : c \in {d \in Clients : thread[d].temp = k}}
        \cup {<<"mcp", "set">> : x \in agent_keys \cap {k}}

Observe == contested' = contested \cup {k \in Keys : \E x, y \in Claims(k)' : x # y}

-----------------------------------------------------------------------------
(* Events.  broadcast_event copies the list of connections under its lock  *)
(* and sends to each of them afterwards.                                   *)

Broadcast(a, event) == mail' = [mail EXCEPT ![a] = [event |-> event, to |-> SelectSeq(connected, LAMBDA c : c \in Audience)]]
Sent(a) == mail[a].to = <<>>

Send(a) ==
  /\ ~Sent(a)
  /\ view' = [view EXCEPT ![Head(mail[a].to)] = mail[a].event]
  /\ mail' = [mail EXCEPT ![a].to = Tail(@)]
  /\ UNCHANGED <<engine, sets, connected, pc, thread, requests, configured, agent_keys, contested>>

-----------------------------------------------------------------------------
(* A connection and its breakpoints.                                       *)

\* serve_dap: into g_connections before its thread reads anything.
Connect(c) ==
  /\ pc[c] = "absent"
  /\ pc' = [pc EXCEPT ![c] = "idle"]
  /\ connected' = Append(connected, c)
  /\ UNCHANGED <<engine, sets, thread, mail, view, requests, configured, agent_keys, contested>>

\* A client's next request, answered before it sends another.
Request(c, kind) ==
  /\ kind \in May
  /\ pc[c] = "idle" /\ Sent(Handler(c))
  /\ requests < MaxRequests
  /\ requests' = requests + 1

Goto(c, label) == pc' = [pc EXCEPT ![c] = label]


\* sync_breakpoints: set what is newly wanted, then clear what no longer is,
\* over both categories together.
Sync(c, k, keys) ==
  LET desired == keys \cup UNION {wants[c][j] : j \in Categories \ {k}}
  IN todo' = [todo EXCEPT ![c] = [add |-> desired \ known[c], drop |-> known[c] \ desired]]

\* setInstructionBreakpoints, setBreakpoints: replace one category.
SetBreakpoints(c, k, keys) ==
  /\ Request(c, "setBreakpoints")
  /\ wants' = [wants EXCEPT ![c][k] = keys]
  /\ Sync(c, k, keys)
  /\ Goto(c, "sync")
  /\ UNCHANGED <<engine, known, connected, thread, mail, view, configured, agent_keys>>
  /\ Observe

AddKey(c, k) ==
  /\ k \in todo[c].add
  /\ breaks' = breaks \cup {k}
  /\ todo' = [todo EXCEPT ![c].add = @ \ {k}]
  /\ UNCHANGED <<on_interrupt, running, pause, queue, owner, wants, known, connected, pc,
                 thread, mail, view, requests, configured, agent_keys, contested>>

DropKey(c, k) ==
  /\ todo[c].add = {} /\ k \in todo[c].drop
  /\ breaks' = breaks \ {k}
  /\ todo' = [todo EXCEPT ![c].drop = @ \ {k}]
  /\ UNCHANGED <<on_interrupt, running, pause, queue, owner, wants, known, connected, pc,
                 thread, mail, view, requests, configured, agent_keys, contested>>

\* The loops are done: the request is answered, or the connection is off the list.
Synced(c) ==
  /\ pc[c] \in {"sync", "leaving"}
  /\ todo[c] = [add |-> {}, drop |-> {}]
  /\ known' = [known EXCEPT ![c] = IF pc[c] = "sync" THEN Desired(c) ELSE {}]
  /\ Goto(c, IF pc[c] = "sync" THEN "idle" ELSE "gone")
  /\ connected' = IF pc[c] = "sync" THEN connected
                 ELSE RemoveAt(connected, CHOOSE i \in DOMAIN connected : connected[i] = c)
  /\ wants' = IF pc[c] = "sync" THEN wants ELSE [wants EXCEPT ![c] = [k \in Categories |-> {}]]
  /\ UNCHANGED <<engine, todo, thread, mail, view, requests, configured, agent_keys, contested>>

LeaveAtOnce(c) ==
  /\ pc[c] = "idle" /\ Sent(Handler(c)) /\ c \in Conns
  /\ todo' = [todo EXCEPT ![c].drop = {}]
  /\ Goto(c, "leaving")
  /\ UNCHANGED <<engine, wants, known, connected, thread, mail, view, requests, configured, agent_keys, contested>>

\* The socket closes (handle_connection): clear everything it had set.
Leave(c) ==
  /\ pc[c] = "idle" /\ Sent(Handler(c)) /\ c \in Conns
  /\ todo' = [todo EXCEPT ![c].drop = known[c]]
  /\ Goto(c, "leaving")
  /\ UNCHANGED <<engine, wants, known, connected, thread, mail, view, requests, configured, agent_keys, contested>>

\* setExceptionBreakpoints: an absolute list, and one flag for everybody.
SetExceptionBreakpoints(c, on) ==
  /\ Request(c, "setExceptionBreakpoints") /\ c \in Conns
  /\ on_interrupt' = on
  /\ UNCHANGED <<breaks, running, pause, queue, owner, sets, connected, pc, thread, mail, view,
                 configured, agent_keys, contested>>

\* configurationDone: answered, then running() is read, and a stopped machine
\* is announced to this connection alone.
ConfigurationDone(c) ==
  /\ Request(c, "configurationDone") /\ c \in Conns
  /\ mail' = IF running THEN mail
             ELSE [mail EXCEPT ![Handler(c)] = [event |-> "stopped", to |-> <<c>>]]
  /\ configured' = configured \cup {c}
  /\ UNCHANGED <<engine, sets, connected, pc, thread, view, agent_keys, contested>>

\* set_breakpoint and clear_breakpoint of an MCP client.
AgentSet(a, k) ==
  /\ Request(a, "agentBreakpoint") /\ a \in Agents
  /\ breaks' = breaks \cup {k}
  /\ agent_keys' = agent_keys \cup {k}
  /\ UNCHANGED <<on_interrupt, running, pause, queue, owner, sets, connected, pc, thread, mail, view, configured>>
  /\ Observe

AgentClear(a, k) ==
  /\ Request(a, "agentBreakpoint") /\ a \in Agents
  /\ breaks' = breaks \ {k}
  /\ agent_keys' = agent_keys \ {k}
  /\ contested' = contested \cup (IF Claims(k) \ {<<"mcp", "set">>} = {} THEN {} ELSE {k})
  /\ UNCHANGED <<on_interrupt, running, pause, queue, owner, sets, connected, pc, thread, mail, view, configured>>

-----------------------------------------------------------------------------
(* Driving the machine.                                                    *)

\* A detached thread; the bound is one of each client at a time.
Spawn(c, kind, temp) ==
  /\ c \in Drivers
  /\ thread[c].at = "done"
  /\ thread' = [thread EXCEPT ![c] =
       [kind |-> kind, at |-> IF temp = None THEN "begin" ELSE "arm", temp |-> temp]]

\* continue, and run over MCP: one that does not wait looks at running() first,
\* and may still start behind another's, as one that waits does.
Continue(c) ==
  /\ Request(c, "continue")
  /\ Spawn(c, "run", None)
  /\ UNCHANGED <<engine, sets, connected, pc, mail, view, configured, agent_keys, contested>>

\* next over a call or a block repeat: run to a temporary breakpoint, unless
\* this connection already has one there.
NextOver(c, k) ==
  /\ Request(c, "nextOver") /\ c \in Conns
  /\ Spawn(c, "run", IF k \in known[c] THEN None ELSE k)
  /\ UNCHANGED <<engine, sets, connected, pc, mail, view, configured, agent_keys>>
  /\ Observe

\* next over a HALT: step_over_halt, which neither marks a run nor announces one.
NextHalt(c) ==
  /\ Request(c, "nextHalt") /\ c \in Conns
  /\ Spawn(c, "halt", None)
  /\ UNCHANGED <<engine, sets, connected, pc, mail, view, configured, agent_keys, contested>>

\* stepIn, or next over anything else, and launch's reset: queued on the
\* handler's own thread, which announces the stop before it answers.
Step(c) ==
  /\ Request(c, "step")
  /\ queue' = Append(queue, Handler(c))
  /\ Goto(c, "stepping")
  /\ UNCHANGED <<breaks, on_interrupt, running, pause, owner, sets, connected, thread, mail, view,
                 configured, agent_keys, contested>>

Reset(c) ==
  /\ Request(c, "reset")
  /\ Broadcast(Handler(c), "stopped")
  /\ UNCHANGED <<engine, sets, connected, pc, thread, view, configured, agent_keys, contested>>

\* pause: running() is read first, and decides below who announces the stop.
Pause(c) ==
  /\ Request(c, "pause")
  /\ Goto(c, IF running \/ c \in Agents THEN "interrupt" ELSE "interrupt_and_tell")
  /\ UNCHANGED <<engine, sets, connected, thread, mail, view, configured, agent_keys, contested>>


Interrupt(c) ==
  /\ pc[c] \in {"interrupt", "interrupt_and_tell"}
  /\ pause' = TRUE
  /\ Goto(c, "idle")
  /\ IF pc[c] = "interrupt_and_tell" THEN Broadcast(Handler(c), "stopped") ELSE UNCHANGED mail
  /\ UNCHANGED <<breaks, on_interrupt, running, queue, owner, sets, connected, thread, view,
                 requests, configured, agent_keys, contested>>

\* disconnect and terminate pause, so that a run does not outlive the session.
Disconnect(c) ==
  /\ Request(c, "disconnect") /\ c \in Conns
  /\ pause' = TRUE
  /\ UNCHANGED <<breaks, on_interrupt, running, queue, owner, sets, connected, pc, thread, mail, view,
                 configured, agent_keys, contested>>

At(c, label) == thread[c].at = label /\ Sent(Runner(c))
Move(c, label) == thread' = [thread EXCEPT ![c].at = label]

Arm(c) ==
  /\ At(c, "arm")
  /\ breaks' = breaks \cup {thread[c].temp}
  /\ Move(c, "begin")
  /\ UNCHANGED <<on_interrupt, running, pause, queue, owner, sets, connected, pc, mail, view,
                 requests, configured, agent_keys, contested>>

\* Engine::run up to its job: clear an old pause, mark, announce.  (Engine
\* has the two stores as steps of their own; nobody here can tell.)
Begin(c) ==
  /\ At(c, "begin")
  /\ pause' = FALSE
  /\ Move(c, "submit")
  /\ IF thread[c].kind = "run"
     THEN running' = TRUE /\ Broadcast(Runner(c), "continued")
     ELSE UNCHANGED <<running, mail>>
  /\ UNCHANGED <<breaks, on_interrupt, queue, owner, sets, connected, pc, view, requests,
                 configured, agent_keys, contested>>

Submit(c) ==
  /\ At(c, "submit")
  /\ queue' = Append(queue, Runner(c))
  /\ Move(c, "wait")
  /\ UNCHANGED <<breaks, on_interrupt, running, pause, owner, sets, connected, pc, mail, view,
                 requests, configured, agent_keys, contested>>

\* The emulator thread takes the next driver.
Take ==
  /\ owner = None /\ queue # <<>>
  /\ owner' = Head(queue) /\ queue' = Tail(queue)
  /\ UNCHANGED <<breaks, on_interrupt, running, pause, sets, connected, pc, thread, mail, view,
                 requests, configured, agent_keys, contested>>

\* A step ends by itself.  A run ends at a breakpoint, a wanted interrupt or a
\* pause, step_over_halt at its target or a pause; a run clears running_.
Finish ==
  /\ owner # None
  /\ LET c == owner[1] IN
       IF owner = Handler(c)
       THEN /\ Goto(c, "stepped")
            /\ UNCHANGED <<thread, running>>
       ELSE /\ thread[c].kind = "halt" \/ pause \/ breaks # {} \/ on_interrupt
            /\ Move(c, "return")
            /\ running' = IF thread[c].kind = "run" THEN FALSE ELSE running
            /\ UNCHANGED pc
  /\ owner' = None
  /\ UNCHANGED <<breaks, on_interrupt, pause, queue, sets, connected, mail, view, requests,
                 configured, agent_keys, contested>>

AnnounceStep(c) ==
  /\ pc[c] = "stepped"
  /\ Broadcast(Handler(c), "stopped")
  /\ Goto(c, "idle")
  /\ UNCHANGED <<engine, sets, connected, thread, view, requests, configured, agent_keys, contested>>

ReturnSilently(c) ==
  /\ At(c, "return")
  /\ running' = IF thread[c].kind = "run" THEN FALSE ELSE running
  /\ IF pause THEN UNCHANGED mail ELSE Broadcast(Runner(c), "stopped")
  /\ Move(c, "disarm")
  /\ UNCHANGED <<breaks, on_interrupt, pause, queue, owner, sets, connected, pc, view, requests,
                 configured, agent_keys, contested>>

\* The rest of Engine::run: clear running_ again, announce the stop.
Return(c) ==
  /\ At(c, "return")
  /\ running' = IF thread[c].kind = "run" THEN FALSE ELSE running
  /\ Broadcast(Runner(c), "stopped")
  /\ Move(c, "disarm")
  /\ UNCHANGED <<breaks, on_interrupt, pause, queue, owner, sets, connected, pc, view, requests,
                 configured, agent_keys, contested>>

\* next's thread clears the breakpoint it set.
Disarm(c) ==
  /\ At(c, "disarm")
  /\ breaks' = breaks \ {thread[c].temp}
  /\ thread' = [thread EXCEPT ![c] = NoThread]
  /\ UNCHANGED <<on_interrupt, running, pause, queue, owner, sets, connected, pc, mail, view,
                 requests, configured, agent_keys, contested>>

-----------------------------------------------------------------------------
Serve(c) ==
  \/ c \in Conns /\ (Synced(c) \/ \E k \in Keys : AddKey(c, k) \/ DropKey(c, k))
  \/ Interrupt(c) \/ AnnounceStep(c)

Drive(c) == Arm(c) \/ Begin(c) \/ Submit(c) \/ Return(c) \/ Disarm(c)

Ask(c) ==
  \/ c \in Conns /\ \/ Connect(c) \/ Leave(c) \/ Disconnect(c) \/ ConfigurationDone(c) \/ NextHalt(c)
                    \/ \E k \in Categories, keys \in SUBSET Keys : SetBreakpoints(c, k, keys)
                    \/ \E on \in BOOLEAN : SetExceptionBreakpoints(c, on)
                    \/ \E k \in Keys : NextOver(c, k)
  \/ c \in Agents /\ \E k \in Keys : AgentSet(c, k) \/ AgentClear(c, k)
  \/ Continue(c) \/ Step(c) \/ Reset(c) \/ Pause(c)

Next ==
  \/ \E c \in Clients : Ask(c) \/ Serve(c) \/ Drive(c)
  \/ \E a \in Actors : Send(a)
  \/ Take \/ Finish

Spec == Init /\ [][Next]_vars

\* The threads run; nobody has to ask for anything.  Finish is fair in that a
\* run looks at the pause flag before every instruction, and a breakpoint that
\* can be hit may still never be: hence only a pause makes it certain.
FairSpec ==
  /\ Spec
  /\ \A c \in Clients : WF_vars(Serve(c)) /\ WF_vars(Drive(c))
  /\ \A a \in Actors : WF_vars(Send(a))
  /\ WF_vars(Take)
  /\ WF_vars(Finish /\ (pause \/ owner = Handler(owner[1]) \/ thread[owner[1]].kind = "halt"))

-----------------------------------------------------------------------------
(* Properties.                                                             *)

\* Every breakpoint in the Engine has somebody who set it and will clear it:
\* a connection that is still there, a step over in flight, or an MCP client.
\* Nothing of a connection that has gone stays armed.
NoOrphanedBreakpoint ==
  \A k \in breaks \ contested :
    \/ k \in agent_keys
    \/ \E c \in Clients : Armed(c) /\ thread[c].temp = k
    \/ \E c \in Open : k \in known[c] \cup Desired(c)

\* A breakpoint a connection has set stays armed, whatever the other category,
\* the other clients and the steps over do, as long as nobody else ever laid a
\* hand on the same address.
UncontestedStaysArmed ==
  \A c \in Open : pc[c] \in {"idle", "stepping", "stepped", "interrupt", "interrupt_and_tell"} =>
    known[c] = Desired(c) /\ known[c] \ contested \subseteq breaks

\* What is armed is what those who are there have asked for.
ArmedAsAsked == NoOrphanedBreakpoint /\ UncontestedStaysArmed

\* The same of one client's own key, without the exemption: a step over does
\* not clear a breakpoint the user actually set there.
StepKeepsBreakpoints ==
  \A c \in Open : pc[c] = "idle" => known[c] \subseteq breaks

Quiet == /\ queue = <<>> /\ owner = None
         /\ \A c \in Clients : pc[c] \in {"absent", "idle", "gone"} /\ thread[c].at = "done"
         /\ \A a \in Actors : Sent(a)

\* Once everything in flight is over, every connection that has
\* finished its handshake has heard last that it is stopped, whenever it joined,
\* in whatever order the broadcasts of different threads were delivered to it.
EveryoneHearsOfStop ==
  Quiet => ~running /\ \A c \in Open \cap configured : view[c] = "stopped"

\* A client that pauses is told of a stop, whether its pause interrupted a run
\* or found the machine stopped, and is not left with a dead Pause button.
PauseIsTold ==
  \A c \in Conns :
    (pc[c] \in {"interrupt", "interrupt_and_tell"}) ~> (c \notin Open \/ view[c] = "stopped")

\* Both: whoever is to hear of a stop does.
StopsAreTold == [][EveryoneHearsOfStop']_vars /\ PauseIsTold
=============================================================================
