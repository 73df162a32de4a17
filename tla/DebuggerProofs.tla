--------------------------- MODULE DebuggerProofs ---------------------------
(***************************************************************************)
(* What holds of the breakpoints of any number of front ends: the          *)
(* theorems TLAPS proves about module Debugger.                            *)
(*                                                                         *)
(* The inductive invariant says, of a key nobody has contested, that its   *)
(* holder is the only one (Alone); and of a connection, wherever it is in  *)
(* sync_breakpoints, that what it wants is armed but for what it has yet   *)
(* to add (Kept), and what it no longer wants is not armed but for what it *)
(* has yet to drop (Dropped).                                              *)
(***************************************************************************)
EXTENDS Debugger, SequenceTheorems, TLAPS

Labels == {"absent", "idle", "sync", "leaving", "gone", "stepping", "stepped", "interrupt", "interrupt_and_tell"}
Places == {"done", "arm", "begin", "submit", "wait", "return", "disarm"}
Threads == [Clients -> [kind : {"none", "run", "halt"}, at : Places, temp : Keys \cup {None}]]

\* The shape of what the breakpoints depend on.
Shape ==
  /\ breaks \subseteq Keys /\ agent_keys \subseteq Keys
  /\ wants \in [Conns -> [Categories -> SUBSET Keys]]
  /\ known \in [Conns -> SUBSET Keys]
  /\ todo \in [Conns -> [add : SUBSET Keys, drop : SUBSET Keys]]
  /\ pc \in [Clients -> Labels]
  /\ thread \in Threads
  /\ connected \in Seq(Conns)
  /\ queue \in Seq(Actors) /\ owner \in Actors \cup {None}

\* A handler that is in the queue, or has the emulator thread, is there once
\* and waits for it.
Queued ==
  \A c \in Clients :
    /\ owner = Handler(c) => pc[c] = "stepping"
    /\ \A i \in 1..Len(queue) :
         queue[i] = Handler(c) =>
           /\ pc[c] = "stepping" /\ owner # Handler(c)
           /\ \A j \in 1..Len(queue) : queue[j] = Handler(c) => i = j

\* A connection that serves requests is in g_connections, and a thread that is
\* to set a temporary breakpoint has one to set.
Seated == \A c \in Conns : pc[c] \notin {"absent", "gone"} => c \in Open
TempNamed == \A c \in Clients : thread[c].at = "arm" => thread[c].temp # None

Held(c) == known[c] \cup Desired(c)

Alone ==
  \A c \in Conns : \A k \in Held(c) \ contested :
    /\ k \notin agent_keys
    /\ \A d \in Conns : k \in Held(d) => c = d
    /\ \A d \in Clients : thread[d].temp # k

\* What is left of the loops, and what there is when none runs.
Reconciles ==
  \A c \in Conns :
    /\ pc[c] # "sync" => known[c] = Desired(c) /\ todo[c].add = {}
    /\ pc[c] \notin {"sync", "leaving"} => todo[c].drop = {}
    /\ todo[c].add \subseteq Desired(c) /\ todo[c].drop \subseteq known[c]
    /\ pc[c] = "sync" => todo[c].drop \cap Desired(c) = {}

Kept ==
  \A c \in Conns : pc[c] # "leaving" => (Desired(c) \ todo[c].add) \ contested \subseteq breaks

Leftover(c) == (IF pc[c] = "leaving" THEN known[c] ELSE known[c] \ Desired(c)) \ todo[c].drop

Dropped == \A c \in Conns : Leftover(c) \cap breaks \subseteq contested

Desks == Seated /\ TempNamed /\ Alone /\ Reconciles /\ Kept /\ Dropped /\ NoOrphanedBreakpoint

DInv == Shape /\ Queued /\ Desks

-----------------------------------------------------------------------------
(* Lemmas about the operators.                                             *)

\* RemoveAt keeps everything else, and a sequence over the same set.
LEMMA RemovedAt ==
  ASSUME NEW S, NEW s \in Seq(S), NEW n \in 1..Len(s)
  PROVE  /\ RemoveAt(s, n) \in Seq(S)
         /\ ToSet(s) \ {s[n]} \subseteq ToSet(RemoveAt(s, n))
<1> DEFINE a == SubSeq(s, 1, n - 1)  b == SubSeq(s, n + 1, Len(s))
<1>1. /\ a \in Seq(S) /\ Len(a) = n - 1 /\ \A i \in 1..(n - 1) : a[i] = s[i]
      /\ b \in Seq(S) /\ Len(b) = Len(s) - n /\ \A i \in 1..(Len(s) - n) : b[i] = s[n + i]
  OBVIOUS
<1>2. RemoveAt(s, n) = a \o b
  BY DEF RemoveAt
<1> HIDE DEF a, b
<1>3. /\ a \o b \in Seq(S) /\ Len(a \o b) = Len(s) - 1
      /\ \A i \in 1..(Len(s) - 1) : (a \o b)[i] = IF i <= n - 1 THEN a[i] ELSE b[i - (n - 1)]
  <2>1. a \in Seq(S) /\ b \in Seq(S) /\ Len(a) = n - 1 /\ Len(a) + Len(b) = Len(s) - 1
    BY <1>1
  <2>2. /\ a \o b \in Seq(S) /\ Len(a \o b) = Len(a) + Len(b)
        /\ \A i \in 1..(Len(a) + Len(b)) : (a \o b)[i] = IF i <= Len(a) THEN a[i] ELSE b[i - Len(a)]
    BY <2>1, ConcatProperties
  <2>3. QED BY <2>1, <2>2
<1>4. \A i \in 1..(Len(s) - 1) : (a \o b)[i] \in ToSet(a \o b)
  BY <1>3, LenProperties DEF ToSet
<1>5. ASSUME NEW x \in ToSet(s), x # s[n] PROVE x \in ToSet(a \o b)
  <2>1. PICK i \in 1..Len(s) : x = s[i]
    BY DEF ToSet
  <2>2. CASE i < n
    <3>1. i \in 1..(Len(s) - 1) /\ i \in 1..(n - 1)
      BY <2>2
    <3>2. (a \o b)[i] = s[i]
      BY <1>1, <1>3, <3>1
    <3>3. QED BY <1>4, <2>1, <3>1, <3>2
  <2>3. CASE i > n
    <3> DEFINE j == i - 1
    <3>1. j \in 1..(Len(s) - 1) /\ ~(j <= n - 1) /\ j - (n - 1) \in 1..(Len(s) - n) /\ n + (j - (n - 1)) = i
      BY <2>3
    <3>2. (a \o b)[j] = s[i]
      BY <1>1, <1>3, <3>1
    <3>3. QED BY <1>4, <2>1, <3>1, <3>2
  <2>4. QED BY <1>5, <2>1, <2>2, <2>3
<1>6. QED BY <1>2, <1>3, <1>5

\* Any two claims to a key contest it.
LEMMA Observed ==
  ASSUME Observe, Shape'
  PROVE  Alone'
<1> SUFFICES ASSUME NEW c \in Conns, NEW k \in Held(c)' \ contested'
             PROVE  /\ k \notin agent_keys'
                    /\ \A d \in Conns : k \in Held(d)' => c = d
                    /\ \A d \in Clients : thread'[d].temp # k
  BY DEF Alone
<1>1. k \in Keys
  BY DEF Held, Desired, Shape
<1>2. \A x, y \in Claims(k)' : x = y
  BY <1>1 DEF Observe
<1>3. <<c, "set">> \in Claims(k)'
  BY DEF Claims, Held
<1>4. k \notin agent_keys'
  <2>1. k \in agent_keys' => <<"mcp", "set">> \in Claims(k)'
    BY DEF Claims
  <2>2. c # "mcp"
    BY DebuggerAssumption
  <2>3. QED BY <1>2, <1>3, <2>1, <2>2
<1>5. ASSUME NEW d \in Conns, k \in Held(d)' PROVE c = d
  <2>1. <<d, "set">> \in Claims(k)'
    BY <1>5 DEF Claims, Held
  <2>2. QED BY <1>2, <1>3, <2>1
<1>6. ASSUME NEW d \in Clients PROVE thread'[d].temp # k
  <2>1. thread'[d].temp = k => <<d, "temp">> \in Claims(k)'
    BY DEF Claims
  <2>2. QED BY <1>2, <1>3, <2>1
<1>7. QED BY <1>4, <1>5, <1>6
-----------------------------------------------------------------------------
(* The shape, and the steps that have no part in the breakpoints.          *)

LEMMA AtStart == Init => DInv
<1> SUFFICES ASSUME Init PROVE DInv
  OBVIOUS
<1>1. /\ \A c \in Conns : known[c] = {} /\ todo[c] = [add |-> {}, drop |-> {}]
      /\ \A c \in Conns : Desired(c) = {} /\ pc[c] = "absent"
      /\ breaks = {} /\ owner = None /\ queue = <<>> /\ agent_keys = {}
      /\ \A c \in Clients : thread[c] = NoThread
  BY DEF Init, Desired, Clients
<1>2. Shape
  <2>1. queue \in Seq(Actors) /\ connected \in Seq(Conns)
    BY EmptySeq DEF Init
  <2>2. NoThread \in [kind : {"none", "run", "halt"}, at : Places, temp : Keys \cup {None}]
    BY DEF NoThread, Places
  <2>3. thread \in Threads
    BY <2>2 DEF Init, Threads
  <2>4. QED BY <2>1, <2>3 DEF Init, Shape, Labels
<1>3. Queued
  <2>1. \A c \in Clients : owner # Handler(c)
    BY <1>1, DebuggerAssumption DEF Actors
  <2>2. Len(queue) = 0
    BY <1>1
  <2>3. QED BY <2>1, <2>2 DEF Queued
<1>4. Desks
  <2>1. Seated /\ TempNamed /\ NoOrphanedBreakpoint
    BY <1>1 DEF Seated, TempNamed, NoOrphanedBreakpoint, NoThread
  <2>2. Alone
    BY <1>1 DEF Alone, Held
  <2>3. Reconciles /\ Kept /\ Dropped
    <3>1. \A c \in Conns : todo[c].add = {} /\ todo[c].drop = {} /\ known[c] = {} /\ Desired(c) = {}
      BY <1>1
    <3>2. QED BY <1>1, <3>1 DEF Reconciles, Kept, Dropped, Leftover
  <2>4. QED BY <2>1, <2>2, <2>3 DEF Desks
<1>5. QED BY <1>2, <1>3, <1>4 DEF DInv

\* A step beside the breakpoints: a client goes on outside sync_breakpoints, a
\* thread moves along with the temporary breakpoint it has.
Aside ==
  /\ UNCHANGED <<breaks, wants, known, todo, agent_keys, contested>>
  /\ connected' \in Seq(Conns) /\ Open \subseteq Open'
  /\ queue' \in Seq(Actors) /\ owner' \in Actors \cup {None}
  /\ pc' \in [Clients -> Labels]
  /\ \A c \in Conns : pc'[c] = pc[c] \/ (/\ pc[c] \notin {"sync", "leaving"} /\ pc'[c] \notin {"sync", "leaving"}
                                           /\ c \in Open')
  /\ thread' \in Threads
  /\ \A c \in Clients :
       /\ thread'[c].temp = thread[c].temp
       /\ thread'[c].at = thread[c].at \/ thread'[c].at \notin {"arm", "done"}

\* A place a client's handler is at while it serves requests.
Serving == Labels \ {"absent", "gone", "sync", "leaving"}

\* A handler that goes on between such places.
LEMMA HandlerGoesOn ==
  ASSUME Shape, Seated, NEW c \in Clients,
         UNCHANGED connected,
         UNCHANGED pc \/ \E l \in Serving : pc[c] \in Serving /\ pc' = [pc EXCEPT ![c] = l]
  PROVE  /\ connected' \in Seq(Conns) /\ Open \subseteq Open'
         /\ pc' \in [Clients -> Labels]
         /\ \A d \in Conns : pc'[d] = pc[d] \/ (/\ pc[d] \notin {"sync", "leaving"} /\ pc'[d] \notin {"sync", "leaving"}
                                                /\ d \in Open')
<1>1. connected' \in Seq(Conns) /\ Open' = Open /\ pc \in [Clients -> Labels] /\ Conns \subseteq Clients
  BY DEF Open, Shape, Clients
<1>2. CASE UNCHANGED pc
  BY <1>1, <1>2
<1>3. ASSUME NEW l \in Serving, pc[c] \in Serving, pc' = [pc EXCEPT ![c] = l]
      PROVE  /\ pc' \in [Clients -> Labels]
             /\ \A d \in Conns : pc'[d] = pc[d] \/ (/\ pc[d] \notin {"sync", "leaving"} /\ pc'[d] \notin {"sync", "leaving"}
                                                    /\ d \in Open')
  <2>1. l \in Labels /\ l \notin {"sync", "leaving"} /\ pc[c] \notin {"sync", "leaving", "absent", "gone"}
    BY <1>3 DEF Serving
  <2>2. c \in Conns => c \in Open
    BY <2>1 DEF Seated
  <2>3. pc' \in [Clients -> Labels] /\ pc'[c] = l /\ \A d \in Clients : d # c => pc'[d] = pc[d]
    BY <1>1, <1>3, <2>1
  <2>4. QED BY <1>1, <2>1, <2>2, <2>3
<1>4. QED BY <1>1, <1>2, <1>3

\* A thread that moves along.
LEMMA ThreadMoves ==
  ASSUME Shape, NEW c \in Clients,
         UNCHANGED thread \/ \E l \in Places \ {"arm", "done"} : thread' = [thread EXCEPT ![c].at = l]
  PROVE  /\ thread' \in Threads
         /\ \A d \in Clients :
              /\ thread'[d].temp = thread[d].temp
              /\ thread'[d].at = thread[d].at \/ thread'[d].at \notin {"arm", "done"}
<1>1. thread \in Threads
  BY DEF Shape
<1>2. CASE UNCHANGED thread
  BY <1>1, <1>2
<1>3. ASSUME NEW l \in Places \ {"arm", "done"}, thread' = [thread EXCEPT ![c].at = l]
      PROVE  /\ thread' \in Threads
             /\ \A d \in Clients :
                  /\ thread'[d].temp = thread[d].temp
                  /\ thread'[d].at = thread[d].at \/ thread'[d].at \notin {"arm", "done"}
  <2>1. thread' \in Threads
    BY <1>1, <1>3 DEF Threads
  <2>2. \A d \in Clients : d # c => thread'[d] = thread[d]
    BY <1>1, <1>3 DEF Threads
  <2>3. thread'[c].temp = thread[c].temp /\ thread'[c].at = l
    BY <1>1, <1>3 DEF Threads
  <2>4. QED BY <2>1, <2>2, <2>3
<1>4. QED BY <1>2, <1>3

\* A step of either kind is beside the breakpoints.
LEMMA GoesOn ==
  ASSUME DInv, UNCHANGED <<breaks, wants, known, todo, agent_keys, contested, connected>>,
         queue' \in Seq(Actors), owner' \in Actors \cup {None},
         NEW c \in Clients,
         UNCHANGED pc \/ \E l \in Serving : pc[c] \in Serving /\ pc' = [pc EXCEPT ![c] = l],
         UNCHANGED thread \/ \E l \in Places \ {"arm", "done"} : thread' = [thread EXCEPT ![c].at = l]
  PROVE  Aside
<1>1. Shape /\ Seated
  BY DEF DInv, Desks
<1>2. QED BY <1>1, HandlerGoesOn, ThreadMoves DEF Aside

\* Nothing moves but the emulator thread's queue.
LEMMA QueueMoves ==
  ASSUME Shape, UNCHANGED <<breaks, wants, known, todo, agent_keys, contested, connected, pc, thread>>,
         queue' \in Seq(Actors), owner' \in Actors \cup {None}
  PROVE  Aside
<1>1. thread' \in Threads /\ connected' \in Seq(Conns) /\ pc' \in [Clients -> Labels] /\ Open' = Open
  BY DEF Shape, Open
<1>2. QED BY <1>1 DEF Aside

\* Every step beside the breakpoints is such a step.
LEMMA AsideSteps ==
  ASSUME DInv,
         \/ \E c \in Clients :
              \/ c \in Conns /\ (Connect(c) \/ Disconnect(c) \/ ConfigurationDone(c)
                                \/ \E on \in BOOLEAN : SetExceptionBreakpoints(c, on))
              \/ Step(c) \/ Reset(c) \/ Pause(c) \/ Interrupt(c) \/ AnnounceStep(c)
              \/ Begin(c) \/ Submit(c) \/ Return(c)
         \/ \E a \in Actors : Send(a)
         \/ Take \/ Finish \/ UNCHANGED vars
  PROVE  Aside
<1> USE DEF engine, sets
<1>1. queue \in Seq(Actors) /\ owner \in Actors \cup {None} /\ \A c \in Clients : Handler(c) \in Actors /\ Runner(c) \in Actors
  BY DEF DInv, Shape, Actors
<1>2. ASSUME NEW c \in Conns, Connect(c) PROVE Aside
  <2>1. pc[c] = "absent" /\ pc' = [pc EXCEPT ![c] = "idle"] /\ connected' = Append(connected, c)
    BY <1>2 DEF Connect
  <2>2. connected' \in Seq(Conns) /\ Open \subseteq Open' /\ c \in Open'
    <3>1. connected \in Seq(Conns)
      BY DEF DInv, Shape
    <3>2. /\ connected' \in Seq(Conns) /\ Len(connected') = Len(connected) + 1
          /\ connected'[Len(connected) + 1] = c
          /\ \A i \in 1..Len(connected) : connected'[i] = connected[i]
      BY <2>1, <3>1, AppendProperties
    <3>3. QED BY <3>1, <3>2, LenProperties DEF Open, ToSet
  <2>3. pc' \in [Clients -> Labels] /\ pc'[c] = "idle" /\ \A d \in Conns : d # c => pc'[d] = pc[d]
    BY <2>1 DEF DInv, Shape, Labels, Clients
  <2>4. pc[c] = "absent" /\ UNCHANGED <<breaks, wants, known, todo, agent_keys, contested, queue, owner, thread>>
    BY <1>2 DEF Connect
  <2>5. thread' \in Threads
    BY <2>4 DEF DInv, Shape
  <2>6. QED BY <1>1, <2>2, <2>3, <2>4, <2>5 DEF Aside
<1>3. ASSUME NEW c \in Clients,
             Disconnect(c) \/ ConfigurationDone(c) \/ (\E on \in BOOLEAN : SetExceptionBreakpoints(c, on)) \/ Reset(c)
      PROVE  Aside
  BY <1>1, <1>3, GoesOn DEF Disconnect, ConfigurationDone, SetExceptionBreakpoints, Reset
<1>4. ASSUME NEW c \in Clients, Step(c) PROVE Aside
  <2>1. queue' \in Seq(Actors)
    BY <1>1, <1>4, AppendProperties DEF Step
  <2>2. pc[c] \in Serving /\ "stepping" \in Serving /\ pc' = [pc EXCEPT ![c] = "stepping"]
    BY <1>4 DEF Step, Request, Goto, Serving, Labels
  <2>3. QED BY <1>1, <1>4, <2>1, <2>2, GoesOn DEF Step
<1>5. ASSUME NEW c \in Clients, Pause(c) \/ Interrupt(c) \/ AnnounceStep(c) PROVE Aside
  <2>1. pc[c] \in Serving /\ \E l \in Serving : pc' = [pc EXCEPT ![c] = l]
    BY <1>5 DEF Pause, Interrupt, AnnounceStep, Request, Goto, Serving, Labels
  <2>2. QED BY <1>1, <1>5, <2>1, GoesOn DEF Pause, Interrupt, AnnounceStep
<1>6. ASSUME NEW c \in Clients, Begin(c) \/ Submit(c) \/ Return(c) PROVE Aside
  <2>1. queue' \in Seq(Actors)
    <3>1. Append(queue, Runner(c)) \in Seq(Actors)
      BY <1>1, AppendProperties
    <3>2. QED BY <1>1, <1>6, <3>1 DEF Begin, Submit, Return
  <2>2. \E l \in Places \ {"arm", "done"} : thread' = [thread EXCEPT ![c].at = l]
    BY <1>6 DEF Begin, Submit, Return, Move, Places
  <2>3. QED BY <1>1, <1>6, <2>1, <2>2, GoesOn DEF Begin, Submit, Return
<1>7. CASE Take
  <2>1. queue' \in Seq(Actors) /\ owner' \in Actors
    BY <1>1, <1>7, HeadTailProperties DEF Take
  <2>2. QED BY <1>7, <2>1, QueueMoves DEF Take, DInv
<1>8. CASE Finish
  <2> DEFINE c == owner[1]
  <2>1. owner \in Actors
    BY <1>1, <1>8 DEF Finish
  <2>2. c \in Clients
    BY <2>1 DEF Actors, Handler, Runner
  <2>3. CASE owner = Handler(c)
    <3>1. pc[c] = "stepping" /\ pc' = [pc EXCEPT ![c] = "stepped"]
      BY <1>8, <2>2, <2>3 DEF Finish, Goto, DInv, Queued
    <3>2. QED BY <1>1, <1>8, <2>2, <2>3, <3>1, GoesOn DEF Finish, Serving, Labels
  <2>4. CASE owner # Handler(c)
    <3>1. thread' = [thread EXCEPT ![c].at = "return"] /\ "return" \in Places \ {"arm", "done"}
      BY <1>8, <2>4 DEF Finish, Move, Places
    <3>2. QED BY <1>1, <1>8, <2>2, <2>4, <3>1, GoesOn DEF Finish
  <2>5. QED BY <2>3, <2>4
<1>9. CASE (\E a \in Actors : Send(a)) \/ UNCHANGED vars
  BY <1>1, <1>9, QueueMoves DEF Send, vars, DInv
<1>10. QED BY <1>2, <1>3, <1>4, <1>5, <1>6, <1>7, <1>8, <1>9

\* Every step keeps the shape.
LEMMA StepShape ==
  ASSUME DInv, [Next]_vars
  PROVE  Shape'
<1> USE DEF DInv, Shape, engine, sets
<1>1. CASE Aside
  BY <1>1 DEF Aside
<1>2. ASSUME NEW c \in Conns, NEW k \in Categories, NEW keys \in SUBSET Keys, SetBreakpoints(c, k, keys)
      PROVE  Shape'
  <2>1. keys \cup UNION {wants[c][j] : j \in Categories \ {k}} \in SUBSET Keys
    OBVIOUS
  <2>2. todo' \in [Conns -> [add : SUBSET Keys, drop : SUBSET Keys]]
    BY <1>2, <2>1 DEF SetBreakpoints, Sync
  <2>3. QED BY <1>2, <2>2 DEF SetBreakpoints, Goto, Labels
<1>3. ASSUME NEW c \in Conns, NEW k \in Keys, AddKey(c, k) \/ DropKey(c, k) PROVE Shape'
  <2>1. todo' \in [Conns -> [add : SUBSET Keys, drop : SUBSET Keys]]
    <3>1. CASE AddKey(c, k)
      BY <3>1 DEF AddKey
    <3>2. CASE DropKey(c, k)
      BY <3>2 DEF DropKey
    <3>3. QED BY <1>3, <3>1, <3>2
  <2>2. breaks' \subseteq Keys
    BY <1>3 DEF AddKey, DropKey
  <2>3. QED BY <1>3, <2>1, <2>2 DEF AddKey, DropKey
<1>4. ASSUME NEW c \in Conns, Synced(c) PROVE Shape'
  <2>1. Desired(c) \in SUBSET Keys
    BY DEF Desired
  <2>2. connected' \in Seq(Conns)
    <3> DEFINE n == CHOOSE i \in DOMAIN connected : connected[i] = c
    <3>1. c \in Open
      BY <1>4 DEF Synced, Desks, Seated
    <3>2. n \in 1..Len(connected)
      BY <3>1, LenProperties DEF Open, ToSet
    <3> HIDE DEF n
    <3>3. connected' = connected \/ connected' = RemoveAt(connected, n)
      BY <1>4 DEF Synced, n
    <3>4. QED BY <3>2, <3>3, RemovedAt
  <2>3. QED BY <1>4, <2>1, <2>2 DEF Synced, Goto, Labels
<1>5. ASSUME NEW c \in Conns, Leave(c) PROVE Shape'
  BY <1>5 DEF Leave, Goto, Labels
<1>6. ASSUME NEW c \in Clients, NEW k \in Keys, AgentSet(c, k) \/ AgentClear(c, k) PROVE Shape'
  BY <1>6 DEF AgentSet, AgentClear
<1>7. ASSUME NEW c \in Clients, NEW kind \in {"run", "halt"}, NEW temp \in Keys \cup {None}, Spawn(c, kind, temp),
             UNCHANGED <<engine, sets, connected, pc, agent_keys>>
      PROVE  Shape'
  BY <1>7 DEF Spawn, Places, Threads
<1>8. ASSUME NEW c \in Clients, Arm(c) PROVE Shape'
  <2>1. thread[c].temp \in Keys
    BY <1>8 DEF Arm, At, Desks, TempNamed, Threads
  <2>2. QED BY <1>8, <2>1 DEF Arm, Move, Places, Threads
<1>9. ASSUME NEW c \in Clients, Disarm(c) PROVE Shape'
  BY <1>9 DEF Disarm, NoThread, Places, Threads
<1>10. ASSUME NEW c \in Clients, Continue(c) \/ NextHalt(c) \/ \E k \in Keys : NextOver(c, k)
       PROVE  Shape'
  BY <1>7, <1>10 DEF Continue, NextHalt, NextOver
<1>11. QED BY <1>1, <1>2, <1>3, <1>4, <1>5, <1>6, <1>8, <1>9, <1>10, AsideSteps DEF Next, Ask, Serve, Drive
-----------------------------------------------------------------------------
(* The queue.                                                              *)

\* Every step keeps a handler that waits for the emulator thread where it is.
LEMMA StepQueued ==
  ASSUME DInv, [Next]_vars
  PROVE  Queued'
<1> USE DEF engine, sets
<1>1. /\ queue \in Seq(Actors) /\ owner \in Actors \cup {None} /\ Queued
      /\ pc \in [Clients -> Labels] /\ Conns \subseteq Clients
      /\ None \notin Actors /\ \A c \in Clients : Handler(c) \in Actors
      /\ \A c, d \in Clients : Runner(d) # Handler(c) /\ (Handler(d) = Handler(c) => c = d)
  BY DebuggerAssumption DEF DInv, Shape, Clients, Actors, Handler, Runner
<1> DEFINE Stays == \A c \in Clients : pc[c] = "stepping" => pc'[c] = "stepping"
<1>2. CASE UNCHANGED <<queue, owner>> /\ Stays
  BY <1>2 DEF DInv, Queued
<1> HIDE DEF Stays
<1>3. ASSUME NEW c \in Clients, Step(c) PROVE Queued'
  <2>1. pc[c] = "idle" /\ pc' = [pc EXCEPT ![c] = "stepping"] /\ queue' = Append(queue, Handler(c)) /\ owner' = owner
    BY <1>3 DEF Step, Request, Goto
  <2>2. /\ Len(queue') = Len(queue) + 1 /\ queue'[Len(queue) + 1] = Handler(c)
        /\ \A i \in 1..Len(queue) : queue'[i] = queue[i]
    BY <1>1, <2>1, AppendProperties
  <2>3. pc'[c] = "stepping" /\ \A d \in Clients : d # c => pc'[d] = pc[d]
    BY <1>1, <2>1
  <2>4. owner # Handler(c) /\ \A i \in 1..Len(queue) : queue[i] # Handler(c)
    BY <1>1, <2>1 DEF Queued
  <2>5. Len(queue) \in Nat /\ \A i \in 1..Len(queue') : i \in 1..Len(queue) \/ i = Len(queue) + 1
    BY <1>1, <2>2
  <2>6. ASSUME NEW d \in Clients, d # c
        PROVE  /\ owner' = Handler(d) => pc'[d] = "stepping"
               /\ \A i \in 1..Len(queue') :
                    queue'[i] = Handler(d) =>
                      /\ pc'[d] = "stepping" /\ owner' # Handler(d)
                      /\ \A j \in 1..Len(queue') : queue'[j] = Handler(d) => i = j
    <3>1. \A i \in 1..Len(queue') : queue'[i] = Handler(d) => i \in 1..Len(queue) /\ queue[i] = Handler(d)
      BY <1>1, <2>2, <2>5, <2>6
    <3>2. QED BY <1>1, <2>1, <2>3, <2>6, <3>1 DEF Queued
  <2>7. \A i \in 1..Len(queue') : queue'[i] = Handler(c) => i = Len(queue) + 1
    BY <2>2, <2>4, <2>5
  <2>8. QED BY <2>1, <2>3, <2>4, <2>6, <2>7 DEF Queued
<1>4. ASSUME NEW c \in Clients, Submit(c) PROVE Queued'
  <2>1. pc' = pc /\ queue' = Append(queue, Runner(c)) /\ owner' = owner
    BY <1>4 DEF Submit
  <2>2. /\ Len(queue') = Len(queue) + 1 /\ queue'[Len(queue) + 1] = Runner(c) /\ Len(queue) \in Nat
        /\ \A i \in 1..Len(queue) : queue'[i] = queue[i]
    BY <1>1, <1>4, <2>1, AppendProperties DEF Actors
  <2>3. \A d \in Clients : \A i \in 1..Len(queue') : queue'[i] = Handler(d) => i \in 1..Len(queue) /\ queue[i] = Handler(d)
    BY <1>1, <2>2
  <2>4. QED BY <1>1, <2>1, <2>3 DEF Queued
<1>5. CASE Take
  <2>1. pc' = pc /\ owner = None /\ queue # <<>> /\ owner' = Head(queue) /\ queue' = Tail(queue)
    BY <1>5 DEF Take
  <2>2. /\ Len(queue) \in Nat \ {0} /\ owner' = queue[1] /\ Len(queue') = Len(queue) - 1
        /\ \A i \in 1..Len(queue') : queue'[i] = queue[i + 1]
    BY <1>1, <2>1, HeadTailProperties, LenProperties, EmptySeq
  <2>3. 1 \in 1..Len(queue) /\ \A i \in 1..Len(queue') : i + 1 \in 1..Len(queue) /\ i + 1 # 1
    BY <2>2
  <2>4. ASSUME NEW d \in Clients, NEW i \in 1..Len(queue'), queue'[i] = Handler(d)
        PROVE  /\ pc'[d] = "stepping" /\ owner' # Handler(d)
               /\ \A j \in 1..Len(queue') : queue'[j] = Handler(d) => i = j
    <3>1. queue[i + 1] = Handler(d)
      BY <2>2, <2>4
    <3>2. pc[d] = "stepping" /\ queue[1] # Handler(d)
      BY <1>1, <2>3, <3>1 DEF Queued
    <3>3. ASSUME NEW j \in 1..Len(queue'), queue'[j] = Handler(d) PROVE i = j
      <4>1. i + 1 = j + 1
        BY <1>1, <2>2, <2>3, <3>1, <3>3 DEF Queued
      <4>2. QED BY <4>1
    <3>4. QED BY <2>1, <2>2, <3>2, <3>3
  <2>5. \A d \in Clients : owner' = Handler(d) => pc'[d] = "stepping"
    BY <1>1, <2>1, <2>2, <2>3 DEF Queued
  <2>6. QED BY <2>4, <2>5 DEF Queued
<1>6. CASE Finish
  <2>1. owner \in Actors /\ owner' = None /\ queue' = queue
    BY <1>1, <1>6 DEF Finish
  <2>2. owner[1] \in Clients /\ (owner = Handler(owner[1]) => pc' = [pc EXCEPT ![owner[1]] = "stepped"])
    <3>1. owner[1] \in Clients
      BY <2>1 DEF Actors, Handler, Runner
    <3>2. owner = Handler(owner[1]) => pc' = [pc EXCEPT ![owner[1]] = "stepped"]
      BY <1>6 DEF Finish, Goto
    <3>3. QED BY <3>1, <3>2
  <2>3. owner # Handler(owner[1]) => pc' = pc
    BY <1>6 DEF Finish
  <2>4. ASSUME NEW d \in Clients, NEW i \in 1..Len(queue), queue[i] = Handler(d)
        PROVE  pc'[d] = "stepping"
    <3>1. pc[d] = "stepping" /\ owner # Handler(d)
      BY <1>1, <2>4 DEF Queued
    <3>2. QED BY <1>1, <2>2, <2>3, <3>1
  <2>5. QED BY <1>1, <2>1, <2>4 DEF Queued
<1>7. ASSUME NEW c \in Clients,
             Pause(c) \/ Interrupt(c) \/ AnnounceStep(c) \/ Begin(c) \/ Return(c) \/ Arm(c) \/ Disarm(c)
               \/ Continue(c) \/ Reset(c)
      PROVE  Queued'
  <2>1. UNCHANGED <<queue, owner>>
    BY <1>7 DEF Pause, Interrupt, AnnounceStep, Begin, Return, Arm, Disarm, Continue, Reset
  <2>2. pc' = pc \/ (pc[c] # "stepping" /\ \E l \in Labels : pc' = [pc EXCEPT ![c] = l])
    BY <1>7 DEF Pause, Interrupt, AnnounceStep, Begin, Return, Arm, Disarm, Continue, Reset, Request, Goto, Labels
  <2>3. Stays
    BY <1>1, <2>2 DEF Stays
  <2>4. QED BY <1>2, <2>1, <2>3
<1>8. ASSUME NEW c \in Conns,
             \/ Connect(c) \/ Leave(c) \/ Disconnect(c) \/ ConfigurationDone(c) \/ NextHalt(c) \/ Synced(c)
             \/ \E k \in Categories, keys \in SUBSET Keys : SetBreakpoints(c, k, keys)
             \/ \E on \in BOOLEAN : SetExceptionBreakpoints(c, on)
             \/ \E k \in Keys : NextOver(c, k) \/ AddKey(c, k) \/ DropKey(c, k)
      PROVE  Queued'
  <2>1. UNCHANGED <<queue, owner>>
    BY <1>8 DEF Connect, Leave, Disconnect, ConfigurationDone, NextHalt, Synced, SetBreakpoints,
                SetExceptionBreakpoints, NextOver, AddKey, DropKey
  <2>2. pc' = pc \/ (pc[c] # "stepping" /\ \E l \in Labels : pc' = [pc EXCEPT ![c] = l])
    BY <1>8 DEF Connect, Leave, Disconnect, ConfigurationDone, NextHalt, Synced, SetBreakpoints,
                SetExceptionBreakpoints, NextOver, AddKey, DropKey, Request, Goto, Labels
  <2>3. Stays
    BY <1>1, <2>2 DEF Stays
  <2>4. QED BY <1>2, <2>1, <2>3
<1>9. CASE \/ UNCHANGED vars \/ \E a \in Actors : Send(a)
           \/ \E c \in Clients, k \in Keys : AgentSet(c, k) \/ AgentClear(c, k)
  BY <1>2, <1>9 DEF vars, Send, AgentSet, AgentClear, Stays
<1>10. QED BY <1>3, <1>4, <1>5, <1>6, <1>7, <1>8, <1>9 DEF Next, Ask, Serve, Drive
-----------------------------------------------------------------------------
(* The steps that have a part in the breakpoints, by what they change.     *)

DeskStays(d) == pc'[d] = pc[d] /\ known'[d] = known[d] /\ todo'[d] = todo[d] /\ Desired(d)' = Desired(d)
Others(c) == \A d \in Conns : d # c => DeskStays(d)
DesksStay == (\A d \in Conns : DeskStays(d)) /\ Open' = Open

Edits(c) ==
  /\ Others(c) /\ UNCHANGED <<breaks, agent_keys, thread>> /\ Open' = Open
  /\ pc[c] = "idle" /\ pc'[c] = "sync" /\ known'[c] = known[c]
  /\ todo'[c].add = Desired(c)' \ known[c] /\ todo'[c].drop = known[c] \ Desired(c)'
  /\ Observe

Adds(c, k) ==
  /\ Others(c) /\ UNCHANGED <<agent_keys, thread, contested>> /\ Open' = Open
  /\ pc'[c] = pc[c] /\ known'[c] = known[c] /\ Desired(c)' = Desired(c)
  /\ k \in todo[c].add /\ todo'[c].add = todo[c].add \ {k} /\ todo'[c].drop = todo[c].drop
  /\ breaks' = breaks \cup {k}

Drops(c, k) ==
  /\ Others(c) /\ UNCHANGED <<agent_keys, thread, contested>> /\ Open' = Open
  /\ pc'[c] = pc[c] /\ known'[c] = known[c] /\ Desired(c)' = Desired(c)
  /\ k \in todo[c].drop /\ todo'[c].add = todo[c].add /\ todo'[c].drop = todo[c].drop \ {k}
  /\ breaks' = breaks \ {k}

Syncs(c) ==
  /\ Others(c) /\ UNCHANGED <<breaks, agent_keys, thread, contested>>
  /\ Open \ {c} \subseteq Open'
  /\ todo'[c] = todo[c] /\ todo[c].add = {} /\ todo[c].drop = {}
  /\ \/ /\ pc[c] = "sync" /\ pc'[c] = "idle" /\ Open' = Open
        /\ known'[c] = Desired(c) /\ Desired(c)' = Desired(c)
     \/ /\ pc[c] = "leaving" /\ pc'[c] = "gone"
        /\ known'[c] = {} /\ Desired(c)' = {}

Leaves(c) ==
  /\ Others(c) /\ UNCHANGED <<breaks, agent_keys, thread, contested>> /\ Open' = Open
  /\ pc[c] = "idle" /\ pc'[c] = "leaving" /\ known'[c] = known[c] /\ Desired(c)' = Desired(c)
  /\ todo'[c].add = todo[c].add /\ todo'[c].drop = known[c]

AgentSets(k) ==
  /\ DesksStay /\ UNCHANGED thread
  /\ breaks' = breaks \cup {k} /\ agent_keys' = agent_keys \cup {k}
  /\ Observe

AgentClears(k) ==
  /\ DesksStay /\ UNCHANGED thread
  /\ breaks' = breaks \ {k} /\ agent_keys' = agent_keys \ {k}
  /\ contested \subseteq contested' /\ \A c \in Conns : k \in Held(c) => k \in contested'

ThreadsBut(c) == \A d \in Clients : d # c => thread'[d] = thread[d]

Spawns(c) ==
  /\ DesksStay /\ ThreadsBut(c) /\ UNCHANGED <<breaks, agent_keys>>
  /\ thread[c].at = "done" /\ (thread'[c].at = "arm" => thread'[c].temp # None)
  /\ Observe \/ (thread'[c].temp = None /\ contested' = contested)

Arms(c) ==
  /\ DesksStay /\ ThreadsBut(c) /\ UNCHANGED <<agent_keys, contested>>
  /\ thread[c].temp \in Keys
  /\ thread'[c].temp = thread[c].temp /\ thread'[c].at = "begin"
  /\ breaks' = breaks \cup {thread[c].temp}

Disarms(c) ==
  /\ DesksStay /\ ThreadsBut(c) /\ UNCHANGED <<agent_keys, contested>>
  /\ thread'[c].temp = None /\ thread'[c].at = "done"
  /\ breaks' = breaks \ {thread[c].temp}

\* What a connection wants changes with its own sets only.
LEMMA DesiredStays ==
  /\ \A c \in Conns : wants'[c] = wants[c] => Desired(c)' = Desired(c)
  /\ UNCHANGED <<pc, known, todo, wants, connected>> => DesksStay
BY DEF Desired, DesksStay, DeskStays, Open

\* Replacing one category changes what the connection wants by that category.
LEMMA EditedDesired ==
  ASSUME Shape, NEW c \in Conns, NEW k \in Categories, NEW keys, wants' = [wants EXCEPT ![c][k] = keys]
  PROVE  /\ Desired(c)' = keys \cup UNION {wants[c][j] : j \in Categories \ {k}}
         /\ \A d \in Conns : d # c => Desired(d)' = Desired(d)
<1>1. wants \in [Conns -> [Categories -> SUBSET Keys]]
  BY DEF Shape
<1>2. wants'[c][k] = keys /\ \A j \in Categories \ {k} : wants'[c][j] = wants[c][j]
  BY <1>1
<1>3. \A d \in Conns : d # c => wants'[d] = wants[d]
  BY <1>1
<1>4. Desired(c)' = keys \cup UNION {wants[c][j] : j \in Categories \ {k}}
  BY <1>2 DEF Desired
<1>5. QED BY <1>3, <1>4, DesiredStays

\* Every step is one of these, or beside the breakpoints.
LEMMA StepCases ==
  ASSUME DInv, [Next]_vars
  PROVE  \/ Aside
         \/ \E c \in Conns : \/ Edits(c) \/ Syncs(c) \/ Leaves(c)
                           \/ \E k \in Keys : Adds(c, k) \/ Drops(c, k)
         \/ \E k \in Keys : AgentSets(k) \/ AgentClears(k)
         \/ \E c \in Clients : Spawns(c) \/ Arms(c) \/ Disarms(c)
<1> USE DEF engine, sets
<1>1. /\ pc \in [Clients -> Labels] /\ thread \in Threads /\ known \in [Conns -> SUBSET Keys] /\ Conns \subseteq Clients
      /\ todo \in [Conns -> [add : SUBSET Keys, drop : SUBSET Keys]]
      /\ wants \in [Conns -> [Categories -> SUBSET Keys]]
  BY DEF DInv, Shape, Clients
<1>2. ASSUME NEW c \in Conns, NEW k \in Categories, NEW keys \in SUBSET Keys, SetBreakpoints(c, k, keys)
      PROVE  Edits(c)
  <2>1. /\ pc[c] = "idle" /\ pc' = [pc EXCEPT ![c] = "sync"] /\ known' = known
        /\ wants' = [wants EXCEPT ![c][k] = keys]
        /\ UNCHANGED <<breaks, agent_keys, connected, thread>> /\ Observe
    BY <1>2 DEF SetBreakpoints, Request, Goto
  <2>2. /\ Desired(c)' = keys \cup UNION {wants[c][j] : j \in Categories \ {k}}
        /\ \A d \in Conns : d # c => Desired(d)' = Desired(d)
    BY <2>1, EditedDesired DEF DInv
  <2>3. todo' = [todo EXCEPT ![c] = [add |-> Desired(c)' \ known[c], drop |-> known[c] \ Desired(c)']]
    BY <1>2, <2>2 DEF SetBreakpoints, Sync
  <2>4. /\ todo'[c].add = Desired(c)' \ known[c] /\ todo'[c].drop = known[c] \ Desired(c)'
        /\ pc'[c] = "sync" /\ \A d \in Conns : d # c => pc'[d] = pc[d] /\ todo'[d] = todo[d]
    BY <1>1, <2>1, <2>3
  <2>5. QED BY <2>1, <2>2, <2>4 DEF Edits, Others, DeskStays, Open
<1>3. ASSUME NEW c \in Conns, NEW k \in Keys, AddKey(c, k) PROVE Adds(c, k)
  <2>1. /\ \A d \in Conns : d # c => todo'[d] = todo[d]
        /\ todo'[c].add = todo[c].add \ {k} /\ todo'[c].drop = todo[c].drop
    BY <1>1, <1>3 DEF AddKey
  <2>2. QED BY <1>3, <2>1, DesiredStays DEF AddKey, Adds, Others, DeskStays, Open
<1>4. ASSUME NEW c \in Conns, NEW k \in Keys, DropKey(c, k) PROVE Drops(c, k)
  <2>1. /\ \A d \in Conns : d # c => todo'[d] = todo[d]
        /\ todo'[c].add = todo[c].add /\ todo'[c].drop = todo[c].drop \ {k}
    BY <1>1, <1>4 DEF DropKey
  <2>2. QED BY <1>4, <2>1, DesiredStays DEF DropKey, Drops, Others, DeskStays, Open
<1>5. ASSUME NEW c \in Conns, Synced(c) PROVE Syncs(c)
  <2>1. /\ pc[c] \in {"sync", "leaving"} /\ todo[c] = [add |-> {}, drop |-> {}]
        /\ UNCHANGED <<breaks, todo, agent_keys, thread, contested>>
    BY <1>5 DEF Synced
  <2>2. CASE pc[c] = "sync"
    <3>1. /\ known' = [known EXCEPT ![c] = Desired(c)] /\ pc' = [pc EXCEPT ![c] = "idle"]
          /\ UNCHANGED <<connected, wants>>
      BY <1>5, <2>2 DEF Synced, Goto
    <3>2. /\ known'[c] = Desired(c) /\ pc'[c] = "idle"
          /\ \A d \in Conns : d # c => pc'[d] = pc[d] /\ known'[d] = known[d]
      BY <1>1, <3>1
    <3>3. QED BY <2>1, <2>2, <3>1, <3>2, DesiredStays DEF Syncs, Others, DeskStays, Open
  <2>3. CASE pc[c] = "leaving"
    <3> DEFINE n == CHOOSE i \in DOMAIN connected : connected[i] = c
    <3>1. /\ known' = [known EXCEPT ![c] = {}] /\ pc' = [pc EXCEPT ![c] = "gone"]
          /\ wants' = [wants EXCEPT ![c] = [k \in Categories |-> {}]]
          /\ connected' = RemoveAt(connected, n)
      BY <1>5, <2>3 DEF Synced, Goto
    <3>2. /\ known'[c] = {} /\ pc'[c] = "gone" /\ wants'[c] = [k \in Categories |-> {}]
          /\ \A d \in Conns : d # c => pc'[d] = pc[d] /\ known'[d] = known[d] /\ wants'[d] = wants[d]
      BY <1>1, <3>1
    <3>3. c \in Open /\ connected \in Seq(Conns)
      BY <2>3 DEF DInv, Desks, Seated, Shape
    <3>4. n \in 1..Len(connected) /\ connected[n] = c
      BY <3>3, LenProperties DEF Open, ToSet
    <3> HIDE DEF n
    <3>5. Open \ {c} \subseteq Open'
      BY <3>1, <3>3, <3>4, RemovedAt DEF Open
    <3>6. Desired(c)' = {}
      BY <3>2 DEF Desired
    <3>7. QED BY <2>1, <2>3, <3>2, <3>5, <3>6, DesiredStays DEF Syncs, Others, DeskStays
  <2>4. QED BY <2>1, <2>2, <2>3
<1>6. ASSUME NEW c \in Conns, Leave(c) PROVE Leaves(c)
  <2>1. /\ pc'[c] = "leaving" /\ todo'[c].add = todo[c].add /\ todo'[c].drop = known[c]
        /\ \A d \in Conns : d # c => todo'[d] = todo[d] /\ pc'[d] = pc[d]
    BY <1>1, <1>6 DEF Leave, Goto
  <2>2. QED BY <1>6, <2>1, DesiredStays DEF Leave, Leaves, Others, DeskStays, Open
<1>7. ASSUME NEW a \in Clients, NEW k \in Keys, AgentSet(a, k) PROVE AgentSets(k)
  BY <1>7, DesiredStays DEF AgentSet, AgentSets
<1>8. ASSUME NEW a \in Clients, NEW k \in Keys, AgentClear(a, k) PROVE AgentClears(k)
  <2>1. ASSUME NEW c \in Conns, k \in Held(c) PROVE k \in contested'
    <3>1. <<c, "set">> \in Claims(k) \ {<<"mcp", "set">>}
      BY <2>1, DebuggerAssumption DEF Claims, Held
    <3>2. QED BY <1>8, <3>1 DEF AgentClear
  <2>2. QED BY <1>8, <2>1, DesiredStays DEF AgentClear, AgentClears
<1>9. ASSUME NEW c \in Clients, NEW kind, NEW temp, Spawn(c, kind, temp),
             UNCHANGED <<breaks, sets, connected, pc, agent_keys>>, Observe \/ (temp = None /\ contested' = contested)
      PROVE  Spawns(c)
  <2>1. thread[c].at = "done" /\ thread'[c] = [kind |-> kind, at |-> IF temp = None THEN "begin" ELSE "arm", temp |-> temp]
    BY <1>1, <1>9 DEF Spawn, Threads
  <2>2. ThreadsBut(c)
    BY <1>1, <1>9 DEF Spawn, ThreadsBut, Threads
  <2>3. QED BY <1>9, <2>1, <2>2, DesiredStays DEF Spawns
<1>10. ASSUME NEW c \in Clients, Continue(c) \/ NextHalt(c) \/ \E k \in Keys : NextOver(c, k)
       PROVE  Spawns(c)
  BY <1>9, <1>10 DEF Continue, NextHalt, NextOver
<1>11. ASSUME NEW c \in Clients, Arm(c) PROVE Arms(c)
  <2>1. thread[c].temp \in Keys
    BY <1>1, <1>11 DEF Arm, At, DInv, Desks, TempNamed, Threads
  <2>2. thread'[c].temp = thread[c].temp /\ thread'[c].at = "begin" /\ ThreadsBut(c)
    BY <1>1, <1>11 DEF Arm, Move, Threads, ThreadsBut
  <2>3. QED BY <1>11, <2>1, <2>2, DesiredStays DEF Arm, Arms
<1>12. ASSUME NEW c \in Clients, Disarm(c) PROVE Disarms(c)
  <2>1. thread'[c].temp = None /\ thread'[c].at = "done" /\ ThreadsBut(c)
    BY <1>1, <1>12 DEF Disarm, NoThread, Threads, ThreadsBut
  <2>2. QED BY <1>12, <2>1, DesiredStays DEF Disarm, Disarms
<1>13. QED BY <1>2, <1>3, <1>4, <1>5, <1>6, <1>7, <1>8, <1>10, <1>11, <1>12, AsideSteps
           DEF Next, Ask, Serve, Drive
-----------------------------------------------------------------------------
(* The breakpoints.                                                        *)

\* What is not contested after a step was not before.
LEMMA ContestedGrows ==
  ASSUME DInv, [Next]_vars
  PROVE  contested \subseteq contested'
BY StepCases DEF Aside, Edits, Adds, Drops, Syncs, Leaves, AgentSets, AgentClears, Spawns, Arms, Disarms, Observe

\* Every step keeps connections on the list, and temporary breakpoints named.
LEMMA StepSeated ==
  ASSUME DInv, [Next]_vars
  PROVE  Seated' /\ TempNamed'
<1>1. Seated /\ TempNamed
  BY DEF DInv, Desks
<1>2. CASE Aside
  BY <1>1, <1>2 DEF Aside, Seated, TempNamed
<1>3. ASSUME NEW c \in Conns, Edits(c) \/ Syncs(c) \/ Leaves(c) \/ \E k \in Keys : Adds(c, k) \/ Drops(c, k)
      PROVE  Seated' /\ TempNamed'
  <2>1. thread' = thread
    BY <1>3 DEF Edits, Syncs, Leaves, Adds, Drops
  <2>2. Seated'
    BY <1>1, <1>3 DEF Edits, Syncs, Leaves, Adds, Drops, Seated, Others, DeskStays
  <2>3. QED BY <1>1, <2>1, <2>2 DEF TempNamed
<1>4. ASSUME NEW k \in Keys, AgentSets(k) \/ AgentClears(k) PROVE Seated' /\ TempNamed'
  BY <1>1, <1>4 DEF AgentSets, AgentClears, DesksStay, DeskStays, Seated, TempNamed
<1>5. ASSUME NEW c \in Clients, Spawns(c) \/ Arms(c) \/ Disarms(c) PROVE Seated' /\ TempNamed'
  <2>1. Seated'
    BY <1>1, <1>5 DEF Spawns, Arms, Disarms, DesksStay, DeskStays, Seated
  <2>2. ThreadsBut(c) /\ (thread'[c].at = "arm" => thread'[c].temp # None)
    BY <1>5 DEF Spawns, Arms, Disarms
  <2>3. QED BY <1>1, <2>1, <2>2 DEF TempNamed, ThreadsBut
<1>6. QED BY <1>2, <1>3, <1>4, <1>5, StepCases

\* Claims that only shrink leave a key with the holder it has.
LEMMA Shrinks ==
  ASSUME Shape, Alone, contested \subseteq contested', agent_keys' \subseteq agent_keys,
         \A d \in Conns : Held(d)' \subseteq Held(d),
         \A d \in Clients : thread'[d].temp \in {thread[d].temp, None}
  PROVE  Alone'
<1>1. \A c \in Conns : None \notin Held(c)
  BY DebuggerAssumption DEF Shape, Held, Desired
<1>2. ASSUME NEW c \in Conns, NEW k \in Held(c)' \ contested'
      PROVE  /\ k \notin agent_keys'
             /\ \A d \in Conns : k \in Held(d)' => c = d
             /\ \A d \in Clients : thread'[d].temp # k
  <2>1. k \in Held(c) \ contested
    BY <1>2
  <2>2. QED BY <1>1, <2>1 DEF Alone
<1>3. QED BY <1>2 DEF Alone

\* Every step leaves a key nobody has contested with one holder.
LEMMA StepAlone ==
  ASSUME DInv, [Next]_vars
  PROVE  Alone'
<1>1. Shape /\ Shape' /\ Alone /\ contested \subseteq contested'
  BY StepShape, ContestedGrows DEF DInv, Desks
<1>2. CASE Observe
  BY <1>1, <1>2, Observed
<1>3. CASE Aside
  <2>1. \A d \in Conns : Held(d)' = Held(d)
    BY <1>3, DesiredStays DEF Aside, Held
  <2>2. QED BY <1>1, <1>3, <2>1, Shrinks DEF Aside
<1>4. ASSUME NEW c \in Conns, Syncs(c) \/ Leaves(c) \/ \E k \in Keys : Adds(c, k) \/ Drops(c, k)
      PROVE  Alone'
  <2>1. \A d \in Conns : Held(d)' \subseteq Held(d)
    BY <1>4 DEF Syncs, Leaves, Adds, Drops, Others, DeskStays, Held
  <2>2. agent_keys' = agent_keys /\ thread' = thread
    BY <1>4 DEF Syncs, Leaves, Adds, Drops
  <2>3. QED BY <1>1, <2>1, <2>2, Shrinks
<1>5. ASSUME NEW k \in Keys, AgentClears(k) PROVE Alone'
  <2>1. \A d \in Conns : Held(d)' \subseteq Held(d)
    BY <1>5 DEF AgentClears, DesksStay, DeskStays, Held
  <2>2. QED BY <1>1, <1>5, <2>1, Shrinks DEF AgentClears
<1>6. ASSUME NEW c \in Clients, Arms(c) \/ Disarms(c) \/ (Spawns(c) /\ thread'[c].temp = None) PROVE Alone'
  <2>1. \A d \in Conns : Held(d)' \subseteq Held(d)
    BY <1>6 DEF Arms, Disarms, Spawns, DesksStay, DeskStays, Held
  <2>2. agent_keys' = agent_keys /\ \A d \in Clients : thread'[d].temp \in {thread[d].temp, None}
    BY <1>6 DEF Arms, Disarms, Spawns, ThreadsBut
  <2>3. QED BY <1>1, <2>1, <2>2, Shrinks
<1>7. QED BY <1>2, <1>3, <1>4, <1>5, <1>6, StepCases DEF Edits, AgentSets, Spawns

\* Every step keeps what is left of the loops of sync_breakpoints.
LEMMA StepReconciles ==
  ASSUME DInv, [Next]_vars
  PROVE  Reconciles'
<1>1. Reconciles
  BY DEF DInv, Desks
<1>2. CASE Aside
  <2>1. \A d \in Conns : Desired(d)' = Desired(d)
    BY <1>2, DesiredStays DEF Aside
  <2>2. QED BY <1>1, <1>2, <2>1 DEF Aside, Reconciles
<1>3. ASSUME NEW c \in Conns, Edits(c) PROVE Reconciles'
  BY <1>1, <1>3 DEF Edits, Others, DeskStays, Reconciles
<1>4. ASSUME NEW c \in Conns, NEW k \in Keys, Adds(c, k) \/ Drops(c, k) PROVE Reconciles'
  BY <1>1, <1>4 DEF Adds, Drops, Others, DeskStays, Reconciles
<1>5. ASSUME NEW c \in Conns, Syncs(c) \/ Leaves(c) PROVE Reconciles'
  BY <1>1, <1>5 DEF Syncs, Leaves, Others, DeskStays, Reconciles
<1>6. CASE DesksStay
  BY <1>1, <1>6 DEF DesksStay, DeskStays, Reconciles
<1>7. QED BY <1>2, <1>3, <1>4, <1>5, <1>6, StepCases DEF AgentSets, AgentClears, Spawns, Arms, Disarms

\* Every step keeps armed what a connection wants and has added.
LEMMA StepKept ==
  ASSUME DInv, [Next]_vars
  PROVE  Kept'
<1>1. Kept /\ Reconciles /\ Alone /\ contested \subseteq contested'
  BY ContestedGrows DEF DInv, Desks
<1>2. CASE Aside
  <2>1. \A d \in Conns : Desired(d)' = Desired(d)
    BY <1>2, DesiredStays DEF Aside
  <2>2. QED BY <1>1, <1>2, <2>1 DEF Aside, Kept
<1>3. ASSUME NEW c \in Conns, Edits(c) PROVE Kept'
  BY <1>1, <1>3 DEF Edits, Others, DeskStays, Kept, Reconciles
<1>4. ASSUME NEW c \in Conns, NEW k \in Keys, Adds(c, k) PROVE Kept'
  BY <1>1, <1>4 DEF Adds, Others, DeskStays, Kept
<1>5. ASSUME NEW c \in Conns, NEW k \in Keys, Drops(c, k) PROVE Kept'
  <2>1. ASSUME NEW d \in Conns, d # c, k \in Desired(d) PROVE k \in contested
    BY <1>1, <1>5, <2>1 DEF Drops, Alone, Held, Reconciles
  <2>2. pc[c] # "leaving" => k \notin Desired(c)
    BY <1>1, <1>5 DEF Drops, Reconciles
  <2>3. QED BY <1>1, <1>5, <2>1, <2>2 DEF Drops, Others, DeskStays, Kept
<1>6. ASSUME NEW c \in Conns, Syncs(c) \/ Leaves(c) PROVE Kept'
  BY <1>1, <1>6 DEF Syncs, Leaves, Others, DeskStays, Kept
<1>7. ASSUME DesksStay, \A k \in breaks \ breaks' : \A d \in Conns : k \in Held(d) => k \in contested' PROVE Kept'
  BY <1>1, <1>7 DEF DesksStay, DeskStays, Kept, Held
<1>8. ASSUME NEW k \in Keys, AgentSets(k) \/ AgentClears(k) PROVE Kept'
  BY <1>7, <1>8 DEF AgentSets, AgentClears
<1>9. ASSUME NEW c \in Clients, Spawns(c) \/ Arms(c) PROVE Kept'
  BY <1>7, <1>9 DEF Spawns, Arms
<1>10. ASSUME NEW c \in Clients, Disarms(c) PROVE Kept'
  <2>1. \A d \in Conns : thread[c].temp \in Held(d) => thread[c].temp \in contested
    BY <1>1 DEF Alone
  <2>2. QED BY <1>7, <1>10, <2>1 DEF Disarms
<1>11. QED BY <1>2, <1>3, <1>4, <1>5, <1>6, <1>8, <1>9, <1>10, StepCases

\* Every step keeps unarmed what a connection no longer wants and has dropped.
LEMMA StepDropped ==
  ASSUME DInv, [Next]_vars
  PROVE  Dropped'
<1>1. Dropped /\ Reconciles /\ Alone /\ Alone' /\ contested \subseteq contested'
  BY ContestedGrows, StepAlone DEF DInv, Desks
<1>2. CASE Aside
  <2>1. \A d \in Conns : Desired(d)' = Desired(d)
    BY <1>2, DesiredStays DEF Aside
  <2>2. QED BY <1>1, <1>2, <2>1 DEF Aside, Dropped, Leftover
<1>3. ASSUME NEW c \in Conns, Edits(c) PROVE Dropped'
  BY <1>1, <1>3 DEF Edits, Others, DeskStays, Dropped, Leftover
<1>4. ASSUME NEW c \in Conns, NEW k \in Keys, Adds(c, k) PROVE Dropped'
  <2>1. ASSUME NEW d \in Conns, d # c, k \in known[d] PROVE k \in contested
    BY <1>1, <1>4, <2>1 DEF Adds, Alone, Held, Reconciles
  <2>2. k \notin Leftover(c)
    BY <1>1, <1>4 DEF Adds, Leftover, Reconciles
  <2>3. Leftover(c)' = Leftover(c) /\ \A d \in Conns : d # c => Leftover(d)' = Leftover(d)
    BY <1>4 DEF Adds, Others, DeskStays, Leftover
  <2>4. \A d \in Conns : Leftover(d) \subseteq known[d]
    BY DEF Leftover
  <2>5. QED BY <1>1, <1>4, <2>1, <2>2, <2>3, <2>4 DEF Adds, Dropped
<1>5. ASSUME NEW c \in Conns, NEW k \in Keys, Drops(c, k) PROVE Dropped'
  <2>1. Leftover(c)' \subseteq Leftover(c) \cup {k} /\ \A d \in Conns : d # c => Leftover(d)' = Leftover(d)
    BY <1>5 DEF Drops, Others, DeskStays, Leftover
  <2>2. QED BY <1>1, <1>5, <2>1 DEF Drops, Dropped
<1>6. ASSUME NEW c \in Conns, Syncs(c) \/ Leaves(c) PROVE Dropped'
  <2>1. Leftover(c)' = {} /\ \A d \in Conns : d # c => Leftover(d)' = Leftover(d)
    BY <1>6 DEF Syncs, Leaves, Others, DeskStays, Leftover
  <2>2. breaks' = breaks
    BY <1>6 DEF Syncs, Leaves
  <2>3. QED BY <1>1, <2>1, <2>2 DEF Dropped
<1>7. ASSUME DesksStay, \A k \in breaks' \ breaks : \A d \in Conns : k \in Held(d)' => k \in contested'
      PROVE  Dropped'
  <2>1. \A d \in Conns : Leftover(d)' = Leftover(d) /\ Leftover(d)' \subseteq Held(d)'
    BY <1>7 DEF DesksStay, DeskStays, Leftover, Held
  <2>2. QED BY <1>1, <1>7, <2>1 DEF Dropped
<1>8. ASSUME NEW k \in Keys, AgentSets(k) PROVE Dropped'
  <2>1. \A d \in Conns : k \in Held(d)' => k \in contested'
    BY <1>1, <1>8 DEF AgentSets, Alone
  <2>2. QED BY <1>7, <1>8, <2>1 DEF AgentSets
<1>9. ASSUME NEW k \in Keys, AgentClears(k) PROVE Dropped'
  BY <1>7, <1>9 DEF AgentClears
<1>10. ASSUME NEW c \in Clients, Arms(c) PROVE Dropped'
  <2>1. \A d \in Conns : thread[c].temp \in Held(d)' => thread[c].temp \in contested'
    BY <1>1, <1>10 DEF Arms, Alone
  <2>2. QED BY <1>7, <1>10, <2>1 DEF Arms
<1>11. ASSUME NEW c \in Clients, Spawns(c) \/ Disarms(c) PROVE Dropped'
  BY <1>7, <1>11 DEF Spawns, Disarms
<1>12. QED BY <1>2, <1>3, <1>4, <1>5, <1>6, <1>8, <1>9, <1>10, <1>11, StepCases

\* Every step leaves an armed key that nobody has contested with somebody who
\* will clear it.
LEMMA StepNoOrphan ==
  ASSUME DInv, [Next]_vars
  PROVE  NoOrphanedBreakpoint'
<1> DEFINE Cleared(k) == \/ k \in agent_keys
                         \/ \E c \in Clients : Armed(c) /\ thread[c].temp = k
                         \/ \E c \in Open : k \in Held(c)
<1>1. /\ \A k \in breaks \ contested : Cleared(k)
      /\ Reconciles /\ Dropped /\ Seated /\ Open \subseteq Conns
      /\ contested \subseteq contested' /\ None \notin Keys /\ breaks \subseteq Keys
  BY ContestedGrows, ElementOfSeq, LenProperties, DebuggerAssumption
     DEF DInv, Desks, NoOrphanedBreakpoint, Held, Open, ToSet, Shape
<1> DEFINE AllCleared == \A k \in breaks' \ contested' : Cleared(k)'
<1>2. SUFFICES AllCleared
  BY DEF NoOrphanedBreakpoint, Held
<1>3. ASSUME Aside PROVE AllCleared
  <2>1. \A d \in Conns : Held(d)' = Held(d)
    BY <1>3, DesiredStays DEF Aside, Held
  <2>2. \A c \in Clients : Armed(c) => Armed(c)' /\ thread'[c].temp = thread[c].temp
    BY <1>3 DEF Aside, Armed
  <2>3. QED BY <1>1, <1>3, <2>1, <2>2 DEF Aside
<1>4. ASSUME NEW c \in Conns, Edits(c) \/ Leaves(c) \/ (\E k \in Keys : Drops(c, k)) PROVE AllCleared
  <2>1. \A d \in Conns : Held(d) \subseteq Held(d)'
    BY <1>1, <1>4 DEF Edits, Leaves, Drops, Others, DeskStays, Held, Reconciles
  <2>2. /\ breaks' \subseteq breaks /\ agent_keys' = agent_keys /\ thread' = thread /\ Open' = Open
    BY <1>4 DEF Edits, Leaves, Drops
  <2>3. QED BY <1>1, <2>1, <2>2 DEF Armed
<1>5. ASSUME NEW c \in Conns, NEW k \in Keys, Adds(c, k) PROVE AllCleared
  <2>1. \A d \in Conns : Held(d)' = Held(d)
    BY <1>5 DEF Adds, Others, DeskStays, Held
  <2>2. c \in Open /\ k \in Held(c)
    BY <1>1, <1>5 DEF Adds, Reconciles, Seated, Held
  <2>3. breaks' = breaks \cup {k} /\ agent_keys' = agent_keys /\ thread' = thread /\ Open' = Open
    BY <1>5 DEF Adds
  <2>4. QED BY <1>1, <2>1, <2>2, <2>3 DEF Armed
<1>6. ASSUME NEW c \in Conns, Syncs(c) PROVE AllCleared
  <2>1. \A d \in Conns : d # c => Held(d)' = Held(d)
    BY <1>6 DEF Syncs, Others, DeskStays, Held
  <2>2. breaks' = breaks /\ contested' = contested /\ agent_keys' = agent_keys /\ thread' = thread /\ Open \ {c} \subseteq Open'
    BY <1>6 DEF Syncs
  <2>3. ASSUME NEW k \in breaks \ contested, k \in Held(c) PROVE c \in Open' /\ k \in Held(c)'
    <3>1. k \notin Leftover(c)
      BY <1>1, <2>3 DEF Dropped
    <3>2. pc[c] = "sync" /\ k \in Desired(c)
      BY <1>1, <1>6, <2>3, <3>1 DEF Syncs, Leftover, Held, Reconciles
    <3>3. QED BY <1>1, <1>6, <3>2 DEF Syncs, Seated, Held
  <2>4. QED BY <1>1, <2>1, <2>2, <2>3 DEF Armed
<1>7. ASSUME NEW k \in Keys, AgentSets(k) \/ AgentClears(k) PROVE AllCleared
  <2>1. \A d \in Conns : Held(d)' = Held(d)
    BY <1>7 DEF AgentSets, AgentClears, DesksStay, DeskStays, Held
  <2>2. thread' = thread /\ Open' = Open
    BY <1>7 DEF AgentSets, AgentClears, DesksStay
  <2>3. \A j \in breaks' : j \in agent_keys' \/ (j \in breaks /\ j \notin agent_keys)
    BY <1>7 DEF AgentSets, AgentClears
  <2>4. QED BY <1>1, <2>1, <2>2, <2>3 DEF Armed
<1>8. ASSUME NEW c \in Clients, Spawns(c) \/ Arms(c) \/ Disarms(c) PROVE AllCleared
  <2>1. /\ \A d \in Conns : Held(d)' = Held(d)
        /\ Open' = Open /\ agent_keys' = agent_keys
    BY <1>8 DEF Spawns, Arms, Disarms, DesksStay, DeskStays, Held
  <2>2. \A d \in Clients : d # c => thread'[d] = thread[d]
    BY <1>8 DEF Spawns, Arms, Disarms, ThreadsBut
  <2>3. CASE Spawns(c)
    <3>1. breaks' = breaks /\ ~Armed(c)
      BY <2>3 DEF Spawns, Armed
    <3>2. QED BY <1>1, <2>1, <2>2, <3>1 DEF Armed
  <2>4. CASE Arms(c)
    <3>1. breaks' = breaks \cup {thread'[c].temp} /\ Armed(c)' /\ thread'[c].temp = thread[c].temp
      BY <1>1, <2>4 DEF Arms, Armed
    <3>2. QED BY <1>1, <2>1, <2>2, <3>1 DEF Armed
  <2>5. CASE Disarms(c)
    <3>1. breaks' = breaks \ {thread[c].temp}
      BY <2>5 DEF Disarms
    <3>2. QED BY <1>1, <2>1, <2>2, <3>1 DEF Armed
  <2>6. QED BY <1>8, <2>3, <2>4, <2>5
<1>9. QED BY <1>3, <1>4, <1>5, <1>6, <1>7, <1>8, StepCases

-----------------------------------------------------------------------------
(* The theorems.                                                           *)

\* The invariant holds throughout.
THEOREM Invariance == Spec => []DInv
<1>1. DInv /\ [Next]_vars => DInv'
  BY StepShape, StepQueued, StepSeated, StepAlone, StepReconciles, StepKept, StepDropped, StepNoOrphan
     DEF DInv, Desks
<1>2. QED BY AtStart, <1>1, PTL DEF Spec

\* For any connections, agents and breakpoints: every armed breakpoint nobody
\* contested has somebody who will clear it, and every breakpoint a connection
\* has set, and nobody contested, is armed.
THEOREM AlwaysArmedAsAsked == Spec => []ArmedAsAsked
<1>1. DInv => ArmedAsAsked
  <2> SUFFICES ASSUME DInv PROVE ArmedAsAsked
    OBVIOUS
  <2>1. Kept /\ Reconciles /\ NoOrphanedBreakpoint /\ Open \subseteq Conns
    BY ElementOfSeq, LenProperties DEF DInv, Desks, Open, ToSet, Shape
  <2>2. QED BY <2>1 DEF ArmedAsAsked, UncontestedStaysArmed, Kept, Reconciles
<1>2. QED BY Invariance, <1>1, PTL
=============================================================================
