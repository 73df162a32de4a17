----------------------------- MODULE Logpoints -----------------------------
(***************************************************************************)
(* Logpoints, from the instruction that hits one to the client that reads  *)
(* its report: the Engine's list and waiting reports (engine.cpp), the     *)
(* owners and the delivery of the DAP server (dap.cpp), and the numbered   *)
(* log an MCP client pages through (mcp_server.cpp).                       *)
(*                                                                         *)
(* Commands and deliveries both run on the emulator thread, so no hit and  *)
(* no other command falls between the parts of a delivery; the threads of  *)
(* the clients do.  A connection is known by its address, which a later    *)
(* one may be given again: its life tells them apart.                      *)
(***************************************************************************)
EXTENDS Naturals, Sequences, FiniteSets, SequencesExt

CONSTANTS
  Conns,        \* addresses of Connection objects
  Sources,      \* a connection's source paths ...
  Groups,       \* ... and, with them, its setLogpoints groups
  MaxIds,       \* bound: logpoints ever set
  MaxHits,      \* bound: reports ever made
  MaxLives,     \* bound: connections ever given one address
  MaxPending,   \* MAX_PENDING_LOG
  McpKeep,      \* MCP_LOG_KEEP
  Page,         \* the most lines one get_log returns
  Console,      \* the group of a source's logpoints, "" in the code
  All, Mcp, Run, None

ASSUME LogpointsAssumption ==
  /\ {MaxIds, MaxHits, MaxLives} \subseteq Nat
  /\ {MaxPending, McpKeep, Page} \subseteq Nat \ {0}
  /\ Sources \subseteq Groups /\ {All, Console} \cap Groups = {}
  /\ {Mcp, Run, None} \cap Conns = {} /\ Mcp # Run /\ Mcp # None /\ Run # None

VARIABLES
  points, next_id,   \* logpoints_ by id, next_logpoint_id_
  waiting, dropped,  \* pending_log_, log_dropped_
  going,           \* a run is in flight
  flush,             \* the delivery the emulator thread is in
  owners,            \* g_logpoint_owners: the address, the group, (history) its life
  conn,              \* each address: where its request is, and in which life
  lists,             \* source_logpoints and group_logpoints
  mcp,               \* McpLog
  task,              \* where an MCP client's set or clear is
  heard,             \* what was last said at each place a connection listens at,
                     \* reports or a stop, after the message before them
  reader,            \* an MCP reader: the line it goes on from
  serial,            \* reports made so far, by which each is known (history)
  owed               \* reports of MCP's logpoints, still set, not yet read (history)

machine == <<points, next_id, waiting, dropped, going>>
dap == <<owners, conn, lists>>
history == <<serial, owed>>
logVars == <<machine, flush, dap, mcp, task, heard, reader, history>>

\* Where a connection listens: its console, which all of its sources share, and
\* each group, whose reports come in an event of their own.
Through(g) == IF g \in Sources THEN Console ELSE g
Ears == Conns \X {Through(g) : g \in Groups}

\* A connection between two requests (or two lives) keeps only which life it is in.
Resting(at, life) == [at |-> at, group |-> All, id |-> 0, life |-> life]

NoFlush == [at |-> "none", lines |-> <<>>, dropped |-> 0, console |-> <<>>, for |-> None]
Idle == flush.at = "none"

LogInit ==
  /\ points = {} /\ next_id = 1 /\ waiting = <<>> /\ dropped = 0 /\ going = FALSE
  /\ flush = NoFlush
  /\ owners = <<>>
  /\ conn = [c \in Conns |-> Resting("gone", 0)]
  /\ lists = [c \in Conns |-> [g \in Groups |-> {}]]
  /\ mcp = [ids |-> {}, lines |-> <<>>, next |-> 1, dropped |-> 0]
  /\ task = [at |-> "idle", ids |-> {}]
  /\ heard = [e \in Ears |-> <<>>]
  /\ reader = 1
  /\ serial = 0 /\ owed = {}

-----------------------------------------------------------------------------
(* The emulator thread.  Each command ends with the delivery of whatever   *)
(* is waiting, and only then is its caller let go (submit, flush_log).     *)

DeliverCopy(who) ==
  /\ flush' = [NoFlush EXCEPT !.at = "sort", !.lines = waiting, !.dropped = dropped, !.for = who]
  /\ UNCHANGED <<waiting, dropped>>

\* deliver_log_reports: what is waiting is moved out, and then told.
Deliver(who) ==
  /\ flush' = [NoFlush EXCEPT !.at = "sort", !.lines = waiting, !.dropped = dropped, !.for = who]
  /\ waiting' = <<>> /\ dropped' = 0

\* note_logpoints: a report, unless too many are waiting.
Hit(i) ==
  /\ going /\ Idle /\ i \in points /\ serial < MaxHits
  /\ serial' = serial + 1
  /\ IF Len(waiting) >= MaxPending
     THEN dropped' = dropped + 1 /\ UNCHANGED waiting
     ELSE waiting' = Append(waiting, [id |-> i, n |-> serial']) /\ UNCHANGED dropped
  /\ owed' = IF i \in mcp.ids THEN owed \cup {[id |-> i, n |-> serial']} ELSE owed
  /\ UNCHANGED <<points, next_id, going, flush, dap, mcp, task, heard, reader>>

BeginRun ==
  /\ ~going /\ Idle /\ serial < MaxHits
  /\ going' = TRUE
  /\ UNCHANGED <<points, next_id, waiting, dropped, flush, dap, mcp, task, heard, reader, history>>

\* publish_progress: a run's reports go out every so often.
Progress ==
  /\ going /\ Idle /\ (waiting # <<>> \/ dropped > 0)
  /\ Deliver(None)
  /\ UNCHANGED <<points, next_id, going, dap, mcp, task, heard, reader, history>>


FinishRun ==
  /\ going /\ Idle
  /\ going' = FALSE
  /\ Deliver(Run)
  /\ UNCHANGED <<points, next_id, dap, mcp, task, heard, reader, history>>

\* What of a sequence is at the given places, in its order.
Picked(s, places) ==
  LET picked[i \in 0..Len(s)] ==
        IF i = 0 THEN <<>> ELSE IF i \in places THEN Append(picked[i - 1], s[i]) ELSE picked[i - 1]
  IN picked[Len(s)]

\* The reports of some logpoints.
Those(lines, ids) == Picked(lines, {i \in DOMAIN lines : lines[i].id \in ids})

\* deliver_log, under the owners' lock: whose is each report, and for which of
\* its places.
Sorted(e) ==
  LET theirs == Those(flush.lines, {i \in DOMAIN owners : <<owners[i].conn, owners[i].group>> = e})
  IN [k \in DOMAIN theirs |-> [n |-> theirs[k].n, life |-> owners[theirs[k].id].life]]

Sort ==
  /\ flush.at = "sort"
  /\ flush' = [flush EXCEPT !.at = "send", !.console = [e \in Ears |-> Sorted(e)]]
  /\ UNCHANGED <<machine, dap, mcp, task, heard, reader, history>>

\* The newest messages, after the one before them (all that their order takes).
Further(e, messages) ==
  IF messages = <<>> THEN heard[e]
  ELSE (IF heard[e] = <<>> THEN <<>> ELSE <<Last(heard[e])>>) \o messages

\* A report as a message.
Report(r) == [n |-> r.n, life |-> r.life, stop |-> FALSE]

\* To those still among g_connections, by address.
Send ==
  /\ flush.at = "send"
  /\ heard' = [e \in Ears |->
       IF conn[e[1]].at = "gone" THEN heard[e]
       ELSE Further(e, [k \in DOMAIN flush.console[e] |-> Report(flush.console[e][k])])]
  /\ flush' = [flush EXCEPT !.at = "keep", !.console = <<>>]
  /\ UNCHANGED <<machine, dap, mcp, task, reader, history>>

Latest(s) == IF Len(s) > McpKeep THEN SubSeq(s, Len(s) - McpKeep + 1, Len(s)) ELSE s

Mine == LET mine == Those(flush.lines, mcp.ids)
        IN mcp.lines \o [i \in DOMAIN mine |-> [seq |-> mcp.next + i - 1, n |-> mine[i].n]]


\* MCP's handler: number and keep its own, the latest McpKeep of them.
Keep ==
  /\ flush.at = "keep"
  /\ mcp' = [mcp EXCEPT !.lines = Latest(Mine), !.next = @ + Len(Mine) - Len(mcp.lines),
                        !.dropped = @ + flush.dropped + (Len(Mine) - Len(Latest(Mine)))]
  /\ flush' = [NoFlush EXCEPT !.at = "done", !.for = flush.for]
  /\ UNCHANGED <<machine, dap, task, heard, reader, history>>

\* (A stop right after a stop is the same news, and not told twice.)
Told(e) ==
  LET stop == [n |-> serial, life |-> conn[e[1]].life, stop |-> TRUE]
  IN IF conn[e[1]].at = "gone" \/ stop \in ToSet(heard[e]) THEN heard[e] ELSE Further(e, <<stop>>)

\* The command's promise: its caller goes on.  A run's announces the stop.
LetGo ==
  /\ flush.at = "done"
  /\ flush' = NoFlush
  /\ heard' = IF flush.for = Run THEN [e \in Ears |-> Told(e)] ELSE heard
  /\ task' = IF flush.for = Mcp THEN [task EXCEPT !.at = IF @ = "set" THEN "own" ELSE "clear"] ELSE task
  /\ conn' = IF flush.for \in Conns
             THEN [conn EXCEPT ![flush.for].at = IF @ = "set" THEN "own" ELSE "disown"] ELSE conn
  /\ UNCHANGED <<machine, owners, lists, mcp, reader, history>>

-----------------------------------------------------------------------------
(* A DAP connection.                                                       *)

Connect(c) ==
  /\ conn[c].at = "gone" /\ conn[c].life < MaxLives
  /\ conn' = [conn EXCEPT ![c] = Resting("idle", @.life + 1)]
  /\ heard' = [e \in Ears |-> IF e[1] = c THEN <<>> ELSE heard[e]]
  /\ UNCHANGED <<machine, flush, owners, lists, mcp, task, reader, history>>

\* setBreakpoints with log messages, and setLogpoints, replace one group; a
\* connection that closes drops them all.
Ask(c, g) ==
  /\ conn[c].at = "idle"
  /\ g = All \/ next_id <= MaxIds
  /\ conn' = [conn EXCEPT ![c].at = "drop", ![c].group = g]
  /\ UNCHANGED <<machine, flush, owners, lists, mcp, task, heard, reader, history>>

ToDrop(c) == UNION {lists[c][g] : g \in Groups \cap (IF conn[c].group = All THEN Groups ELSE {conn[c].group})}

\* drop_logpoints: clear one in the Engine ...
ClearOne(c) ==
  /\ conn[c].at = "drop" /\ Idle
  /\ \E i \in ToDrop(c) :
       /\ conn' = [conn EXCEPT ![c].at = "clear", ![c].id = i]
       /\ points' = points \ {i}
  /\ Deliver(c)
  /\ UNCHANGED <<next_id, going, owners, lists, mcp, task, heard, reader, history>>

Unlist(c) == lists' = [lists EXCEPT ![c] = [g \in Groups |-> @[g] \ {conn[c].id}]]

KeepOwner(c) ==
  /\ conn[c].at = "disown"
  /\ conn' = [conn EXCEPT ![c].at = "drop", ![c].id = 0]
  /\ Unlist(c)
  /\ UNCHANGED <<machine, flush, owners, mcp, task, heard, reader, history>>

\* ... and then forget whose it was.
Disown(c) ==
  /\ conn[c].at = "disown"
  /\ conn' = [conn EXCEPT ![c].at = "drop", ![c].id = 0]
  /\ owners' = [i \in DOMAIN owners \ {conn[c].id} |-> owners[i]]
  /\ Unlist(c)
  /\ UNCHANGED <<machine, flush, mcp, task, heard, reader, history>>

\* add_logpoint: set one in the Engine ...
SetOne(c) ==
  /\ conn[c].at = "drop" /\ Idle
  /\ ToDrop(c) = {} /\ conn[c].group # All /\ next_id <= MaxIds
  /\ conn' = [conn EXCEPT ![c].at = "set", ![c].id = next_id]
  /\ points' = points \cup {next_id} /\ next_id' = next_id + 1
  /\ Deliver(c)
  /\ UNCHANGED <<going, owners, lists, mcp, task, heard, reader, history>>

\* ... and then say whose it is: a report made in between reaches nobody.
Own(c) ==
  /\ conn[c].at = "own"
  /\ conn' = [conn EXCEPT ![c] = Resting("idle", @.life)]
  /\ owners' = [i \in DOMAIN owners \cup {conn[c].id} |->
       IF i = conn[c].id THEN [conn |-> c, group |-> Through(conn[c].group), life |-> conn[c].life]
       ELSE owners[i]]
  /\ lists' = [lists EXCEPT ![c][conn[c].group] = @ \cup {conn[c].id}]
  /\ UNCHANGED <<machine, flush, mcp, task, heard, reader, history>>

\* Nothing left to drop: the (empty) group is answered, or the connection goes.
Dropped(c) ==
  /\ ToDrop(c) = {}
  /\ conn[c].at = "drop"
  /\ conn' = [conn EXCEPT ![c] = Resting(IF @.group = All THEN "gone" ELSE "idle", @.life)]
  /\ UNCHANGED <<machine, flush, owners, lists, mcp, task, heard, reader, history>>

-----------------------------------------------------------------------------
(* MCP: set_logpoint, clear_logpoint (all of MCP's own), get_log.          *)

McpSet ==
  /\ task.at = "idle" /\ Idle /\ next_id <= MaxIds
  /\ task' = [at |-> "set", ids |-> {next_id}]
  /\ points' = points \cup {next_id} /\ next_id' = next_id + 1
  /\ Deliver(Mcp)
  /\ UNCHANGED <<going, dap, mcp, heard, reader, history>>

McpOwn ==
  /\ task.at = "own"
  /\ mcp' = [mcp EXCEPT !.ids = @ \cup task.ids]
  /\ task' = [at |-> "idle", ids |-> {}]
  /\ UNCHANGED <<machine, flush, dap, heard, reader, history>>

\* The ids are forgotten first, all at once, and then cleared one by one.
McpForget ==
  /\ task.at = "idle" /\ mcp.ids # {}
  /\ task' = [at |-> "clear", ids |-> mcp.ids]
  /\ mcp' = [mcp EXCEPT !.ids = {}]
  /\ owed' = {}
  /\ UNCHANGED <<machine, flush, dap, heard, reader, serial>>

McpClear ==
  /\ task.at = "clear" /\ Idle
  /\ IF task.ids = {}
     THEN task' = [task EXCEPT !.at = "idle"] /\ UNCHANGED <<points, waiting, dropped, flush>>
     ELSE \E i \in task.ids : /\ task' = [at |-> "clearing", ids |-> task.ids \ {i}]
                              /\ points' = points \ {i}
                              /\ Deliver(Mcp)
  /\ UNCHANGED <<next_id, going, dap, mcp, heard, reader, history>>


Past(s) == {s[i].n : i \in DOMAIN s}

\* The lines not read yet.
Unread(from) == Picked(mcp.lines, {i \in DOMAIN mcp.lines : mcp.lines[i].seq >= from})

\* The page is the oldest lines due.
FirstPage(s) == SubSeq(s, 1, IF Len(s) > Page THEN Page ELSE Len(s))

\* get_log: up to a page of the lines from `since` on, and where to go on.
GetLog ==
  LET due == Unread(reader)
  IN /\ reader' = IF Len(due) > Page THEN due[Page + 1].seq ELSE mcp.next
     /\ reader' # reader
     /\ owed' = {o \in owed : o.n \notin Past(FirstPage(due))}
     /\ UNCHANGED <<machine, flush, dap, mcp, task, heard, serial>>

LogEmulatorStep ==
  \/ \E i \in points : Hit(i)
  \/ BeginRun \/ Progress \/ FinishRun \/ Sort \/ Send \/ Keep \/ LetGo

ConnStep(c) ==
  \/ Connect(c) \/ ClearOne(c) \/ Disown(c) \/ SetOne(c) \/ Own(c) \/ Dropped(c)
  \/ \E g \in Groups \cup {All} : Ask(c, g)

McpStep == McpSet \/ McpOwn \/ McpForget \/ McpClear \/ GetLog

LogNext == LogEmulatorStep \/ McpStep \/ \E c \in Conns : ConnStep(c)

LogSpec == LogInit /\ [][LogNext]_logVars

-----------------------------------------------------------------------------
(* Properties.                                                             *)

\* What a connection hears is its own: no report of another's logpoint, none
\* twice and, in its console or of one group, none out of the order they happened
\* in (a stop between two reports is after the one, and before the other by
\* ReportsBeforeTheStop).  Not even a connection given the address of one that
\* went hears what was for its predecessor: a delivery is by address, and outlives
\* no logpoint it is about.
ReportsStayHome ==
  /\ \A e \in Ears :
       /\ \A i \in DOMAIN heard[e] : heard[e][i].life = conn[e[1]].life
       /\ \A i, j \in DOMAIN heard[e] :
            i < j /\ ~heard[e][i].stop => \/ heard[e][i].n < heard[e][j].n
                                          \/ heard[e][j].stop /\ heard[e][i].n = heard[e][j].n
  /\ \A i \in DOMAIN owners : owners[i].life = conn[owners[i].conn].life

\* Reports from a run reach a client before the stop that ended it: what a
\* connection hears after a stop happened after it.
ReportsBeforeTheStop ==
  \A e \in Ears : \A i, j \in DOMAIN heard[e] :
    i < j /\ heard[e][i].stop /\ ~heard[e][j].stop => heard[e][j].n > heard[e][i].n

Listing(c) == UNION {lists[c][g] : g \in Groups}

\* Every logpoint in the Engine is somebody's who will clear it; a connection
\* that is gone has left none, and no owner.
NothingOfTheGone ==
  /\ \A i \in points : \/ i \in mcp.ids \cup task.ids
                       \/ \E c \in Conns : conn[c].at # "gone" /\ i \in Listing(c) \cup {conn[c].id}
  /\ \A i \in DOMAIN owners : conn[owners[i].conn].at # "gone"

\* A reader that goes on from where get_log said misses no line without the
\* count of the dropped saying so.
LossesAreCounted ==
  LET coming == Past(waiting) \cup (IF flush.at \in {"sort", "send", "keep"} THEN Past(flush.lines) ELSE {})
      readable == Past(Unread(reader))
  IN Cardinality({o.n : o \in owed} \ (coming \cup readable))
       <= mcp.dropped + dropped + flush.dropped

\* A logpoint's reports go to whoever set it and to nobody else, each once, in
\* the order they were made and before the stop that ends the run; and a reader
\* of the log is told of every line it cannot have any more.
ReportsArrive == ReportsStayHome /\ ReportsBeforeTheStop /\ LossesAreCounted

=============================================================================
