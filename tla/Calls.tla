------------------------------- MODULE Calls --------------------------------
(***************************************************************************)
(* Whose call is running: the debugger's call stack (spectrum.cpp) and the *)
(* profile's tree of calls (profile.cpp, profile.h), both kept from what   *)
(* each instruction does to SP.                                            *)
(*                                                                         *)
(* A cell of the stack holds the number of the call whose return address   *)
(* begins there, unread: what the two are supposed to know.  A block that  *)
(* is loaded at once returns from its routine too, and tells neither.      *)
(***************************************************************************)
EXTENDS Naturals, Integers, Sequences, FiniteSets, Functions, SequencesExt, FiniteSetsExt

CONSTANTS
  Space,         \* the address space, of which SP goes round
  Sites,         \* where calls are made from, and where code runs
  MAX_DEPTH, MAX_NODES,
  Shifts,        \* what instructions other than calls add to SP
  MaxCalls       \* bound: calls and interrupts made

\* known.since: the call the debugger's call stack was last cleared after;
\* known.loaded: a block was fast-loaded since then; known.unsaid: the calls a
\* fast load returned from, and those made over them, while nothing has reached
\* their slots since.
VARIABLES
  sp,            \* the CPU's SP
  cells,         \* the call whose return address begins at each byte of memory
  calls,         \* the calls made, oldest first: history
  known,         \* what the two have been told of them: history
  call_stack, call_stack_sp,
  profile        \* the Profile, while there is one

callsVars == <<sp, cells, calls, known, call_stack, call_stack_sp, profile>>

Cleared == [nodes |-> <<[parent |-> 0, site |-> "root"]>>, frames |-> <<>>]

CallsInit ==
  /\ sp = 2
  /\ cells = [a \in 0..(Space - 1) |-> 0] /\ calls = <<>>
  /\ known = [since |-> 0, loaded |-> FALSE, unsaid |-> {}] /\ call_stack = <<>> /\ call_stack_sp = <<>>
  /\ profile = Cleared

-----------------------------------------------------------------------------
(* What is true: a call is open while its return address, and those of the *)
(* calls it was made in, are where they were pushed.                       *)

Wrapped(a) == a % Space
Intact == {i \in DOMAIN calls : cells[calls[i].slot] = i}
OpenSince(n) ==
  LET madeIn[i \in DOMAIN calls] ==
        {j \in calls[i].intact : j > n /\ madeIn[j] \subseteq calls[i].intact}
  IN {i \in Intact : i > n /\ madeIn[i] \subseteq Intact}
Open == OpenSince(0)
Slots(which) == [k \in 1..Cardinality(which) |-> calls[SetToSortSeq(which, <)[k]].slot]

-----------------------------------------------------------------------------
(* The rule of both.                                                       *)

\* stack_bytes: what an instruction that moves SP by one or two read or wrote.
StackBytes(before, after) ==
  LET rise == Wrapped(after - before)
      fall == Wrapped(before - after)
  IN CASE rise \in {1, 2} -> {Wrapped(before + k) : k \in 0..(rise - 1)}
       [] fall \in {1, 2} -> {Wrapped(after + k) : k \in 0..(fall - 1)}
       [] OTHER -> {}

LastFrameReached(slots, before, after) ==
  LET reached == {i \in DOMAIN slots : slots[i] \in StackBytes(before, after)}
  IN IF reached = {} THEN Len(slots) ELSE Max(reached) - 1

\* first_frame_reached: how many calls are not over.
FirstFrameReached(slots, before, after) ==
  LET reached == {i \in DOMAIN slots : slots[i] \in StackBytes(before, after)}
  IN IF reached = {} THEN Len(slots) ELSE Min(reached) - 1

\* std::vector's: what it grows by is 0.
Resized(s, n) == [i \in 1..n |-> IF i <= Len(s) THEN s[i] ELSE "0"]

-----------------------------------------------------------------------------
(* The Profile.                                                            *)

Node(p) == IF p.frames = <<>> THEN 1 ELSE Last(p.frames).node

\* stack_moved
StackMoved(p, before, after) ==
  [p EXCEPT !.frames = SubSeq(@, 1, FirstFrameReached([i \in DOMAIN @ |-> @[i].sp], before, after))]


\* enter: a path entered before has its node; past either bound the caller is
\* charged, and the call is still one to return from.
Enter(p, site, slot) ==
  LET before == {n \in DOMAIN p.nodes : p.nodes[n].parent = Node(p) /\ p.nodes[n].site = site}
      new == Len(p.frames) < MAX_DEPTH /\ before = {} /\ Len(p.nodes) < MAX_NODES
      node == IF Len(p.frames) < MAX_DEPTH /\ before # {} THEN Min(before)
              ELSE IF new THEN Len(p.nodes) + 1 ELSE Node(p)
  IN [p EXCEPT !.nodes = IF new THEN Append(@, [parent |-> Node(p), site |-> site]) ELSE @,
               !.frames = Append(@, [node |-> node, sp |-> slot])]


\* What clock_profiled tells it of one instruction, split where an interrupt
\* was let in: a call it interrupts is not followed.
ClockProfiled(p, i) ==
  IF i.interrupt
  THEN Enter(StackMoved(StackMoved(p, sp, i.mid), i.mid, i.after), "int", i.after)
  ELSE LET moved == StackMoved(p, sp, i.after)
       IN IF i.call /\ i.after = Wrapped(sp - 2) THEN Enter(moved, i.site, i.after) ELSE moved

-----------------------------------------------------------------------------
(* step_instruction.                                                       *)

\* The bytes it read off or pushed onto the stack.
Gone(i) == StackBytes(sp, i.mid) \cup IF i.interrupt THEN StackBytes(i.mid, i.after) ELSE {}

\* Whether a call's or an interrupt's return address was pushed.
Pushed(i) == i.interrupt \/ (i.call /\ i.mid = Wrapped(sp - 2))

\* The calls' return addresses that are left, and the new one's.
Truly(i) ==
  LET left == [a \in DOMAIN cells |-> IF a \in Gone(i) THEN 0 ELSE cells[a]]
      kept == {k \in Intact : left[calls[k].slot] = k}
  IN IF ~Pushed(i) THEN cells' = left /\ UNCHANGED calls
     ELSE /\ calls' = Append(calls, [slot |-> i.after, interrupt |-> i.interrupt,
                                     intact |-> kept])
          /\ cells' = [left EXCEPT ![i.after] = Len(calls')]

\* Both learn of a call that was over when its slot is reached after all; one
\* made before that takes its place in their chains after it.
Learnt(i) ==
  LET still == {k \in known.unsaid : calls[k].slot \notin Gone(i)}
      new == IF still # {} /\ Pushed(i) THEN {Len(calls) + 1} ELSE {}
  IN known' = [known EXCEPT !.unsaid = still \cup new]

Step(i) ==
  LET keep == FirstFrameReached(call_stack_sp, sp, i.after)
      pushed == i.call /\ i.after = Wrapped(sp - 2)
      returns == IF i.interrupt THEN "interrupted" ELSE i.site
  IN /\ Truly(i) /\ Learnt(i)
     /\ sp' = i.after
     /\ call_stack' = Resized(call_stack, keep) \o (IF pushed THEN <<returns>> ELSE <<>>)
     /\ call_stack_sp' = Resized(call_stack_sp, keep) \o (IF pushed THEN <<i.after>> ELSE <<>>)
     /\ profile' = ClockProfiled(profile, i)

\* What an instruction does to SP: a CALL or RST taken or not, a RET or POP or
\* INC SP, a PUSH or DEC SP, LD SP somewhere else, or nothing.
Moves == {[call |-> TRUE, by |-> -2], [call |-> TRUE, by |-> 0]}
    \cup {[call |-> FALSE, by |-> d] : d \in Shifts}

StepInstruction ==
  \E m \in Moves, site \in Sites, interrupt \in BOOLEAN :
    LET mid == Wrapped(sp + m.by)
    IN /\ interrupt \/ (m.call /\ m.by # 0) => Len(calls) < MaxCalls
       /\ Step([call |-> m.call, mid |-> mid, after |-> IF interrupt THEN Wrapped(mid - 2) ELSE mid,
                interrupt |-> interrupt, site |-> site])

\* fast_load_block's RET: the return address is read and SP is past it, and an
\* address goes from the call stack, but neither its slot nor the profile is told.
FastLoad ==
  LET read == {sp, Wrapped(sp + 1)}
  IN /\ sp' = Wrapped(sp + 2)
     /\ cells' = [a \in DOMAIN cells |-> IF a \in read THEN 0 ELSE cells[a]]
     /\ call_stack' = IF call_stack = <<>> THEN <<>> ELSE Front(call_stack)
     /\ known' = [known EXCEPT !.loaded = TRUE,
                               !.unsaid = @ \cup {k \in Intact : calls[k].slot \in read}]
     /\ UNCHANGED <<calls, call_stack_sp, profile>>

\* reset, set_registers: the debugger's chain is cleared.
SetRegisters(to) ==
  /\ sp' = to /\ call_stack' = <<>> /\ call_stack_sp' = <<>>
  /\ known' = [known EXCEPT !.since = Len(calls), !.loaded = FALSE]
  /\ UNCHANGED <<cells, calls, profile>>

CallsNext == StepInstruction \/ FastLoad \/ SetRegisters(0)

CallsSpec == CallsInit /\ [][CallsNext]_callsVars

-----------------------------------------------------------------------------
(* Properties.                                                             *)

\* The paths are those of the open calls (profile.h: "How the tree knows a call
\* has ended: its return address is gone from the stack").  A fast load reads
\* one off the stack that the profile goes on charging.
PathsAreCalls == [i \in DOMAIN profile.frames |-> profile.frames[i].sp] = Slots(Open)

\* They are whatever the program does with SP, while nothing it is not told of
\* stands in between: again as soon as something reaches the slots in question.
PathsFollow == known.unsaid = {} => PathsAreCalls

\* And those the debugger shows are the open calls since it was last cleared,
\* unless an interrupt came, each with an address unless a block was fast-loaded.
CallStackIsCalls ==
  (\A k \in (known.since + 1)..Len(calls) : ~calls[k].interrupt) =>
       /\ known.unsaid = {} => call_stack_sp = Slots(OpenSince(known.since))
       /\ ~known.loaded => Len(call_stack) = Len(call_stack_sp) /\ "0" \notin Range(call_stack)

=============================================================================
