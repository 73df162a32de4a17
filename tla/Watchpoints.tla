---------------------------- MODULE Watchpoints ----------------------------
(***************************************************************************)
(* Watchpoints: the Engine's list (engine.cpp), the one flag byte an       *)
(* address has in the machine (spectrum.cpp), the hit a run looks at after *)
(* each instruction, and the ids the DAP and MCP servers know them by.     *)
(*                                                                         *)
(* The machine can only answer for an address, and reports what the laxer  *)
(* of two watchpoints wants; the Engine then filters.                      *)
(***************************************************************************)
EXTENDS Naturals, Sequences, FiniteSets, Functions, FiniteSetsExt

CONSTANTS
  Space,       \* the size of the address space (0x10000)
  Lengths,     \* lengths in use
  Values,      \* bytes in use
  Banks,       \* banks that can be paged in
  AnyBank,
  Interests,      \* the watchpoints the clients ask for
  Conns,       \* DAP connections
  MaxId        \* bound: ids ever used

ASSUME WatchpointsAssumption ==
  /\ Space \in Nat \ {0} /\ MaxId \in Nat
  /\ Lengths \subseteq 1..Space
  /\ AnyBank \notin Banks

Addresses == 0..(Space - 1)
Tests == {[kind |-> "none"]} \cup [kind : {"equals", "not_equals"}, value : Values]

\* What a client can ask for: a test of the value sees every write
\* (set_watchpoint, setDataBreakpoints, setWatchpoint).
Valid == {w \in [addr : Addresses, length : Lengths, bank : Banks \cup {AnyBank},
                  read : BOOLEAN, write : BOOLEAN, change : BOOLEAN, test : Tests, enabled : BOOLEAN] :
             /\ w.read \/ w.write
             /\ w.test.kind # "none" => ~w.change}

ASSUME InterestsAssumption == Interests \subseteq Valid

\* What an instruction can do to one address.
Accesses == [addr : Addresses, bank : Banks, write : {TRUE}, old : Values, new : Values]
       \cup {[addr |-> a, bank |-> b, write |-> FALSE, old |-> v, new |-> v] :
               a \in Addresses, b \in Banks, v \in Values}

VARIABLES
  watchpoints,  \* watchpoints_, by id
  next_id,      \* next_watchpoint_id_
  flags,        \* the machine's watch flags; empty when nothing is watched
  data          \* each connection's data_breakpoints: a range's id

watchVars == <<watchpoints, next_id, flags, data>>

WatchInit ==
  /\ watchpoints = <<>> /\ next_id = 1 /\ flags = <<>>
  /\ data = [c \in Conns |-> <<>>]

-----------------------------------------------------------------------------
(* The Engine's list and the machine's flags.                              *)

Spans(w) == {(w.addr + i) % Space : i \in 0..(w.length - 1)}

ArmStrictest(list) ==
  LET on == {i \in DOMAIN list : list[i].enabled}
      at(a) == {i \in on : a \in Spans(list[i])}
  IN IF on = {} THEN <<>>
     ELSE [a \in Addresses |->
            [read   |-> \E i \in at(a) : list[i].read,
             write  |-> \E i \in at(a) : list[i].write,
             change |-> \E i \in at(a) : list[i].write /\ list[i].change]]

\* arm_watchpoints: an address reports only changes if nobody who covers it
\* wants every write.
Arm(list) ==
  LET on == {i \in DOMAIN list : list[i].enabled}
      at(a) == {i \in on : a \in Spans(list[i])}
  IN IF on = {} THEN <<>>
     ELSE [a \in Addresses |->
            [read   |-> \E i \in at(a) : list[i].read,
             write  |-> \E i \in at(a) : list[i].write,
             change |-> \A i \in at(a) : list[i].write => list[i].change]]

\* The test on the bus (service_bus).
Reports(f, x) ==
  /\ f # <<>>
  /\ IF x.write THEN f[x.addr].write /\ (f[x.addr].change => x.old # x.new)
     ELSE f[x.addr].read

\* watch_wanted: whether one watchpoint wants a hit.  It does not wrap.
Wants(w, x) ==
  /\ w.enabled
  /\ x.addr \in w.addr..(w.addr + w.length - 1)
  /\ IF x.write THEN w.write ELSE w.read
  /\ w.bank \in {AnyBank, x.bank}
  /\ ~(x.write /\ w.change /\ x.old = x.new)
  /\ w.test.kind = "equals" => x.new = w.test.value
  /\ w.test.kind = "not_equals" => x.new # w.test.value

Wanted(x) == \E i \in DOMAIN watchpoints : Wants(watchpoints[i], x)


\* set_watchpoint: an edit, or a new one whose id no later one may get.
Set(id, w) ==
  /\ watchpoints' = [i \in DOMAIN watchpoints \cup {id} |-> IF i = id THEN w ELSE watchpoints[i]]
  /\ next_id' = Max({next_id, id + 1})
  /\ flags' = Arm(watchpoints')

\* clear_watchpoint
ClearIds(ids) ==
  /\ watchpoints' = Restrict(watchpoints, DOMAIN watchpoints \ ids)
  /\ flags' = Arm(watchpoints')
  /\ UNCHANGED next_id

-----------------------------------------------------------------------------
(* Its clients.                                                            *)

\* set_watchpoint over MCP and the editor's setWatchpoint, without an id ...
SetNew(w) ==
  /\ next_id <= MaxId
  /\ Set(next_id, w)
  /\ UNCHANGED data

\* ... and with one, which need not exist.
SetById(id, w) ==
  /\ Set(id, w)
  /\ UNCHANGED data

\* clear_watchpoint; DAP's, clearing all, forgets its own ranges' ids with it.
ClearOne(id) ==
  /\ ClearIds({id})
  /\ UNCHANGED data

ClearAll ==
  /\ ClearIds(DOMAIN watchpoints)
  /\ \/ UNCHANGED data
     \/ \E c \in Conns : data' = [data EXCEPT ![c] = <<>>]

\* setDataBreakpoints, range by range: one it knows is set again under the id
\* it had, though someone may have cleared that since ...
SetData(c, w) ==
  LET range == [addr |-> w.addr, length |-> w.length]
      id == IF range \in DOMAIN data[c] THEN data[c][range] ELSE next_id
  IN /\ id <= MaxId
     /\ Set(id, w)
     /\ data' = [data EXCEPT ![c] = [r \in DOMAIN @ \cup {range} |-> IF r = range THEN id ELSE @[r]]]
   
\* ... and one it no longer lists is cleared.
DropData(c, range) ==
  /\ range \in DOMAIN data[c]
  /\ ClearIds({data[c][range]})
  /\ data' = [data EXCEPT ![c] = Restrict(@, DOMAIN @ \ {range})]

\* The connection goes: its ids are forgotten, and its watchpoints stay.
Disconnect(c) ==
  /\ data[c] # <<>>
  /\ data' = [data EXCEPT ![c] = <<>>]
  /\ UNCHANGED <<watchpoints, next_id, flags>>

WatchNext ==
  \/ \E w \in Interests : \/ SetNew(w)
                       \/ \E id \in 1..MaxId : SetById(id, w)
                       \/ \E c \in Conns : SetData(c, w)
  \/ \E id \in DOMAIN watchpoints : ClearOne(id)
  \/ ClearAll
  \/ \E c \in Conns : Disconnect(c) \/ \E range \in DOMAIN data[c] : DropData(c, range)

WatchSpec == WatchInit /\ [][WatchNext]_watchVars

-----------------------------------------------------------------------------
(* Properties.                                                             *)

\* Whatever watchpoints overlap, however they have been edited: an access that
\* one of them wants is never hidden by the flags the machine has for it.
WantedIsReported == \A x \in Accesses : Wanted(x) => Reports(flags, x)

\* An id no client has named is never somebody else's: a watchpoint set
\* without one adds to the list, and replaces nothing in it, and a range's
\* remembered id is no other connection's.
NewIsAdded ==
  /\ next_id \notin DOMAIN watchpoints
  /\ \A c \in Conns : next_id \notin {data[c][r] : r \in DOMAIN data[c]}
  /\ \A c \in Conns : \A r, s \in DOMAIN data[c] : r # s => data[c][r] # data[c][s]

\* Both.
WatchesStandApart == WantedIsReported /\ NewIsAdded

=============================================================================
