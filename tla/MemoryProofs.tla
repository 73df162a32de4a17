---------------------------- MODULE MemoryProofs ----------------------------
(***************************************************************************)
(* The memory, what watches it, and the advert that tells of it.  What is  *)
(* mapped follows the model and the paging port, whatever banks there are  *)
(* and whatever is written, loaded, saved and stepped back to.  The flags  *)
(* the machine has for its addresses hide nothing a watchpoint wants, and  *)
(* an id is one watchpoint's, for any address space, lengths, connections  *)
(* and edits.  The advert tells the truth of the program in the machine,   *)
(* however many clients load programs and wherever the process ends.       *)
(***************************************************************************)
EXTENDS Paging, Watchpoints, Registry, TLAPS

(***************************************************************************)
(* Paging.                                                                 *)
(***************************************************************************)

\* A machine's memory, and what it keeps of its paging.
HasFields(m) ==
  m = [model |-> m.model, paging |-> m.paging, roms |-> m.roms, slot0 |-> m.slot0,
       bank_c000 |-> m.bank_c000, screen |-> m.screen, bank |-> m.bank]
WellPaged(m) ==
  /\ m.model \in Models /\ m.paging \in Pagings
  /\ m.model = "48K" => m.paging = PagedAtReset

\* The slots are those of the model and the paging.
Follows(m) ==
  /\ m.bank_c000 = BankAt(m.model, m.paging, 3)
  /\ m.screen = IF m.paging.shadow THEN SHADOW_SCREEN_BANK ELSE SCREEN_BANK
  /\ m.slot0 = IF m.model = "48K" THEN (IF m.roms = {"128K"} THEN "rom128_1" ELSE "rom48")
               ELSE IF BankAt(m.model, m.paging, 0) = "ROM1" THEN "rom128_1" ELSE "rom128_0"

MemoryOk(m) == HasFields(m) /\ WellPaged(m) /\ m.roms \subseteq Models /\ Follows(m)
Unmapped(m) == HasFields(m) /\ WellPaged(m) /\ m.roms \subseteq Models

\* Inductive: the memory is mapped and the ULA shows its screen; what is kept
\* was well paged, and a checkpoint has the screen of its paging.
PagingInv ==
  /\ MemoryOk(memory) /\ screen_bank = memory.screen
  /\ kept # nothing =>
       /\ WellPaged(kept)
       /\ kept.shown = IF kept.paging.shadow THEN SHADOW_SCREEN_BANK ELSE SCREEN_BANK

-----------------------------------------------------------------------------
(* SpectrumMemory.                                                         *)

\* remap maps whatever there is.
LEMMA RemapMaps == ASSUME NEW m, Unmapped(m) PROVE MemoryOk(Remap(m)) /\ Remap(m).model = m.model /\ Remap(m).paging = m.paging
<1>1. m.model \in {"48K", "128K"} /\ m.paging \in Pagings /\ m.roms \subseteq {"48K", "128K"}
  BY DEF Unmapped, WellPaged, Models
<1>2. m.roms = {"128K"} <=> ("48K" \notin m.roms /\ "128K" \in m.roms)
  BY <1>1
<1>3. CASE m.model = "128K"
  <2>1. Remap(m) = [model |-> m.model, paging |-> m.paging, roms |-> m.roms,
                    slot0 |-> IF m.paging.rom1 THEN "rom128_1" ELSE "rom128_0", bank_c000 |-> m.paging.bank,
                    screen |-> IF m.paging.shadow THEN SHADOW_SCREEN_BANK ELSE SCREEN_BANK, bank |-> m.bank]
    BY <1>3 DEF Remap, Unmapped, HasFields
  <2>2. QED BY <1>1, <1>3, <2>1 DEF MemoryOk, Unmapped, HasFields, WellPaged, Follows, BankAt, Models
<1>4. CASE m.model = "48K"
  <2>1. Remap(m) = [model |-> m.model, paging |-> m.paging, roms |-> m.roms,
                    slot0 |-> IF "48K" \in m.roms \/ "128K" \notin m.roms THEN "rom48" ELSE "rom128_1",
                    bank_c000 |-> DEFAULT_BANK_AT_C000, screen |-> SCREEN_BANK, bank |-> m.bank]
    BY <1>4 DEF Remap, Unmapped, HasFields
  <2>2. m.paging = PagedAtReset
    BY <1>4 DEF Unmapped, WellPaged
  <2>3. QED
    BY <1>1, <1>2, <1>4, <2>1, <2>2 DEF MemoryOk, Unmapped, HasFields, WellPaged, Follows, BankAt, Models, PagedAtReset
<1>5. QED BY <1>1, <1>3, <1>4

\* The paging of a reset is good for both models.
LEMMA ResetMaps ==
  ASSUME NEW m, HasFields(m), m.model \in Models, m.roms \subseteq Models
  PROVE  MemoryOk(ResetPaging(m)) /\ ResetPaging(m).model = m.model
<1> DEFINE r == [m EXCEPT !.paging = PagedAtReset]
<1>1. PagedAtReset \in Pagings
  BY DEF PagedAtReset, Pagings, DEFAULT_BANK_AT_C000
<1>2. r = [model |-> m.model, paging |-> PagedAtReset, roms |-> m.roms, slot0 |-> m.slot0,
           bank_c000 |-> m.bank_c000, screen |-> m.screen, bank |-> m.bank]
  BY DEF HasFields
<1>3. Unmapped(r) /\ r.model = m.model
  BY <1>1, <1>2 DEF Unmapped, HasFields, WellPaged
<1>4. QED BY <1>3, RemapMaps DEF ResetPaging

\* A write to the port is a paging of a 128K's, or nothing.
LEMMA WriteMaps ==
  ASSUME NEW m, MemoryOk(m), NEW v \in Pagings
  PROVE  MemoryOk(WritePaging(m, v))
<1>1. CASE m.model # "128K" \/ m.paging.lock
  BY <1>1 DEF WritePaging
<1>2. CASE ~(m.model # "128K" \/ m.paging.lock)
  <2> DEFINE w == [m EXCEPT !.paging = v]
  <2>1. w = [model |-> m.model, paging |-> v, roms |-> m.roms, slot0 |-> m.slot0,
             bank_c000 |-> m.bank_c000, screen |-> m.screen, bank |-> m.bank]
    BY DEF MemoryOk, HasFields
  <2>2. Unmapped(w)
    BY <1>2, <2>1 DEF MemoryOk, Unmapped, HasFields, WellPaged
  <2>3. QED BY <1>2, <2>2, RemapMaps DEF WritePaging
<1>3. QED BY <1>1, <1>2

\* And so is load_paging's, lock or no lock.
LEMMA LoadMaps ==
  ASSUME NEW m, MemoryOk(m), NEW v \in Pagings
  PROVE  MemoryOk(LoadPaging(m, v))
BY ResetMaps, WriteMaps DEF LoadPaging, MemoryOk, WellPaged

\* Changing the model resets the paging.
LEMMA SwitchMaps ==
  ASSUME NEW m, MemoryOk(m), NEW model \in Models
  PROVE  MemoryOk(SwitchModel(m, model)) /\ SwitchModel(m, model).model = model
<1> DEFINE s == [m EXCEPT !.model = model]
<1>1. s = [model |-> model, paging |-> m.paging, roms |-> m.roms, slot0 |-> m.slot0,
           bank_c000 |-> m.bank_c000, screen |-> m.screen, bank |-> m.bank]
  BY DEF MemoryOk, HasFields
<1>2. HasFields(s) /\ s.model = model /\ s.roms \subseteq Models
  BY <1>1 DEF MemoryOk, HasFields
<1>3. QED BY <1>2, ResetMaps DEF SwitchModel

\* The bytes of the banks are no part of it.
LEMMA PlacedKeeps ==
  ASSUME NEW m, MemoryOk(m), NEW banks, NEW pages
  PROVE  MemoryOk(Placed(m, banks, pages)) /\ Placed(m, banks, pages).model = m.model
<1> DEFINE p == Placed(m, banks, pages)
<1>1. PICK bytes : p = [m EXCEPT !.bank = bytes]
  BY DEF Placed
<1>2. p = [model |-> m.model, paging |-> m.paging, roms |-> m.roms, slot0 |-> m.slot0,
           bank_c000 |-> m.bank_c000, screen |-> m.screen, bank |-> bytes]
  BY <1>1 DEF MemoryOk, HasFields
<1> HIDE DEF p
<1>3. QED BY <1>2 DEF MemoryOk, HasFields, WellPaged, Follows, p

\* Nor of a machine that is yet to be mapped.
LEMMA PlacedUnmapped ==
  ASSUME NEW m, Unmapped(m), NEW banks, NEW pages
  PROVE  Unmapped(Placed(m, banks, pages))
<1> DEFINE p == Placed(m, banks, pages)
<1>1. PICK bytes : p = [m EXCEPT !.bank = bytes]
  BY DEF Placed
<1>2. p = [model |-> m.model, paging |-> m.paging, roms |-> m.roms, slot0 |-> m.slot0,
           bank_c000 |-> m.bank_c000, screen |-> m.screen, bank |-> bytes]
  BY <1>1 DEF Unmapped, HasFields
<1> HIDE DEF p
<1>3. QED BY <1>2 DEF Unmapped, HasFields, WellPaged, p

-----------------------------------------------------------------------------
(* What is kept, and put back.                                             *)

\* A load maps what it loads, on whatever machine.
LEMMA LoadedMaps ==
  ASSUME NEW m, MemoryOk(m), NEW file, WellPaged(file)
  PROVE  MemoryOk(LoadedSnapshot(m, file))
<1> DEFINE switched == IF m.model # file.model THEN SwitchModel(m, file.model) ELSE m
           placed == Placed(switched, KeptBanks(file.kind, file.model, file.paging), file.pages)
<1>1. file.model \in Models /\ file.paging \in Pagings
  BY DEF WellPaged
<1>2. MemoryOk(switched)
  BY <1>1, SwitchMaps
<1> HIDE DEF switched
<1>3. MemoryOk(placed)
  BY <1>2, PlacedKeeps
<1> HIDE DEF placed
<1>4. MemoryOk(IF file.model = "128K" THEN LoadPaging(placed, file.paging) ELSE placed)
  BY <1>1, <1>3, LoadMaps
<1>5. QED BY <1>4 DEF LoadedSnapshot, placed, switched

\* So does a step back, to the paging of the checkpoint.
LEMMA RestoredMaps ==
  ASSUME NEW m, MemoryOk(m), NEW s, WellPaged(s)
  PROVE  MemoryOk(Restored(m, s)) /\ Restored(m, s).paging = s.paging
<1> DEFINE t == [m EXCEPT !.model = s.model, !.paging = s.paging]
           placed == Placed(t, KeptBanks(s.kind, s.model, s.paging), s.pages)
<1>1. t = [model |-> s.model, paging |-> s.paging, roms |-> m.roms, slot0 |-> m.slot0,
           bank_c000 |-> m.bank_c000, screen |-> m.screen, bank |-> m.bank]
  <2>1. m = [model |-> m.model, paging |-> m.paging, roms |-> m.roms, slot0 |-> m.slot0,
             bank_c000 |-> m.bank_c000, screen |-> m.screen, bank |-> m.bank]
    BY DEF MemoryOk, HasFields
  <2> DEFINE u == [m EXCEPT !.model = s.model]
  <2>2. u = [model |-> s.model, paging |-> m.paging, roms |-> m.roms, slot0 |-> m.slot0,
             bank_c000 |-> m.bank_c000, screen |-> m.screen, bank |-> m.bank]
    BY <2>1
  <2>3. t = [u EXCEPT !.paging = s.paging]
    BY <2>1
  <2> HIDE DEF t, u
  <2>4. QED BY <2>2, <2>3
<1>2. Unmapped(t)
  BY <1>1 DEF Unmapped, HasFields, WellPaged, MemoryOk
<1>3. placed.paging = t.paging
  BY <1>1 DEF Placed
<1>4. t.paging = s.paging
  BY <1>1
<1>5. Unmapped(placed)
  BY <1>2, PlacedUnmapped
<1> HIDE DEF placed, t
<1>6. MemoryOk(Remap(placed)) /\ Remap(placed).paging = s.paging
  BY <1>3, <1>4, <1>5, RemapMaps
<1>7. QED BY <1>6 DEF Restored, placed, t

\* What is kept is well paged, as the memory was.
LEMMA KeptOk ==
  ASSUME NEW kind, NEW m, MemoryOk(m)
  PROVE  /\ WellPaged(Keep(kind, m))
         /\ Keep(kind, m).shown = IF Keep(kind, m).paging.shadow THEN SHADOW_SCREEN_BANK ELSE SCREEN_BANK
<1>1. Keep(kind, m).model = m.model /\ Keep(kind, m).paging = m.paging /\ Keep(kind, m).shown = m.screen
  BY DEF Keep
<1>2. QED BY <1>1 DEF MemoryOk, WellPaged, Follows

-----------------------------------------------------------------------------
(* The steps.                                                              *)

\* A machine is a 48K that has been reset.
LEMMA AtStart == PagingInit => PagingInv
<1> SUFFICES ASSUME PagingInit PROVE PagingInv
  OBVIOUS
<1> DEFINE m == [model |-> "48K", paging |-> PagedAtReset, roms |-> {}, slot0 |-> nothing, bank_c000 |-> nothing,
                 screen |-> nothing, bank |-> [b \in RAM_BANKS |-> FALSE]]
<1>1. HasFields(m) /\ m.model \in Models /\ m.roms \subseteq Models
  BY DEF HasFields, Models
<1>2. memory = ResetPaging(m) /\ screen_bank = memory.screen /\ kept = nothing
  BY DEF PagingInit
<1> HIDE DEF m
<1>3. QED BY <1>1, <1>2, ResetMaps DEF PagingInv

\* A machine that is mapped, with its screen shown, and a history no newer.
LEMMA BecomesKeeps ==
  ASSUME PagingInv, NEW m, MemoryOk(m), Becomes(m), kept' \in {kept, nothing}
  PROVE  PagingInv'
BY DEF PagingInv, Becomes

\* Every step keeps the invariant.
LEMMA Stays == PagingInv /\ [PagingNext]_pagingVars => PagingInv'
<1> SUFFICES ASSUME PagingInv, [PagingNext]_pagingVars PROVE PagingInv'
  OBVIOUS
<1>1. MemoryOk(memory)
  BY DEF PagingInv
<1>2. ASSUME NEW v \in PagingValues, Out(v) PROVE PagingInv'
  <2>1. MemoryOk(WritePaging(memory, v))
    BY <1>1, PagingAssumption, WriteMaps
  <2>2. QED BY <1>2, <2>1, BecomesKeeps DEF Out
<1>3. ASSUME NEW v \in PagingValues, NEW force \in BOOLEAN, SetPaging(v, force) PROVE PagingInv'
  <2>1. MemoryOk(WritePaging(memory, v)) /\ MemoryOk(LoadPaging(memory, v))
    BY <1>1, PagingAssumption, WriteMaps, LoadMaps
  <2>2. QED BY <1>3, <2>1, BecomesKeeps DEF SetPaging
<1>4. ASSUME NEW b \in RAM_BANKS, NEW marked \in BOOLEAN, WriteBank(b, marked) PROVE PagingInv'
  <2>1. PICK bytes : memory' = [memory EXCEPT !.bank = bytes]
    BY <1>4 DEF WriteBank
  <2>2. memory' = [model |-> memory.model, paging |-> memory.paging, roms |-> memory.roms, slot0 |-> memory.slot0,
                   bank_c000 |-> memory.bank_c000, screen |-> memory.screen, bank |-> bytes]
    BY <1>1, <2>1 DEF MemoryOk, HasFields
  <2>3. MemoryOk(memory)' /\ memory'.screen = memory.screen
    BY <1>1, <2>2 DEF MemoryOk, HasFields, WellPaged, Follows
  <2>4. QED BY <1>4, <2>3 DEF PagingInv, WriteBank
<1>5. ASSUME NEW which \in Models, LoadRom(which) PROVE PagingInv'
  <2> DEFINE m == [memory EXCEPT !.roms = @ \cup {which}]
  <2>1. m = [model |-> memory.model, paging |-> memory.paging, roms |-> memory.roms \cup {which}, slot0 |-> memory.slot0,
             bank_c000 |-> memory.bank_c000, screen |-> memory.screen, bank |-> memory.bank]
    BY <1>1 DEF MemoryOk, HasFields
  <2>2. Unmapped(m) /\ m.paging = memory.paging
    BY <1>1, <2>1 DEF Unmapped, MemoryOk, HasFields, WellPaged
  <2>3. memory' = Remap(m) /\ screen_bank' = screen_bank /\ kept' \in {kept, nothing}
    BY <1>5 DEF LoadRom, RestartHistory
  <2> HIDE DEF m
  <2>4. MemoryOk(memory)' /\ memory'.paging = memory.paging
    BY <2>2, <2>3, RemapMaps
  <2>5. memory'.screen = memory.screen
    BY <1>1, <2>4 DEF MemoryOk, Follows
  <2>6. QED BY <2>3, <2>4, <2>5 DEF PagingInv
<1>6. ASSUME NEW which \in Models, SetModel(which) PROVE PagingInv'
  BY <1>1, <1>6, SwitchMaps, BecomesKeeps DEF SetModel, RestartHistory
<1>7. ASSUME NEW format, SaveSnapshot(format) PROVE PagingInv'
  BY <1>1, <1>7, KeptOk DEF SaveSnapshot, PagingInv
<1>8. CASE ResetMachine
  <2>1. MemoryOk(ResetPaging(memory))
    BY <1>1, ResetMaps DEF MemoryOk, WellPaged
  <2>2. QED BY <1>8, <2>1, BecomesKeeps DEF ResetMachine
<1>9. CASE Checkpoint
  BY <1>1, <1>9, KeptOk DEF Checkpoint, PagingInv
<1>10. CASE LoadSnapshot
  <2>1. MemoryOk(LoadedSnapshot(memory, kept))
    BY <1>1, <1>10, LoadedMaps DEF PagingInv, LoadSnapshot
  <2>2. kept' \in {kept, nothing}
    BY <1>10 DEF LoadSnapshot, RestartHistory
  <2>3. CASE Becomes(LoadedSnapshot(memory, kept))
    BY <2>1, <2>2, <2>3, BecomesKeeps
  <2>4. CASE UNCHANGED <<memory, screen_bank>>
    BY <2>2, <2>4 DEF PagingInv
  <2>5. QED BY <1>10, <2>3, <2>4 DEF LoadSnapshot
<1>11. CASE StepBack
  <2>1. WellPaged(kept) /\ kept.shown = IF kept.paging.shadow THEN SHADOW_SCREEN_BANK ELSE SCREEN_BANK
    BY <1>11 DEF StepBack, PagingInv
  <2>2. MemoryOk(memory)' /\ memory'.paging = kept.paging
    BY <1>1, <1>11, <2>1, RestoredMaps DEF StepBack
  <2>3. memory'.screen = kept.shown
    BY <2>1, <2>2 DEF MemoryOk, Follows
  <2>4. QED BY <1>11, <2>2, <2>3 DEF PagingInv, StepBack
<1>12. CASE UNCHANGED pagingVars
  BY <1>12 DEF PagingInv, pagingVars
<1>13. QED
  BY <1>2, <1>3, <1>4, <1>5, <1>6, <1>7, <1>8, <1>9, <1>10, <1>11, <1>12 DEF PagingNext

\* The invariant holds of every reachable state.
THEOREM MapInvariance == PagingSpec => []PagingInv
<1>1. QED BY AtStart, Stays, PTL DEF PagingSpec

\* What the CPU's slots and the ULA hold is what anyone works out from the
\* model and the paging.
THEOREM MapAlwaysFollows == PagingSpec => []MapFollowsPaging
<1>1. PagingInv => MapFollowsPaging
  BY DEF PagingInv, MemoryOk, WellPaged, Follows, MapFollowsPaging
<1>2. QED BY <1>1, MapInvariance, PTL

-----------------------------------------------------------------------------
(***************************************************************************)
(* Watchpoints.                                                            *)
(***************************************************************************)

\* The list: valid watchpoints, under ids that have been given out.
Listed ==
  /\ next_id \in Nat \ {0}
  /\ DOMAIN watchpoints \subseteq 1..(next_id - 1)
  /\ watchpoints \in [DOMAIN watchpoints -> Valid]

\* The machine's flags are those of the list as it is.
Armed == flags = Arm(watchpoints)

\* A connection's ranges have ids that have been given out, each its own.
Known(d) ==
  /\ \A r \in DOMAIN d : d[r] \in 1..(next_id - 1)
  /\ \A r, s \in DOMAIN d : r # s => d[r] # d[s]
Remembered ==
  /\ data = [c \in Conns |-> data[c]]
  /\ \A c \in Conns : Known(data[c])

\* Inductive.
WatchInv == Listed /\ Armed /\ Remembered

-----------------------------------------------------------------------------
(* Lemmas.                                                                 *)

\* An address is itself around the space.
LEMMA NoWrap == ASSUME NEW a \in Addresses PROVE a % Space = a
  BY WatchpointsAssumption DEF Addresses

\* The next id after id was used.
LEMMA MaxOfTwo ==
  ASSUME NEW m \in Nat, NEW n \in Nat
  PROVE  /\ Max({m, n}) \in {m, n}
         /\ Max({m, n}) >= m /\ Max({m, n}) >= n
<1> DEFINE Greatest(k) == k \in {m, n} /\ \A y \in {m, n} : k >= y
<1>1. \E k : Greatest(k)
  <2>1. CASE m >= n
    BY <2>1
  <2>2. CASE n >= m
    BY <2>2
  <2> QED BY <2>1, <2>2
<1> QED BY <1>1 DEF Max

\* What a watchpoint watches without wrapping is part of what is armed for it.
LEMMA WatchedIsSpanned ==
  ASSUME NEW w \in Valid, NEW a \in Addresses, a \in w.addr..(w.addr + w.length - 1)
  PROVE  a \in Spans(w)
<1>1. w.addr \in Nat /\ w.length \in Nat /\ a \in Nat
  <2>1. w.addr \in Addresses /\ w.length \in Lengths
    BY DEF Valid
  <2>2. Addresses \subseteq Nat /\ Lengths \subseteq Nat
    BY WatchpointsAssumption DEF Addresses
  <2> QED BY <2>1, <2>2
<1>2. a - w.addr \in 0..(w.length - 1) /\ w.addr + (a - w.addr) = a
  BY <1>1
<1> QED BY <1>2, NoWrap DEF Spans

\* While a watchpoint is on, there is a flag byte for every address, and it
\* reports what the watchpoint does there: changes only if it asked for those.
LEMMA ArmedFor ==
  ASSUME NEW list, NEW i \in DOMAIN list, list[i].enabled, list[i] \in Valid,
         NEW a \in Spans(list[i]), a \in Addresses
  PROVE  /\ Arm(list) # <<>>
         /\ list[i].read => Arm(list)[a].read
         /\ list[i].write => Arm(list)[a].write
         /\ list[i].write /\ Arm(list)[a].change => list[i].change
<1> DEFINE on == {j \in DOMAIN list : list[j].enabled}
           at(b) == {j \in on : b \in Spans(list[j])}
           byte(b) == [read   |-> \E j \in at(b) : list[j].read,
                       write  |-> \E j \in at(b) : list[j].write,
                       change |-> \A j \in at(b) : list[j].write => list[j].change]
<1>1. i \in at(a)
  OBVIOUS
<1>2. Arm(list) = [b \in Addresses |-> byte(b)]
  <2>1. on # {}
    BY <1>1
  <2> QED BY <2>1 DEF Arm
<1>3. Arm(list) # <<>>
  <2>1. DOMAIN Arm(list) # {}
    BY <1>2
  <2>2. DOMAIN <<>> = {}
    OBVIOUS
  <2> QED BY <2>1, <2>2
<1>4. /\ Arm(list)[a].read <=> (\E j \in at(a) : list[j].read)
      /\ Arm(list)[a].write <=> (\E j \in at(a) : list[j].write)
      /\ Arm(list)[a].change <=> (\A j \in at(a) : list[j].write => list[j].change)
  <2>1. Arm(list)[a] = byte(a)
    BY <1>2
  <2> QED BY <2>1
<1> QED BY <1>1, <1>3, <1>4

-----------------------------------------------------------------------------
(* The list's own steps.                                                   *)

\* After a set of an id given out or next, the list is listed and armed.
LEMMA SetKeeps ==
  ASSUME Listed, NEW id \in Nat \ {0}, NEW w \in Valid, Set(id, w)
  PROVE  Listed' /\ Armed' /\ id < next_id' /\ next_id <= next_id'
<1>1. next_id' \in Nat \ {0} /\ next_id' >= next_id /\ next_id' > id
  <2>1. next_id' = Max({next_id, id + 1})
    BY DEF Set
  <2> QED BY <2>1, MaxOfTwo DEF Listed
<1>2. DOMAIN watchpoints' = DOMAIN watchpoints \cup {id}
  BY DEF Set
<1>3. DOMAIN watchpoints' \subseteq 1..(next_id' - 1)
  BY <1>1, <1>2 DEF Listed
<1>4. watchpoints' \in [DOMAIN watchpoints' -> Valid]
  BY <1>2 DEF Set, Listed
<1>5. Armed'
  BY DEF Armed, Set
<1> QED BY <1>1, <1>3, <1>4, <1>5 DEF Listed

\* After a clear too.
LEMMA ClearKeeps ==
  ASSUME Listed, NEW ids, ClearIds(ids)
  PROVE  Listed' /\ Armed' /\ next_id' = next_id
<1>1. watchpoints' = [i \in DOMAIN watchpoints \ ids |-> watchpoints[i]] /\ next_id' = next_id
  BY DEF ClearIds, Restrict
<1>2. Armed'
  BY DEF Armed, ClearIds
<1> QED BY <1>1, <1>2 DEF Listed

\* What was known stays so as ids are given out.
LEMMA RemembersOn ==
  ASSUME Listed, Remembered, data' = data, next_id' \in Nat, next_id <= next_id'
  PROVE  Remembered'
<1>1. 1..(next_id - 1) \subseteq 1..(next_id' - 1)
  BY DEF Listed
<1> QED BY <1>1 DEF Remembered, Known

\* A connection's ids only change under it when it forgets some ...
LEMMA ForgetsSome ==
  ASSUME Listed, Remembered, next_id' = next_id, NEW c \in Conns, NEW ranges,
         data' = [data EXCEPT ![c] = [r \in DOMAIN @ \ ranges |-> @[r]]]
  PROVE  Remembered'
<1>1. \A d \in Conns : data'[d] = IF d = c THEN [r \in DOMAIN data[c] \ ranges |-> data[c][r]] ELSE data[d]
  BY DEF Remembered
<1>2. data' = [d \in Conns |-> data'[d]]
  BY DEF Remembered
<1>3. ASSUME NEW d \in Conns PROVE Known(data[d])'
  <2>1. CASE d # c
    BY <1>1, <2>1 DEF Remembered, Known
  <2>2. CASE d = c
    <3>1. Known(data[c])
      BY DEF Remembered
    <3> QED BY <1>1, <2>2, <3>1 DEF Known
  <2> QED BY <2>1, <2>2
<1> QED BY <1>2, <1>3 DEF Remembered

\* ... forgets all of them ...
LEMMA ForgetsAll ==
  ASSUME Remembered, NEW c \in Conns, data' = [data EXCEPT ![c] = <<>>], next_id' = next_id
  PROVE  Remembered'
<1>1. \A d \in Conns : data'[d] = IF d = c THEN <<>> ELSE data[d]
  BY DEF Remembered
<1>2. data' = [d \in Conns |-> data'[d]]
  BY DEF Remembered
<1>3. DOMAIN <<>> = {}
  OBVIOUS
<1>4. ASSUME NEW d \in Conns PROVE Known(data[d])'
  <2>1. CASE d # c
    BY <1>1, <2>1 DEF Remembered, Known
  <2>2. CASE d = c
    BY <1>1, <1>3, <2>2 DEF Known
  <2> QED BY <2>1, <2>2
<1> QED BY <1>2, <1>4 DEF Remembered

\* ... or is given one for a range: the one it had, or the next.
LEMMA LearnsOne ==
  ASSUME Listed, Remembered, NEW c \in Conns, NEW range, NEW id \in Nat \ {0},
         id = IF range \in DOMAIN data[c] THEN data[c][range] ELSE next_id,
         next_id' \in Nat, id < next_id', next_id <= next_id',
         data' = [data EXCEPT ![c] = [r \in DOMAIN @ \cup {range} |-> IF r = range THEN id ELSE @[r]]]
  PROVE  Remembered'
<1> DEFINE learned == [r \in DOMAIN data[c] \cup {range} |-> IF r = range THEN id ELSE data[c][r]]
<1>1. \A d \in Conns : data'[d] = IF d = c THEN learned ELSE data[d]
  BY DEF Remembered
<1>2. data' = [d \in Conns |-> data'[d]]
  BY DEF Remembered
<1>3. 1..(next_id - 1) \subseteq 1..(next_id' - 1) /\ id \in 1..(next_id' - 1)
  BY DEF Listed
<1>4. \A d \in Conns : Known(data[d])
  BY DEF Remembered
<1>5. ASSUME NEW d \in Conns PROVE Known(data[d])'
  <2>1. CASE d # c
    BY <1>1, <1>3, <1>4, <2>1 DEF Known
  <2>2. CASE d = c
    <3>1. DOMAIN learned = DOMAIN data[c] \cup {range}
      OBVIOUS
    <3>2. \A r \in DOMAIN learned : learned[r] = IF r = range THEN id ELSE data[c][r]
      OBVIOUS
    <3>3. \A r \in DOMAIN learned : learned[r] \in 1..(next_id' - 1)
      BY <1>3, <1>4, <3>1, <3>2 DEF Known
    <3>4. \A r \in DOMAIN data[c] : r # range => data[c][r] # id
      BY <1>4 DEF Known, Listed
    <3>5. \A r, s \in DOMAIN learned : r # s => learned[r] # learned[s]
      BY <1>4, <3>1, <3>2, <3>4 DEF Known
    <3>6. data'[d] = learned
      BY <1>1, <2>2
    <3> QED BY <3>3, <3>5, <3>6 DEF Known
  <2> QED BY <2>1, <2>2
<1> QED BY <1>2, <1>5 DEF Remembered

-----------------------------------------------------------------------------
\* The inductive invariant of the watchpoints: the list's ids have been given
\* out, the flags are those of the list (arm_watchpoints follows every change
\* of it), and each connection's remembered ids have been given out, each to
\* one of its ranges.
THEOREM WatchInvariance == WatchSpec => []WatchInv
<1>1. WatchInit => WatchInv
  <2> SUFFICES ASSUME WatchInit PROVE WatchInv
    OBVIOUS
  <2>1. DOMAIN <<>> = {}
    OBVIOUS
  <2>2. Listed
    BY <2>1 DEF WatchInit, Listed
  <2>3. Armed
    BY <2>1 DEF WatchInit, Armed, Arm
  <2>4. Remembered
    BY <2>1 DEF WatchInit, Remembered, Known
  <2> QED BY <2>2, <2>3, <2>4 DEF WatchInv
<1>2. WatchInv /\ [WatchNext]_watchVars => WatchInv'
  <2> SUFFICES ASSUME WatchInv, [WatchNext]_watchVars PROVE WatchInv'
    OBVIOUS
  <2> USE DEF WatchInv
  <2>1. ASSUME NEW w \in Interests, SetNew(w) PROVE WatchInv'
    <3>1. Set(next_id, w) /\ data' = data /\ w \in Valid /\ next_id \in Nat \ {0}
      BY <2>1, InterestsAssumption DEF SetNew, Listed
    <3>2. Listed' /\ Armed' /\ next_id <= next_id'
      BY <3>1, SetKeeps
    <3>3. Remembered'
      BY <3>1, <3>2, RemembersOn DEF Listed
    <3> QED BY <3>2, <3>3
  <2>2. ASSUME NEW w \in Interests, NEW id \in 1..MaxId, SetById(id, w) PROVE WatchInv'
    <3>1. Set(id, w) /\ data' = data /\ w \in Valid /\ id \in Nat \ {0}
      BY <2>2, InterestsAssumption DEF SetById
    <3>2. Listed' /\ Armed' /\ next_id <= next_id'
      BY <3>1, SetKeeps
    <3>3. Remembered'
      BY <3>1, <3>2, RemembersOn DEF Listed
    <3> QED BY <3>2, <3>3
  <2>3. ASSUME NEW w \in Interests, NEW c \in Conns, SetData(c, w) PROVE WatchInv'
    <3> DEFINE range == [addr |-> w.addr, length |-> w.length]
               id == IF range \in DOMAIN data[c] THEN data[c][range] ELSE next_id
    <3>1. /\ Set(id, w) /\ w \in Valid
          /\ data' = [data EXCEPT ![c] = [r \in DOMAIN @ \cup {range} |-> IF r = range THEN id ELSE @[r]]]
      BY <2>3, InterestsAssumption DEF SetData
    <3>2. id \in Nat \ {0}
      BY DEF Remembered, Known, Listed
    <3> HIDE DEF range
    <3>3. id = IF range \in DOMAIN data[c] THEN data[c][range] ELSE next_id
      OBVIOUS
    <3> HIDE DEF id
    <3>4. Listed' /\ Armed' /\ id < next_id' /\ next_id <= next_id'
      BY <3>1, <3>2, SetKeeps
    <3>5. next_id' \in Nat
      BY <3>4 DEF Listed
    <3>6. Remembered'
      BY <3>1, <3>2, <3>3, <3>4, <3>5, LearnsOne
    <3> QED BY <3>4, <3>6
  <2>4. ASSUME NEW id, ClearOne(id) PROVE WatchInv'
    <3>1. ClearIds({id}) /\ data' = data
      BY <2>4 DEF ClearOne
    <3>2. Listed' /\ Armed' /\ next_id' = next_id
      BY <3>1, ClearKeeps
    <3>3. Remembered'
      BY <3>1, <3>2, RemembersOn DEF Listed
    <3> QED BY <3>2, <3>3
  <2>5. CASE ClearAll
    <3>1. Listed' /\ Armed' /\ next_id' = next_id
      BY <2>5, ClearKeeps DEF ClearAll
    <3>2. CASE data' = data
      BY <3>1, <3>2, RemembersOn DEF Listed
    <3>3. ASSUME NEW c \in Conns, data' = [data EXCEPT ![c] = <<>>] PROVE WatchInv'
      BY <3>1, <3>3, ForgetsAll
    <3> QED BY <2>5, <3>2, <3>3 DEF ClearAll
  <2>6. ASSUME NEW c \in Conns, Disconnect(c) PROVE WatchInv'
    <3>1. Remembered'
      BY <2>6, ForgetsAll DEF Disconnect
    <3> QED BY <2>6, <3>1 DEF Disconnect, Listed, Armed
  <2>7. ASSUME NEW c \in Conns, NEW range, DropData(c, range) PROVE WatchInv'
    <3>1. ClearIds({data[c][range]})
      BY <2>7 DEF DropData
    <3>2. Listed' /\ Armed' /\ next_id' = next_id
      BY <3>1, ClearKeeps
    <3>3. data' = [data EXCEPT ![c] = [r \in DOMAIN @ \ {range} |-> @[r]]]
      BY <2>7 DEF DropData, Restrict
    <3>4. Remembered'
      BY <3>2, <3>3, ForgetsSome
    <3> QED BY <3>2, <3>4
  <2>8. CASE UNCHANGED watchVars
    BY <2>8 DEF watchVars, Listed, Armed, Remembered, Known
  <2> QED BY <2>1, <2>2, <2>3, <2>4, <2>5, <2>6, <2>7, <2>8 DEF WatchNext
<1> QED BY <1>1, <1>2, PTL DEF WatchSpec

\* Whatever watchpoints overlap and however they were edited, an access that
\* one of them wants is reported by the machine (service_bus and watch_wanted);
\* and a watchpoint set without an id replaces none, nor is its id one that a
\* connection remembers for another range (set_watchpoint).
THEOREM AlwaysStandApart == WatchSpec => []WatchesStandApart
<1>1. WatchInv => WantedIsReported
  <2> SUFFICES ASSUME WatchInv, NEW x \in Accesses, NEW i \in DOMAIN watchpoints, Wants(watchpoints[i], x)
               PROVE  Reports(flags, x)
    BY DEF WantedIsReported, Wanted
  <2> DEFINE w == watchpoints[i]
  <2>1. w \in Valid /\ flags = Arm(watchpoints)
    BY DEF WatchInv, Listed, Armed
  <2>2. x.addr \in Addresses
    <3> DEFINE writes == [addr : Addresses, bank : Banks, write : {TRUE}, old : Values, new : Values]
               reads == {[addr |-> a, bank |-> b, write |-> FALSE, old |-> v, new |-> v] :
                           a \in Addresses, b \in Banks, v \in Values}
    <3>1. x \in writes => x.addr \in Addresses
      OBVIOUS
    <3>2. x \in reads => x.addr \in Addresses
      OBVIOUS
    <3>3. Accesses = writes \cup reads
      BY DEF Accesses
    <3> HIDE DEF writes, reads
    <3> QED BY <3>1, <3>2, <3>3
  <2>3. x.addr \in Spans(w) /\ w.enabled
    <3>1. x.addr \in w.addr..(w.addr + w.length - 1) /\ w.enabled
      BY DEF Wants
    <3> HIDE DEF w
    <3> QED BY <2>1, <2>2, <3>1, WatchedIsSpanned
  <2>4. /\ flags # <<>>
        /\ w.read => flags[x.addr].read
        /\ w.write => flags[x.addr].write
        /\ w.write /\ flags[x.addr].change => w.change
    BY <2>1, <2>2, <2>3, ArmedFor
  <2>5. CASE x.write
    BY <2>4, <2>5 DEF Wants, Reports
  <2>6. CASE ~x.write
    BY <2>4, <2>6 DEF Wants, Reports
  <2> QED BY <2>5, <2>6
<1>2. WatchInv => NewIsAdded
  BY DEF WatchInv, Listed, Remembered, Known, NewIsAdded
<1> QED BY <1>1, <1>2, WatchInvariance, PTL DEF WatchesStandApart

(***************************************************************************)
(* The advert.                                                             *)
(***************************************************************************)

\* Whoever writes has the lock, and only while the path is there.
OneWriter ==
  /\ \A w \in Writers : writing[w] # "no" => lock = w
  /\ lock # none => g_advert /\ lock \in Writers

\* Before the path is there, and once it has been taken back, there is no file.
NoPathNoFile ==
  /\ g_advert \in BOOLEAN /\ failed \in BOOLEAN
  /\ ~g_advert => disk.file = none
  /\ process \in {"starting", "silent", "exiting", "exited", "tidying", "tidied"} => ~g_advert

\* Main writes once, before anybody can be told to leave.
MainWrites ==
  /\ writing[Main] # "no" => process \in {"advertising", "killed"}
  /\ process = "advertising" => lock = Main /\ disk.file = none

\* What is about to take the file's place is all of what server_info says.
TempIsWhole == \A w \in Writers : writing[w] = "to_rename" => disk.temp = Whole

\* What is there is whole, and is what server_info says unless a write failed
\* or is under way.
FileTells ==
  /\ disk.file # none => disk.file.whole
  /\ g_advert /\ lock = none /\ ~failed => disk.file = Whole

\* Inductive: the promise, and who may change what at each point of a write.
RegistryInv ==
  /\ writing \in [Writers -> {"no", "to_open", "to_dump", "to_rename"}]
  /\ disk = [file |-> disk.file, temp |-> disk.temp]
  /\ OneWriter /\ NoPathNoFile /\ MainWrites /\ TempIsWhole /\ FileTells

\* Nothing is there at the start.
LEMMA NoAdvertAtStart == RegistryInit => RegistryInv
<1> SUFFICES ASSUME RegistryInit PROVE RegistryInv
  OBVIOUS
<1>1. /\ process = "starting" /\ lock = none /\ g_advert = FALSE /\ failed = FALSE
      /\ disk = [file |-> none, temp |-> none]
      /\ writing \in [Writers -> {"no"}]
  BY DEF RegistryInit
<1>2. Main \in Writers /\ \A w \in Writers : writing[w] = "no"
  BY <1>1 DEF Writers
<1>3. OneWriter
  BY <1>1, <1>2 DEF OneWriter
<1>4. NoPathNoFile /\ MainWrites /\ TempIsWhole /\ FileTells
  BY <1>1, <1>2 DEF NoPathNoFile, MainWrites, TempIsWhole, FileTells
<1>5. QED BY <1>1, <1>2, <1>3, <1>4 DEF RegistryInv

\* A write that is over gives the lock back, and leaves a file that is what
\* server_info says, or the word that it failed.
LEMMA DoneKeeps ==
  ASSUME RegistryInv, NEW w \in Writers, NEW well \in BOOLEAN, Up, writing[w] # "no",
         Done(w, well), UNCHANGED g_program, disk' = [file |-> disk'.file, temp |-> disk'.temp],
         IF well THEN disk'.file = Whole ELSE disk'.file = disk.file
  PROVE  RegistryInv'
<1>1. lock = w /\ g_advert /\ (w = Main => process = "advertising") /\ (process = "advertising" => w = Main)
  BY RegistryAssumption DEF RegistryInv, OneWriter, MainWrites, Up, Writers
<1>2. \A v \in Writers : writing'[v] = "no"
  BY <1>1 DEF RegistryInv, OneWriter, Done
<1>3. OneWriter'
  BY <1>2 DEF Done, OneWriter
<1>4. NoPathNoFile'
  <2>1. CASE w = Main
    <3>1. disk.file = none
      BY <1>1, <2>1 DEF RegistryInv, MainWrites
    <3>2. disk'.file = none \/ well
      BY <3>1
    <3>3. process' = (IF well THEN "advertised" ELSE "silent") /\ (well <=> g_advert') /\ g_advert' \in BOOLEAN
      <4>1. process' = IF well THEN "advertised" ELSE "silent"
        BY <2>1 DEF Done
      <4>2. g_advert' = (g_advert /\ (well \/ w # Main))
        BY DEF Done
      <4>3. QED BY <1>1, <2>1, <4>1, <4>2
    <3>4. failed' \in BOOLEAN
      BY DEF Done
    <3>5. QED BY <3>2, <3>3, <3>4 DEF NoPathNoFile
  <2>2. CASE w # Main
    <3>1. g_advert' = TRUE /\ process' = process /\ failed' \in BOOLEAN
      BY <1>1, <2>2 DEF Done
    <3>2. QED BY <1>1, <3>1 DEF RegistryInv, NoPathNoFile
  <2>3. QED BY <2>1, <2>2
<1>5. MainWrites'
  <2>1. process' # "advertising"
    BY <1>1 DEF Done
  <2>2. QED BY <1>2, <2>1 DEF MainWrites, Writers
<1>6. TempIsWhole'
  BY <1>2 DEF TempIsWhole
<1>7. FileTells'
  <2>1. Whole' = Whole /\ Whole.whole
    BY DEF Whole
  <2>2. QED BY <2>1 DEF RegistryInv, FileTells, Done
<1>8. QED BY <1>3, <1>4, <1>5, <1>6, <1>7 DEF RegistryInv, Done

\* What leaves the file and the write alone, and the path, keeps the rest.
LEMMA ProcessKeeps ==
  ASSUME RegistryInv, UNCHANGED <<lock, g_program, g_advert, writing, disk, failed>>,
         process' # "advertising", writing[Main] # "no" => process' = "killed",
         process' \in {"starting", "silent", "exiting", "exited", "tidying", "tidied"} => ~g_advert
  PROVE  RegistryInv'
BY DEF RegistryInv, OneWriter, NoPathNoFile, MainWrites, TempIsWhole, FileTells, Whole

\* The path is taken back with the file.
LEMMA WithdrawKeeps ==
  ASSUME RegistryInv, lock = none, Withdraw, UNCHANGED <<lock, g_program, writing, failed>>,
         process' \notin {"starting", "advertising"}
  PROVE  RegistryInv'
<1>1. g_advert' = FALSE /\ disk'.file = none /\ disk' = [file |-> disk'.file, temp |-> disk.temp]
  BY DEF RegistryInv, NoPathNoFile, Withdraw
<1>2. \A w \in Writers : writing[w] = "no" 
  BY RegistryAssumption DEF RegistryInv, OneWriter, Writers
<1>3. QED
  BY <1>1, <1>2 DEF RegistryInv, OneWriter, NoPathNoFile, MainWrites, TempIsWhole, FileTells, Writers

\* Every step keeps the invariant.
LEMMA AdvertStays == RegistryInv /\ [RegistryNext]_registryVars => RegistryInv'
<1> SUFFICES ASSUME RegistryInv, [RegistryNext]_registryVars PROVE RegistryInv'
  OBVIOUS
<1> USE RegistryAssumption
<1>1. ASSUME NEW w \in Writers, NEW p \in Programs, NoteProgram(w, p) PROVE RegistryInv'
  <2>1. lock = none /\ w # Main /\ process # "starting" /\ process' = process /\ g_advert' = g_advert
        /\ disk' = disk /\ failed' = failed
    BY <1>1 DEF NoteProgram
  <2>2. \A v \in Writers : writing[v] = "no"
    BY <2>1 DEF RegistryInv, OneWriter, Writers
  <2>3. process # "advertising"
    BY <2>1 DEF RegistryInv, MainWrites, Main
  <2>4. CASE g_advert
    <3>1. lock' = w /\ writing' = [writing EXCEPT ![w] = "to_open"]
      BY <1>1, <2>4 DEF NoteProgram
    <3>2. \A v \in Writers : writing'[v] = IF v = w THEN "to_open" ELSE "no"
      BY <2>2, <3>1 DEF RegistryInv
    <3>3. OneWriter' /\ TempIsWhole'
      BY <2>1, <2>4, <3>1, <3>2 DEF OneWriter, TempIsWhole
    <3>4. MainWrites'
      BY <2>1, <2>3, <3>2 DEF MainWrites, Writers
    <3>5. NoPathNoFile' /\ FileTells'
      BY <2>1, <2>4, <3>1 DEF RegistryInv, NoPathNoFile, FileTells, Writers
    <3>6. QED BY <2>1, <3>1, <3>3, <3>4, <3>5 DEF RegistryInv
  <2>5. CASE ~g_advert
    <3>1. lock' = lock /\ writing' = writing
      BY <1>1, <2>5 DEF NoteProgram
    <3>2. QED
      BY <2>1, <2>2, <2>3, <2>5, <3>1
      DEF RegistryInv, OneWriter, NoPathNoFile, MainWrites, TempIsWhole, FileTells
  <2>6. QED BY <2>4, <2>5
<1>2. ASSUME NEW w \in Writers, Open(w) PROVE RegistryInv'
  <2>1. CASE Done(w, FALSE) /\ UNCHANGED disk
    BY <1>2, <2>1, DoneKeeps DEF Open, RegistryInv
  <2>2. CASE /\ disk' = [disk EXCEPT !.temp = Partial] /\ writing' = [writing EXCEPT ![w] = "to_dump"]
             /\ UNCHANGED <<process, lock, g_advert, failed>>
    <3>1. lock = w /\ disk' = [file |-> disk.file, temp |-> Partial] /\ Whole' = Whole
      BY <1>2, <2>2 DEF Open, RegistryInv, OneWriter, Whole
    <3>2. \A v \in Writers : writing'[v] = IF v = w THEN "to_dump" ELSE "no"
      BY <2>2, <3>1 DEF RegistryInv, OneWriter
    <3>3. writing'[Main] # "no" => writing[Main] # "no"
      BY <1>2, <3>2 DEF Writers, Open
    <3>4. QED
      BY <2>2, <3>1, <3>2, <3>3 DEF RegistryInv, OneWriter, NoPathNoFile, MainWrites, TempIsWhole, FileTells
  <2>3. QED BY <1>2, <2>1, <2>2 DEF Open
<1>3. ASSUME NEW w \in Writers, Dump(w) PROVE RegistryInv'
  <2>1. CASE Done(w, FALSE) /\ UNCHANGED disk
    BY <1>3, <2>1, DoneKeeps DEF Dump, RegistryInv
  <2>2. CASE /\ disk' = [disk EXCEPT !.temp = Whole] /\ writing' = [writing EXCEPT ![w] = "to_rename"]
             /\ UNCHANGED <<process, lock, g_advert, failed>>
    <3>1. lock = w /\ disk' = [file |-> disk.file, temp |-> Whole] /\ Whole' = Whole
      BY <1>3, <2>2 DEF Dump, RegistryInv, OneWriter, Whole
    <3>2. \A v \in Writers : writing'[v] = IF v = w THEN "to_rename" ELSE "no"
      BY <2>2, <3>1 DEF RegistryInv, OneWriter
    <3>3. writing'[Main] # "no" => writing[Main] # "no"
      BY <1>3, <3>2 DEF Writers, Dump
    <3>4. QED
      BY <2>2, <3>1, <3>2, <3>3 DEF RegistryInv, OneWriter, NoPathNoFile, MainWrites, TempIsWhole, FileTells
  <2>3. QED BY <1>3, <2>1, <2>2 DEF Dump
<1>4. ASSUME NEW w \in Writers, Rename(w) PROVE RegistryInv'
  <2>1. writing[w] = "to_rename" /\ Up /\ UNCHANGED g_program /\ disk.temp = Whole
    BY <1>4 DEF Rename, RegistryInv, TempIsWhole
  <2>2. CASE disk' = [file |-> disk.temp, temp |-> none] /\ Done(w, TRUE)
    BY <2>1, <2>2, DoneKeeps
  <2>3. CASE disk' = [disk EXCEPT !.temp = none] /\ Done(w, FALSE)
    <3>1. disk' = [file |-> disk.file, temp |-> none]
      BY <2>3 DEF RegistryInv
    <3>2. QED BY <2>1, <2>3, <3>1, DoneKeeps
  <2>4. QED BY <1>4, <2>2, <2>3 DEF Rename
<1>5. CASE Advertise
  <2>1. /\ lock' = Main /\ g_advert' = TRUE /\ process' = "advertising" /\ disk' = disk /\ failed' = failed
        /\ writing' = [writing EXCEPT ![Main] = "to_open"]
    BY <1>5 DEF Advertise
  <2>2. disk.file = none /\ \A v \in Writers : writing[v] = "no"
    BY <1>5 DEF RegistryInv, NoPathNoFile, OneWriter, Advertise, Writers
  <2>3. Main \in Writers /\ \A v \in Writers : writing'[v] = IF v = Main THEN "to_open" ELSE "no"
    BY <2>1, <2>2 DEF RegistryInv, Writers
  <2>4. QED
    BY <2>1, <2>2, <2>3 DEF RegistryInv, OneWriter, NoPathNoFile, MainWrites, TempIsWhole, FileTells
<1>6. CASE WithdrawOnExit
  BY <1>6, ProcessKeeps DEF WithdrawOnExit, RegistryInv, MainWrites
<1>7. CASE Exit
  <2>1. CASE process = "serving"
    BY <1>7, <2>1, WithdrawKeeps DEF Exit
  <2>2. CASE process = "silent"
    BY <1>7, <2>2, ProcessKeeps DEF Exit, RegistryInv, MainWrites, NoPathNoFile
  <2>3. QED BY <1>7, <2>1, <2>2 DEF Exit
<1>8. CASE Exited
  BY <1>8, ProcessKeeps DEF Exited, RegistryInv, MainWrites, NoPathNoFile
<1>9. CASE OnSignal
  <2>1. CASE lock = none
    BY <1>9, <2>1, WithdrawKeeps DEF OnSignal
  <2>2. CASE lock # none
    BY <1>9, <2>2, ProcessKeeps DEF OnSignal, RegistryInv, MainWrites
  <2>3. QED BY <2>1, <2>2
<1>10. CASE Raised
  BY <1>10, ProcessKeeps DEF Raised, RegistryInv, MainWrites, NoPathNoFile
<1>11. CASE Killed
  BY <1>11, ProcessKeeps DEF Killed
<1>12. CASE UNCHANGED registryVars
  BY <1>12 DEF registryVars, RegistryInv, OneWriter, NoPathNoFile, MainWrites, TempIsWhole, FileTells, Whole
<1>13. QED
  BY <1>1, <1>2, <1>3, <1>4, <1>5, <1>6, <1>7, <1>8, <1>9, <1>10, <1>11, <1>12 DEF RegistryNext

\* The invariant holds of every reachable state.
THEOREM AdvertInvariance == RegistrySpec => []RegistryInv
<1>1. QED BY NoAdvertAtStart, AdvertStays, PTL DEF RegistrySpec

\* A reader finds a whole advert or none, what it says is what server_info says,
\* and it does not outlive the process it tells of.
THEOREM AdvertAlwaysTells == RegistrySpec => []AdvertTells
<1>1. RegistryInv => AdvertTells
  BY DEF RegistryInv, NoPathNoFile, FileTells, AdvertTells
<1>2. QED BY <1>1, AdvertInvariance, PTL
=============================================================================
