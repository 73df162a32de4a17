------------------------------- MODULE Paging -------------------------------
(***************************************************************************)
(* What is where in the address space, and what a snapshot or a rewind     *)
(* checkpoint keeps of it (cpp-core/src/memory.cpp, memory.h, snapshot.cpp,*)
(* spectrum.cpp, engine.cpp).                                              *)
(*                                                                         *)
(* A bank's bytes are one value, marked or not.  The registers, the border *)
(* and the AY, which are copied, are left out.                             *)
(***************************************************************************)
EXTENDS Naturals, FiniteSets, Sequences, SequencesExt

CONSTANTS
  RAM_BANKS,   \* those told apart, some of 0..7
  PagingValues, \* values of port 0x7FFD: bank, rom1, shadow, lock
  nothing,
  MaxMarked    \* bound: banks with other bytes in them than the rest

Models == {"48K", "128K"}
Pagings == [bank : Nat, rom1 : BOOLEAN, shadow : BOOLEAN, lock : BOOLEAN]
ASSUME PagingAssumption == PagingValues \subseteq Pagings

BANK_AT_4000 == 5
BANK_AT_8000 == 2
DEFAULT_BANK_AT_C000 == 0
SCREEN_BANK == 5
SHADOW_SCREEN_BANK == 7
RAM48_BANKS == <<5, 2, 0>>

VARIABLES
  memory,       \* SpectrumMemory
  screen_bank,  \* the ULA's
  kept          \* a snapshot saved, or a checkpoint of the history there is

pagingVars == <<memory, screen_bank, kept>>

PagedAtReset == [bank |-> DEFAULT_BANK_AT_C000, rom1 |-> FALSE, shadow |-> FALSE, lock |-> FALSE]

-----------------------------------------------------------------------------
(* SpectrumMemory.                                                         *)

Remap(m) ==
  IF m.model = "128K"
  THEN [m EXCEPT !.slot0 = IF m.paging.rom1 THEN "rom128_1" ELSE "rom128_0",
                 !.bank_c000 = m.paging.bank,
                 !.screen = IF m.paging.shadow THEN SHADOW_SCREEN_BANK ELSE SCREEN_BANK]
  ELSE [m EXCEPT !.slot0 = IF "48K" \in m.roms \/ "128K" \notin m.roms THEN "rom48" ELSE "rom128_1",
                 !.bank_c000 = DEFAULT_BANK_AT_C000,
                 !.screen = SCREEN_BANK]

ResetPaging(m) == Remap([m EXCEPT !.paging = PagedAtReset])
WritePaging(m, v) == IF m.model # "128K" \/ m.paging.lock THEN m ELSE Remap([m EXCEPT !.paging = v])
\* load_paging: outright, lock or no lock.
LoadPaging(m, v) == WritePaging(ResetPaging(m), v)
SwitchModelOnly(m, model) == Remap([m EXCEPT !.model = model])
SwitchModel(m, model) == ResetPaging([m EXCEPT !.model = model])

\* bank_at, of one who has only the model and the paging.
BankAt(model, paging, slot) ==
  CASE slot = 0 -> IF model = "128K" /\ paging.rom1 THEN "ROM1" ELSE "ROM0"
    [] slot = 1 -> BANK_AT_4000 [] slot = 2 -> BANK_AT_8000
    [] OTHER -> IF model = "128K" THEN paging.bank ELSE DEFAULT_BANK_AT_C000

PagingInit ==
  /\ memory = ResetPaging([model |-> "48K", paging |-> PagedAtReset, roms |-> {}, slot0 |-> nothing, bank_c000 |-> nothing,
                           screen |-> nothing, bank |-> [b \in RAM_BANKS |-> FALSE]])
  /\ screen_bank = memory.screen /\ kept = nothing

-----------------------------------------------------------------------------
(* What is kept, and put back.                                             *)

\* What a program can see of the memory.
Reached(model) == IF model = "128K" THEN RAM_BANKS ELSE {5, 2, 0} \cap RAM_BANKS
Visible(m) == [model |-> m.model, paging |-> m.paging, bank |-> [b \in Reached(m.model) |-> m.bank[b]]]

Ascending == SetToSortSeq(RAM_BANKS, <)
Others(paged) == SelectSeq(Ascending, LAMBDA b : b \notin {BANK_AT_4000, BANK_AT_8000}
                                              /\ (paged \in {BANK_AT_4000, BANK_AT_8000} \/ b # paged))

Read(m, banks) == [i \in DOMAIN banks |-> m.bank[banks[i]]]
Placed(m, banks, pages) ==
  [m EXCEPT !.bank = [b \in RAM_BANKS |->
     IF \E i \in DOMAIN banks : banks[i] = b
     THEN pages[CHOOSE i \in DOMAIN banks : banks[i] = b /\ \A j \in DOMAIN banks : banks[j] = b => j <= i]
     ELSE m.bank[b]]]

\* save_sna, save_z80 and save_state: which banks, in which order.
SnaBanks(model, paged) ==
  IF model = "128K" THEN <<BANK_AT_4000, BANK_AT_8000, paged>> \o Others(paged) ELSE RAM48_BANKS
KeptBanks(kind, model, paging) ==
  CASE kind = "sna" -> SnaBanks(model, paging.bank)
    [] OTHER -> IF model = "128K" THEN Ascending ELSE RAM48_BANKS

Keep(kind, m) ==
  [kind |-> kind, model |-> m.model, paging |-> m.paging,
   pages |-> Read(m, KeptBanks(kind, m.model, m.paging)), shown |-> m.screen, of |-> Visible(m)]

\* load_sna, load_z80: the model if it is another, the banks, the paging.
LoadedSnapshot(m, file) ==
  LET switched == IF m.model # file.model THEN SwitchModel(m, file.model) ELSE m
      placed == Placed(switched, KeptBanks(file.kind, file.model, file.paging), file.pages)
  IN IF file.model = "128K" THEN LoadPaging(placed, file.paging) ELSE placed

\* restore_state, whose slots are derived from the paging.
Restored(m, s) ==
  Remap(Placed([m EXCEPT !.model = s.model, !.paging = s.paging], KeptBanks(s.kind, s.model, s.paging), s.pages))

PutBack(m, s) == IF s.kind = "checkpoint" THEN Restored(m, s) ELSE LoadedSnapshot(m, s)

-----------------------------------------------------------------------------
(* The machine's and the engine's operations.                              *)

\* What ends the history ends its checkpoints.
RestartHistory == kept' = IF kept # nothing /\ kept.kind = "checkpoint" THEN nothing ELSE kept

Becomes(m) == memory' = m /\ screen_bank' = m.screen

\* An OUT to port 0x7FFD, and Engine::set_paging.
Out(v) == Becomes(WritePaging(memory, v)) /\ UNCHANGED kept
SetPaging(v, force) ==
  /\ memory.model = "128K" /\ (memory.paging.lock => force)
  /\ Becomes(IF force THEN LoadPaging(memory, v) ELSE WritePaging(memory, v))
  /\ UNCHANGED kept

WriteBank(b, marked) ==
  /\ memory' = [memory EXCEPT !.bank[b] = marked]
  /\ Cardinality({c \in RAM_BANKS : memory'.bank[c]}) <= MaxMarked
  /\ UNCHANGED <<screen_bank, kept>>

LoadRom(which) ==
  /\ memory' = Remap([memory EXCEPT !.roms = @ \cup {which}])
  /\ RestartHistory /\ UNCHANGED screen_bank

SetModel(model) == Becomes(SwitchModel(memory, model)) /\ RestartHistory
ResetMachine == Becomes(ResetPaging(memory)) /\ UNCHANGED kept

\* A 48K's .sna wants RAM under SP to push PC on.
SaveSnapshot(format) ==
  /\ \/ kept' = Keep(format, memory)
     \/ format = "sna" /\ memory.model = "48K" /\ UNCHANGED kept
  /\ UNCHANGED <<memory, screen_bank>>
Checkpoint == kept' = Keep("checkpoint", memory) /\ UNCHANGED <<memory, screen_bank>>

\* A load reads all of the file before the machine is touched, and ends the
\* history even when it finds the file wrong.
LoadSnapshot ==
  /\ kept # nothing /\ kept.kind # "checkpoint"
  /\ \/ Becomes(LoadedSnapshot(memory, kept))
     \/ UNCHANGED <<memory, screen_bank>>
  /\ RestartHistory
StepBack ==
  /\ kept # nothing /\ kept.kind = "checkpoint"
  /\ memory' = Restored(memory, kept) /\ screen_bank' = kept.shown /\ UNCHANGED kept

PagingNext ==
  \/ \E v \in PagingValues, force \in BOOLEAN : Out(v) \/ SetPaging(v, force)
  \/ \E b \in RAM_BANKS, marked \in BOOLEAN : WriteBank(b, marked)
  \/ \E which \in Models : LoadRom(which) \/ SetModel(which)
  \/ \E format \in {"sna", "z80"} : SaveSnapshot(format)
  \/ ResetMachine \/ Checkpoint \/ LoadSnapshot \/ StepBack

PagingSpec == PagingInit /\ [][PagingNext]_pagingVars

-----------------------------------------------------------------------------
(* Properties.                                                             *)

\* What the CPU's slots and the ULA hold is what anyone works out from the
\* model and the paging, whichever way they came to be: the bank at 0xC000 and
\* the bank shown, the ROM that 48K code runs on, and no paging on a 48K.
MapFollowsPaging ==
  /\ memory.bank_c000 = BankAt(memory.model, memory.paging, 3)
  /\ screen_bank = IF memory.paging.shadow THEN SHADOW_SCREEN_BANK ELSE SCREEN_BANK
  /\ memory.slot0 = IF memory.model = "48K"
                    THEN (IF memory.roms = {"128K"} THEN "rom128_1" ELSE "rom48")
                    ELSE IF BankAt(memory.model, memory.paging, 0) = "ROM1" THEN "rom128_1" ELSE "rom128_0"
  /\ memory.model = "48K" => memory.paging = PagedAtReset

\* A snapshot gives back all that could be seen when it was saved, on whatever
\* machine it is loaded, locked or not; and so does stepping back.
KeptComesBack == kept # nothing => Visible(PutBack(memory, kept)) = kept.of
=============================================================================
