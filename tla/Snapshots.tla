------------------------------ MODULE Snapshots ------------------------------
(***************************************************************************)
(* A 48K machine's snapshots (cpp-core/src/snapshot.cpp): what the .sna    *)
(* and the .z80 version 3 formats make of the registers and RAM, the run-  *)
(* length coding of a page, and what comes back.  (Which banks a 128K's    *)
(* snapshot has, and its paging, are Paging's.)                            *)
(*                                                                         *)
(* The machine is small: an address space of ROM and two pages of RAM,     *)
(* bytes that are 0, 1 or the marker, R of two bits with its top bit kept  *)
(* apart.  The marker is also a number a run can have.                     *)
(***************************************************************************)
EXTENDS Naturals, Sequences, SequencesExt

CONSTANTS
  PageSize,   \* BANK_SIZE
  RomSize,    \* ROM_SIZE
  MARKER,     \* 0xED
  LongRun,    \* the shortest run of another byte that is coded
  MaxRun,     \* the longest run one code has
  Machines,   \* what a program may have left in the machine
  NoFile

Bytes == {0, 1, MARKER}
RamSize == 2 * PageSize
AddressSpace == RomSize + RamSize

VARIABLES
  machine,  \* the registers, border and RAM
  file,     \* a snapshot in its format
  outcome,  \* of the last save or load
  origin    \* the machine that was saved, and the one a load found (history)

snapshotVars == <<machine, file, outcome, origin>>

SnapshotsInit ==
  /\ machine \in Machines
  /\ file = NoFile /\ outcome = "none"
  /\ origin = [saved |-> machine, found |-> machine]

-----------------------------------------------------------------------------
(* The run-length coding.                                                  *)

\* How many times the byte at i comes in a row, as far as a code can count.
RunAt(page, i) ==
  CHOOSE n \in 1..MaxRun :
    /\ i + n - 1 <= Len(page) /\ \A k \in i..(i + n - 1) : page[k] = page[i]
    /\ n = MaxRun \/ i + n > Len(page) \/ page[i + n] # page[i]

z80_compress_alone(page) ==
  LET f[i \in Nat] ==
        IF i > Len(page) THEN <<>>
        ELSE IF RunAt(page, i) >= LongRun \/ (page[i] = MARKER /\ RunAt(page, i) >= 2)
        THEN <<MARKER, MARKER, RunAt(page, i), page[i]>> \o f[i + RunAt(page, i)]
        ELSE <<page[i]>> \o f[i + 1]
  IN f[1]

\* z80_compress: a lone marker takes the byte after it along, so that the two
\* are never a code's beginning.
z80_compress(page) ==
  LET f[i \in Nat] ==
        IF i > Len(page) THEN <<>>
        ELSE IF RunAt(page, i) >= LongRun \/ (page[i] = MARKER /\ RunAt(page, i) >= 2)
        THEN <<MARKER, MARKER, RunAt(page, i), page[i]>> \o f[i + RunAt(page, i)]
        ELSE IF page[i] = MARKER /\ i < Len(page) THEN <<page[i], page[i + 1]>> \o f[i + 2]
        ELSE <<page[i]>> \o f[i + 1]
  IN f[1]

\* z80_decompress: up to a page of what the bytes stand for, zeros after it.
z80_decompress(bytes) ==
  LET f[i \in Nat] ==
        IF i > Len(bytes) THEN <<>>
        ELSE IF i + 3 <= Len(bytes) /\ bytes[i] = MARKER /\ bytes[i + 1] = MARKER
        THEN [k \in 1..bytes[i + 2] |-> bytes[i + 3]] \o f[i + 4]
        ELSE <<bytes[i]>> \o f[i + 1]
      out == f[1]
  IN [k \in 1..PageSize |-> IF k <= Len(out) THEN out[k] ELSE 0]

-----------------------------------------------------------------------------
(* Saving.                                                                 *)

\* write_sna_header: one IFF, and PC nowhere.
SnaHeader(m, sp) == [sp |-> sp, iff2 |-> m.iff2, r |-> m.r, border |-> m.border]

\* PC goes on the stack of the copy, in the two bytes below SP, both of RAM.
save_sna ==
  LET sp == (machine.sp + AddressSpace - 2) % AddressSpace
      at == sp - RomSize + 1
  IN IF sp < RomSize \/ machine.sp < RomSize + 2 \/ at + 1 > RamSize
     THEN outcome' = "refused" /\ UNCHANGED <<file, origin>>
     ELSE /\ file' = [format |-> "sna", header |-> SnaHeader(machine, sp),
                      ram |-> [machine.ram EXCEPT ![at] = machine.pc[1], ![at + 1] = machine.pc[2]]]
          /\ outcome' = "saved"
          /\ origin' = [origin EXCEPT !.saved = machine]

Page(ram, p) == SubSeq(ram, (p - 1) * PageSize + 1, p * PageSize)

\* The border shares a byte with the top bit of R.
Z80Header(m) ==
  [sp |-> m.sp, pc |-> m.pc, iff1 |-> m.iff1, iff2 |-> m.iff2,
   byte11 |-> m.r % 2, byte12 |-> m.r \div 2 + 2 * m.border]

save_z80 ==
  /\ file' = [format |-> "z80", header |-> Z80Header(machine),
              pages |-> [p \in 1..2 |-> [page |-> p, bytes |-> z80_compress(Page(machine.ram, p)), whole |-> TRUE]]]
  /\ outcome' = "saved"
  /\ origin' = [origin EXCEPT !.saved = machine]

SaveSnapshot == /\ save_sna \/ save_z80
                /\ UNCHANGED machine

-----------------------------------------------------------------------------
(* Loading, whatever the machine has come to since.                        *)

\* Every page is decoded before the machine is touched.
load_z80 ==
  IF \E k \in DOMAIN file.pages : ~file.pages[k].whole THEN outcome' = "refused" /\ UNCHANGED machine
  ELSE LET h == file.header
           has(p) == {k \in DOMAIN file.pages : file.pages[k].page = p}
           page(p) == IF has(p) = {} THEN Page(machine.ram, p)
                      ELSE z80_decompress(file.pages[CHOOSE k \in has(p) : TRUE].bytes)
       IN /\ machine' = [pc |-> h.pc, sp |-> h.sp, iff1 |-> h.iff1, iff2 |-> h.iff2,
                         r |-> h.byte11 + 2 * (h.byte12 % 2), border |-> h.byte12 \div 2,
                         ram |-> page(1) \o page(2)]
          /\ outcome' = "loaded"

load_sna ==
  LET at == file.header.sp - RomSize + 1
  IN IF file.header.sp < RomSize \/ at + 1 > RamSize
     THEN outcome' = "refused" /\ UNCHANGED machine
     ELSE /\ machine' = [pc |-> <<file.ram[at], file.ram[at + 1]>>, sp |-> (file.header.sp + 2) % AddressSpace,
                         iff1 |-> file.header.iff2, iff2 |-> file.header.iff2,
                         r |-> file.header.r, border |-> file.header.border, ram |-> file.ram]
          /\ outcome' = "loaded"

LoadSnapshot ==
  /\ outcome = "ran"
  /\ IF file.format = "sna" THEN load_sna ELSE load_z80
  /\ origin' = [origin EXCEPT !.found = machine]
  /\ UNCHANGED file

\* inspect_snapshot: the PC a load would give, of a whole file.
Inspected ==
  IF file.format = "z80" THEN file.header.pc
  ELSE <<file.ram[file.header.sp - RomSize + 1], file.ram[file.header.sp - RomSize + 2]>>

\* A program, between a save and a load; and the file may lose its end, within
\* a page or where one begins.
Run ==
  /\ outcome = "saved"
  /\ machine' \in {[machine EXCEPT !.ram = [i \in DOMAIN @ |-> 1], !.sp = RomSize, !.pc = <<0, 1>>, !.r = 3 - @]}
  /\ outcome' = "ran"
  /\ UNCHANGED <<file, origin>>

LoseEnd ==
  /\ outcome = "ran" /\ file.format = "z80" /\ Len(file.pages) = 2
  /\ \/ file' = [file EXCEPT !.pages[2].whole = FALSE]
     \/ file' = [file EXCEPT !.pages = <<@[1]>>]
  /\ UNCHANGED <<machine, outcome, origin>>

SnapshotsNext ==
  \/ outcome = "none" /\ SaveSnapshot
  \/ Run \/ LoseEnd \/ LoadSnapshot

SnapshotsSpec == SnapshotsInit /\ [][SnapshotsNext]_snapshotVars

-----------------------------------------------------------------------------
(* Properties.                                                             *)

\* A snapshot brings back the machine it was made of: a .z80 all of it; a .sna
\* all but the two bytes of stack its PC took and an IFF1 that was not IFF2,
\* as inside an NMI.  Its PC is the one inspect said, and one that is refused
\* has touched nothing.  A .sna is refused only where SP has no RAM below.
SnapshotIsMachine ==
  /\ outcome = "refused" =>
       IF file = NoFile THEN machine.sp \in 0..(RomSize + 1) ELSE machine = origin.found
  /\ outcome = "loaded" /\ file.format = "z80" =>
       /\ [machine EXCEPT !.ram = <<>>] = [origin.saved EXCEPT !.ram = <<>>]
       /\ \A k \in DOMAIN file.pages :
            Page(machine.ram, file.pages[k].page) = Page(origin.saved.ram, file.pages[k].page)
  /\ outcome = "loaded" /\ file.format = "sna" =>
       /\ [machine EXCEPT !.ram = <<>>] = [origin.saved EXCEPT !.ram = <<>>, !.iff1 = machine.iff2]
       /\ \A i \in DOMAIN machine.ram :
            i - 1 + RomSize \notin {machine.sp - 2, machine.sp - 1} => machine.ram[i] = origin.saved.ram[i]
  /\ outcome = "loaded" => Inspected = machine.pc

=============================================================================
