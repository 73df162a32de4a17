------------------------------- MODULE Symbols -------------------------------
(***************************************************************************)
(* Source lines and symbols (cpp-core/src/rom_source.cpp): what parse_sld  *)
(* makes of a listing, the lookups both servers do in it, and which        *)
(* sources answer: the program's, and the ROM's, cached by its files'      *)
(* times.                                                                  *)
(*                                                                         *)
(* A listing is a sequence of records.  Names and files are members of     *)
(* small sets; what of their spelling matters is in the constants.         *)
(***************************************************************************)
EXTENDS Integers, Sequences, SequencesExt, FiniteSetsExt

CONSTANTS
  Listings,     \* the programs' listings
  Roms,         \* the ROM's
  Rank,         \* each name's place in the alphabet
  Folded,       \* each name with its case put aside
  Locals,       \* each name's own locals, NAME.x
  Prefixed,     \* each prefix's names, whatever their case
  Base,         \* each file's name without its directory
  Entry,        \* the entry source, files[0]
  Addrs,        \* bound: addresses are 0..Addrs-1 ...
  Paged,        \* ... and from here on paged (0xC000)
  MaxNudge,     \* MAX_BREAKPOINT_NUDGE
  MaxOffset,    \* SYMBOL_MAX_OFFSET
  MaxTime       \* bound: seconds, as the files' times tell them

VARIABLES
  debug_info,   \* the program's source, and the listing it is of (history)
  cached,       \* the ROM's source, of which listing, and the time it was cached by
  disk,         \* the ROM's listing as it is now, its time, the time a reader has seen, and whether
                \* it was built twice in that second (history)
  time

symbolVars == <<debug_info, cached, disk, time>>

ANY_BANK == -1
Null == [null |-> TRUE]
NoFn == [x \in {} |-> 0]

-----------------------------------------------------------------------------
(* parse_sld.                                                              *)

Place(x) == [file |-> x.file, line |-> x.line]

\* emplace: the first one stays.
Emplace(f, k, v) == [x \in DOMAIN f \cup {k} |-> IF x \in DOMAIN f THEN f[x] ELSE v]
Put(f, k, v) == [x \in DOMAIN f \cup {k} |-> IF x = k THEN v ELSE f[x]]

Nothing == [files |-> <<Entry>>, line_to_addr |-> NoFn, line_to_bank |-> NoFn, addr_to_loc |-> NoFn,
            symbols |-> NoFn, equates |-> {}, banked |-> FALSE, banked_loc |-> NoFn,
            symbol_banks |-> NoFn, paged |-> <<>>]

file_index(files, f) == IF \E i \in DOMAIN files : files[i] = f THEN files ELSE Append(files, f)

\* An instruction's line, and its address.
Line(out, x) ==
  [out EXCEPT !.files = file_index(@, x.file),
              !.line_to_addr = Emplace(@, <<x.file, x.line>>, x.addr),
              !.addr_to_loc = Emplace(@, x.addr, Place(x)),
              !.paged = Append(@, x)]

\* A label, or an EQU's constant.
Label(out, x) ==
  [out EXCEPT !.symbols = Put(@, x.name, x.addr),
              !.equates = @ \ {x.name},
              !.paged = Append(@, x)]
Equate(out, x) ==
  [out EXCEPT !.symbols = Put(@, x.name, x.addr), !.equates = @ \cup {x.name}]

Record(out, x) ==
  CASE x.type = "Z" -> [out EXCEPT !.banked = x.eight_banks]
    [] x.type = "T" -> Line(out, x)
    [] x.type = "F" -> Label(out, x)
    [] x.type = "D" -> Equate(out, x)

\* Banks are sorted out last: the record that says pages are banks may come late.
Banked(out, x) ==
  IF x.addr < Paged \/ x.page = ANY_BANK THEN out
  ELSE IF x.type = "F"
  THEN IF x.name \in out.equates THEN out ELSE [out EXCEPT !.symbol_banks = Put(@, x.name, x.page)]
  ELSE [out EXCEPT !.banked_loc = Emplace(@, <<x.page, x.addr>>, Place(x)),
                   !.line_to_bank = Emplace(@, <<x.file, x.line>>, x.page)]

parse_sld(listing) ==
  LET out == FoldLeft(Record, Nothing, listing)
  IN IF out.banked THEN FoldLeft(Banked, out, out.paged) ELSE out

-----------------------------------------------------------------------------
(* One source's lookups.                                                   *)

symbol_bank(source, name) ==
  IF name \in DOMAIN source.symbol_banks THEN source.symbol_banks[name] ELSE ANY_BANK

\* index: by address, and by name where labels share one.
Before(source, m, n) ==
  \/ source.symbols[m] < source.symbols[n]
  \/ source.symbols[m] = source.symbols[n] /\ Rank[m] < Rank[n]
Latest(source, S) == CHOOSE n \in S : \A m \in S \ {n} : Before(source, m, n)
First(source, S) == CHOOSE n \in S : \A m \in S \ {n} : Before(source, n, m)
UpTo(source, addr) == {n \in DOMAIN source.symbols : source.symbols[n] <= addr}
Past(source, addr) == {n \in DOMAIN source.symbols : source.symbols[n] > addr}

At(f, k) == IF k \in DOMAIN f THEN f[k] ELSE Null
loc_at(source, addr, paged) ==
  IF source.banked /\ addr >= Paged /\ paged # ANY_BANK
  THEN At(source.banked_loc, <<paged, addr>>) ELSE At(source.addr_to_loc, addr)

file_for_path(source, path) ==
  LET S == {i \in DOMAIN source.files : source.files[i] = path \/ Base[source.files[i]] = Base[path]}
  IN IF S = {} THEN 0 ELSE Min(S)

addr_for_line(source, file, line) ==
  LET near == {l \in line..(line + MaxNudge) : <<file, l>> \in DOMAIN source.line_to_addr}
  IN IF near = {} THEN Null
     ELSE [addr |-> source.line_to_addr[<<file, Min(near)>>], line |-> Min(near),
           bank |-> IF <<file, Min(near)>> \in DOMAIN source.line_to_bank
                    THEN source.line_to_bank[<<file, Min(near)>>] ELSE ANY_BANK]

symbol_at(source, addr, max_offset, paged) ==
  LET elsewhere(n) == paged # ANY_BANK /\ addr >= Paged /\ symbol_bank(source, n) \notin {ANY_BANK, paged}
      S == {n \in UpTo(source, addr) : ~elsewhere(n)}
      n == Latest(source, S)
  IN IF S = {} THEN Null
     ELSE IF addr - source.symbols[n] > max_offset THEN Null
     ELSE [name |-> n, offset |-> addr - source.symbols[n]]

InCode(source, n) == source.symbols[n] \in DOMAIN source.addr_to_loc /\ n \notin source.equates

code_label_at_any(source, addr) ==
  LET S == UpTo(source, addr)
  IN IF S = {} THEN Null ELSE [name |-> Latest(source, S), offset |-> addr - source.symbols[Latest(source, S)]]

code_label_at(source, addr) ==
  LET S == {n \in UpTo(source, addr) : InCode(source, n)}
  IN IF S = {} THEN Null ELSE [name |-> Latest(source, S), offset |-> addr - source.symbols[Latest(source, S)]]

routine_range(source, name) ==
  IF name \notin DOMAIN source.symbols THEN Null
  ELSE IF ~InCode(source, name) THEN Null
  ELSE LET first == source.symbols[name]
           next == {n \in Past(source, first) : InCode(source, n) /\ n \notin Locals[name]}
       IN [first |-> first,
           last |-> IF next # {} THEN source.symbols[First(source, next)] - 1
                    ELSE Max({first} \cup DOMAIN source.addr_to_loc)]

-----------------------------------------------------------------------------
(* The sources together: the program's first.                              *)

active == (IF debug_info.source = Null THEN <<>> ELSE <<debug_info.source>>)
          \o (IF cached.source = Null THEN <<>> ELSE <<cached.source>>)

\* The first source that answers.
FirstOf(Answer(_)) ==
  LET S == {i \in DOMAIN active : Answer(active[i]) # Null}
  IN IF S = {} THEN Null ELSE Answer(active[Min(S)])

resolve_symbol(addr, paged) == FirstOf(LAMBDA s : symbol_at(s, addr, MaxOffset, paged))
label_at(addr, paged) == FirstOf(LAMBDA s : symbol_at(s, addr, 0, paged))

\* Every source is asked for the name itself before any for its other cases.
Named(source, name) == IF name \in DOMAIN source.symbols THEN [addr |-> source.symbols[name]] ELSE Null
NamedAnyhow(source, name) ==
  LET S == {n \in DOMAIN source.symbols : Folded[n] = Folded[name]}
  IN IF S = {} THEN Null ELSE [addr |-> source.symbols[CHOOSE n \in S : \A m \in S : Rank[n] <= Rank[m]]]
symbol_value(name) ==
  LET exact == FirstOf(LAMBDA s : Named(s, name))
  IN IF exact # Null THEN exact ELSE FirstOf(LAMBDA s : NamedAnyhow(s, name))

\* parse_address, of a symbol and what is added to it.
parse_address(name, offset) == (symbol_value(name).addr + offset + Addrs) % Addrs

\* Sources::symbol_bank: of the name symbol_value means.
bank_of(name) ==
  LET Exact(s) == IF name \in DOMAIN s.symbols THEN [bank |-> symbol_bank(s, name)] ELSE Null
      Anyhow(s) == LET S == {n \in DOMAIN s.symbols : Folded[n] = Folded[name]}
                   IN IF S = {} THEN Null
                      ELSE [bank |-> symbol_bank(s, CHOOSE n \in S : \A m \in S : Rank[n] <= Rank[m])]
      found == IF FirstOf(Exact) # Null THEN FirstOf(Exact) ELSE FirstOf(Anyhow)
  IN IF found = Null THEN ANY_BANK ELSE found.bank

\* match_symbols: of each source in the order of its names, one that no name
\* offered already is but for its case.
Offered(prefix) ==
  LET names(s) == SetToSortSeq(DOMAIN s.symbols \cap Prefixed[prefix], LAMBDA m, n : Rank[m] < Rank[n])
      offer(list, x) == IF \E i \in DOMAIN list : Folded[list[i].name] = Folded[x.name] THEN list ELSE Append(list, x)
      all == FoldLeft(LAMBDA l, s : l \o [i \in DOMAIN names(s) |-> [name |-> names(s)[i], addr |-> s.symbols[names(s)[i]]]],
                      <<>>, active)
  IN FoldLeft(offer, <<>>, all)
match_symbols(prefix, limit) ==
  LET all == Offered(prefix)
  IN [matches |-> SubSeq(all, 1, Min({limit, Len(all)})), more |-> limit > 0 /\ Len(all) > limit]

-----------------------------------------------------------------------------
(* What happens to them.                                                   *)

NoProgram == [source |-> Null, listing |-> <<>>]
SymbolsInit ==
  /\ debug_info = NoProgram
  /\ cached = [source |-> Null, listing |-> <<>>, time |-> 0]
  /\ \E r \in Roms : disk = [listing |-> r, time |-> 1, twice |-> FALSE, seen |-> 0]
  /\ time = 1

load_debug_info(listing) ==
  /\ debug_info' = [source |-> parse_sld(listing), listing |-> listing]
  /\ UNCHANGED <<cached, disk, time>>

clear_debug_info ==
  /\ debug_info.source # Null
  /\ debug_info' = NoProgram
  /\ UNCHANGED <<cached, disk, time>>

\* get_rom_source looks at the files' time, and reads them after; they may be
\* built anew in between, and the clock they are told by counts whole seconds.
LookAtRom ==
  /\ disk.seen = 0 /\ ~(cached.source # Null /\ cached.time = disk.time)
  /\ disk' = [disk EXCEPT !.seen = disk.time]
  /\ UNCHANGED <<debug_info, cached, time>>
ReadRom ==
  /\ disk.seen # 0
  /\ cached' = [source |-> parse_sld(disk.listing), listing |-> disk.listing, time |-> disk.seen]
  /\ disk' = [disk EXCEPT !.seen = 0]
  /\ UNCHANGED <<debug_info, time>>

BuildRom(listing) ==
  /\ debug_info.source = Null
  /\ disk' = [disk EXCEPT !.listing = listing, !.time = time, !.twice = disk.time = time]
  /\ UNCHANGED <<debug_info, cached, time>>
Tick ==
  /\ debug_info.source = Null /\ time < MaxTime
  /\ time' = time + 1
  /\ UNCHANGED <<debug_info, cached, disk>>

\* Programs come and go once the ROM's listing has been read, and it stays.
SymbolsNext ==
  \/ /\ debug_info.source = Null /\ cached.source # Null /\ disk.seen = 0 /\ time = 1
     /\ cached.listing = disk.listing /\ ~disk.twice
     /\ \E l \in Listings : load_debug_info(l)
  \/ clear_debug_info
  \/ LookAtRom \/ ReadRom \/ Tick
  \/ \E r \in Roms : BuildRom(r)

SymbolsSpec == SymbolsInit /\ [][SymbolsNext]_symbolVars

-----------------------------------------------------------------------------
(* Properties.                                                             *)

Lines(listing) == {listing[i] : i \in {j \in DOMAIN listing : listing[j].type = "T"}}

\* As an assembler lists a program: a line for an address, of each bank where
\* they are banked, and an address for a line.
WellListed(source, listing) ==
  \A x, y \in Lines(listing) :
    \/ x = y
    \/ /\ <<x.file, x.line>> # <<y.file, y.line>>
       /\ x.addr # y.addr \/ (source.banked /\ x.addr >= Paged /\ x.page # y.page)

\* A file that one listed before it shares its base name with: a path, the
\* file's own too, names that one.
Eclipsed(source, f) ==
  \E i, j \in DOMAIN source.files : i < j /\ source.files[j] = f /\ Base[source.files[i]] = Base[f]

\* A breakpoint put on a line is hit where that line is shown, in its bank; and
\* what is shown for the code paged in is a line of that bank.
LinesComeBack(source, listing) ==
  /\ \A x \in {y \in Lines(listing) : ~Eclipsed(source, y.file)} :
       LET file == source.files[file_for_path(source, x.file)]
           b == addr_for_line(source, file, x.line)
       IN b.line = x.line /\ b.addr = x.addr /\ loc_at(source, b.addr, b.bank) = Place(x)
  /\ source.banked =>
       \A x \in Lines(listing) : x.addr >= Paged =>
         loc_at(source, x.addr, x.page) = Place(x)

\* A profile's name for an address is a routine whose range has it; and an
\* address in a routine's range is named by it, by one of its locals, or by
\* another label of the same place.
RoutinesAgree(source) ==
  \A a \in DOMAIN source.addr_to_loc :
    LET l == code_label_at(source, a) IN
    /\ l # Null => LET r == routine_range(source, l.name) IN r # Null /\ a \in r.first..r.last
    /\ \A n \in DOMAIN source.symbols :
         LET r == routine_range(source, n) IN
         r # Null /\ a \in r.first..r.last =>
           l.name = n \/ l.name \in Locals[n] \/ source.symbols[l.name] = source.symbols[n]

\* What is printed of an address, or beside it, of the bank paged in or of any,
\* is read back as that address and in that bank, unless the program has a
\* label of that name and the ROM's was printed.
ReadBack(p, a, paged, max_offset) ==
  \/ p = Null
  \/ /\ parse_address(p.name, p.offset) = a
     /\ paged # ANY_BANK /\ a >= Paged => bank_of(p.name) \in {ANY_BANK, paged}
  \/ debug_info.source # Null /\ p.name \in DOMAIN debug_info.source.symbols
     /\ symbol_at(debug_info.source, a, max_offset, paged) = Null
PrintedIsRead ==
  \A a \in 0..(Addrs - 1), paged \in {ANY_BANK, 0, 1} :
    /\ ReadBack(resolve_symbol(a, paged), a, paged, MaxOffset)
    /\ LET l == label_at(a, paged)
       IN l # Null => l.offset = 0 /\ ReadBack([name |-> l.name, offset |-> 0], a, paged, 0)

\* What a completion says is all there is, is.
Whole(prefix, limit) ==
  LET m == match_symbols(prefix, limit) IN
  ~m.more => \A i \in DOMAIN active : \A x \in DOMAIN active[i].symbols \cap Prefixed[prefix] :
               \E k \in DOMAIN m.matches : Folded[m.matches[k].name] = Folded[x]

\* Every name a completion offers means the address it is offered with, and
\* what one of a name or more does not say is short of the names is not.
OfferedIsMeant ==
  \A p \in DOMAIN Prefixed : \A n \in 0..2 :
    LET m == match_symbols(p, n) IN
    /\ \A i \in DOMAIN m.matches : symbol_value(m.matches[i].name) = [addr |-> m.matches[i].addr]
    /\ n > 0 => Whole(p, n)

\* Of any limit, `more` is true "when there were others past that" (rom_source.h):
\* not of a limit of 0, which returns before it looks.
OfferedIsWhole == \A p \in DOMAIN Prefixed : \A n \in 0..2 : Whole(p, n)

\* The lookups agree: lines and addresses, labels and routines, what is printed
\* and what is read, what is offered and what is meant.  And the ROM's source
\* is the one its files' time says, but where they are built twice in a second.
LookupsAgree ==
  /\ \A d \in {debug_info, cached} :
       d.source # Null =>
         /\ WellListed(d.source, d.listing) => LinesComeBack(d.source, d.listing)
         /\ RoutinesAgree(d.source)
  /\ PrintedIsRead /\ OfferedIsMeant
  /\ cached.source # Null /\ cached.time = disk.time /\ ~disk.twice => cached.listing = disk.listing
=============================================================================
