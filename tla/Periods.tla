------------------------------- MODULE Periods ------------------------------
(***************************************************************************)
(* The profile's periods: a frame each, or from one arrival at a marker    *)
(* address to the next (cpp-core/src/profile.h, profile.cpp).              *)
(***************************************************************************)
EXTENDS Integers, Sequences, SequencesExt, FiniteSets, FiniteSetsExt

CONSTANTS
  WORST_PERIODS,
  Marker,         \* the address that can be one: 0 stands for every other
  MaxInstructions, MaxPeriods   \* bounds

VARIABLES
  periods,  \* what the profile keeps of the periods
  told      \* what it was told of since it was last started afresh: history

periodsVars == <<periods, told>>

FRAME_PERIODS == -1  \* no marker

NoCost == [busy |-> 0, idle |-> 0, addresses |-> {}]
Reset(marker) == [marker |-> marker, open |-> FALSE, partial |-> TRUE, frame |-> 0, cost |-> NoCost,
                  kept |-> <<>>, worst |-> <<>>]

PeriodsInit == periods = Reset(FRAME_PERIODS) /\ told = <<>>

-----------------------------------------------------------------------------
(* record.                                                                 *)

\* close_period: the one counting began in is dropped; another takes the place
\* of the first of the least busy of the worst when it is busier.
ClosePeriod(p) ==
  IF p.partial THEN [p EXCEPT !.partial = FALSE]
  ELSE LET w == [index |-> Len(p.kept), cost |-> p.cost]
           full == Len(p.worst) >= WORST_PERIODS
           least == Min({i \in DOMAIN p.worst : \A j \in DOMAIN p.worst :
                           p.worst[i].cost.busy <= p.worst[j].cost.busy})
           worst == IF ~full THEN Append(p.worst, w)
                    ELSE IF p.cost.busy <= p.worst[least].cost.busy THEN p.worst
                    ELSE [p.worst EXCEPT ![least] = w]
       IN [p EXCEPT !.kept = Append(@, p.cost), !.worst = worst]

OpenPeriod(p, frame) == [p EXCEPT !.open = TRUE, !.frame = frame, !.cost = NoCost]

\* Whether an instruction begins a period: in another frame than it began in,
\* or at the marker, where a HALT going round has not arrived again.
Begins(p, i) == IF p.marker = FRAME_PERIODS THEN i.frame # p.frame
                ELSE i.pc = p.marker /\ ~i.halted

\* record, whose idle time is a halted CPU's or an idle address's.
Record(i) ==
  LET opened == IF ~periods.open THEN OpenPeriod(periods, i.frame)
                ELSE IF Begins(periods, i) THEN OpenPeriod(ClosePeriod(periods), i.frame)
                ELSE periods
  IN /\ periods' = [opened EXCEPT !.cost.busy = IF i.halted THEN @ ELSE @ + 1,
                                  !.cost.idle = IF i.halted THEN @ + 1 ELSE @,
                                  !.cost.addresses = @ \cup {i.pc}]
     /\ told' = Append(told, i)

Frame == IF told = <<>> THEN 0 ELSE Last(told).frame

RecordAny ==
  /\ Len(told) < MaxInstructions
  /\ \E pc \in {0, Marker}, halted \in BOOLEAN, frame \in {Frame, Frame + 1} :
       frame <= MaxPeriods /\ Record([pc |-> pc, halted |-> halted, frame |-> frame])

\* clear, which keeps the marker, and a marker that is another.
Clear == periods' = Reset(periods.marker) /\ told' = <<>>
SetPeriodMarker ==
  \E marker \in {FRAME_PERIODS, Marker} :
     marker # periods.marker /\ periods' = Reset(marker) /\ told' = <<>>

PeriodsNext == RecordAny \/ Clear \/ SetPeriodMarker

-----------------------------------------------------------------------------
(* Properties.                                                             *)

\* Where the periods began, of what it was told: wherever the program arrived
\* at the marker, or at the first instruction of a frame.
Starts ==
  {k \in 2..Len(told) :
     IF periods.marker = FRAME_PERIODS THEN told[k].frame # told[k - 1].frame
     ELSE told[k].pc = Marker /\ ~told[k].halted}
Whole == SetToSeq({<<a, b>> \in Starts \X Starts : a < b /\ \A c \in Starts : ~(a < c /\ c < b)})
InOrder == SortSeq(Whole, LAMBDA x, y : x[1] < y[1])
Spent(span) ==
  LET of == span[1]..(span[2] - 1)
  IN [busy |-> Cardinality({k \in of : ~told[k].halted}), idle |-> Cardinality({k \in of : told[k].halted}),
      addresses |-> {told[k].pc : k \in of}]

\* Every whole period is kept, the one counting began in is not, and the ones
\* kept in detail are as many of the busiest as there is room for, each with
\* its own cost: none of another period's time.
WorstAreBusiest ==
  LET spent == [i \in DOMAIN InOrder |-> Spent(InOrder[i])]
      worst == periods.worst
      ranked == {worst[i].index + 1 : i \in DOMAIN worst}
  IN /\ periods.kept = spent
     /\ Cardinality(ranked) = Len(worst)
     /\ Len(worst) = Min({WORST_PERIODS, Len(spent)})
     /\ \A i \in DOMAIN worst : worst[i].cost = spent[worst[i].index + 1]
     /\ \A k \in DOMAIN spent \ ranked, j \in ranked : spent[k].busy <= spent[j].busy
=============================================================================
