------------------------------ MODULE Z80Proofs ------------------------------
(***************************************************************************)
(* TLAPS proves of module Z80Control, for any number of prefixes: every    *)
(* instruction takes the time published for it, interrupts go back to      *)
(* where the program was, and the bus has one cycle at a time.             *)
(*                                                                         *)
(* First the table alone: each machine cycle, followed half-clock by       *)
(* half-clock, goes from the lines it begins with to the end it is to      *)
(* have (Table).  Then what each operation makes of the CPU's fields.      *)
(* Then what is told of the words seen so far, and what they cost, in each *)
(* cycle; and at last the invariant, that the CPU is where the table says, *)
(* kept by every half-clock.                                               *)
(***************************************************************************)
EXTENDS Z80Control, Integers, SequenceTheorems, TLAPS

-----------------------------------------------------------------------------
(* The table of half-clocks, followed.                                     *)

\* The lines, and what half-clocks do: those that let RFSH go, latch a byte, go on
\* in their cycle or end it.
Lines == {"M1", "MREQ", "RD", "WR", "IORQ", "RFSH"}
Releasing == {"plain", "ed", "cb", "ddfd", "refreshed", "acknowledged"}
Latching == {"latch", "suffix", "acknowledged"}
Ongoing == {"next", "refreshed", "latch", "index", "suffix", "accept", "acknowledged", "push_high", "jump"}
Ending == {"plain", "ed", "cb", "ddfd", "run", "store", "act", "push", "vector", "fetch", "ei", "di",
           "retn", "im", "halt", "prefix"}
Dos == Ongoing \cup Ending
Halves == [drop : SUBSET Lines, addr : {"same", "pc", "sp", "ea", "wz", "ir"},
           raise : SUBSET Lines, wait : BOOLEAN, do : Dos]

\* Where a cycle is: the lines that are up once RFSH is let go, half-clocks,
\* refreshes and bytes latched since it began, and what it did last if it is over.
Tracks == [lines : SUBSET Lines, t : Nat, r : Nat, b : Nat, on : {"on"} \cup Ending]
Track(L, t, r, b, on) == [lines |-> L, t |-> t, r |-> r, b |-> b, on |-> on]

\* No two devices on the bus.
Free(L) ==
  /\ ~({"MREQ", "IORQ"} \subseteq L) /\ ~({"RD", "WR"} \subseteq L)
  /\ ~({"M1", "RFSH"} \subseteq L)
  /\ ("RD" \in L \/ "WR" \in L) => "MREQ" \in L

\* What a half-clock makes of the lines, and where it leaves the cycle.
Driven(L, h) == (L \ h.drop) \cup h.raise
Byte(do) == IF do \in Latching THEN 1 ELSE 0
On(do) == IF do \in Ongoing THEN "on" ELSE do
Left(P, h) ==
  Track(Driven(P.lines, h) \ (IF h.do \in Releasing THEN {"RFSH"} ELSE {}), P.t + 1,
        P.r + (IF h.addr = "ir" THEN 1 ELSE 0), P.b + Byte(h.do), On(h.do))

\* What each kind of cycle may do: only an interrupt's touch PC by hand, and
\* they never use it for a byte of the program.
Kinds == {"fetch", "program", "suffix", "acknowledge", "interrupt"}
Does(k, do) ==
  /\ do \in {"push_high", "jump"} => k = "interrupt"
  /\ do \in {"accept", "acknowledged"} => k = "acknowledge"
  /\ do = "latch" => k = "fetch"
  /\ do = "suffix" => k = "suffix"

Acknowledged == Track({}, 11, 1, 1, "on")

Tidy(k, P, h) ==
  /\ P.on = "on" /\ Free(P.lines) /\ Free(Driven(P.lines, h))
  /\ h.addr # "same" => Driven(P.lines, h) \cap P.lines \cap Strobes = {}
  /\ h.addr = "pc" => k \in {"program", "suffix"}
  /\ h.do \in Latching => P.b = 0
  /\ Does(k, h.do)
  /\ h.do = "acknowledged" => Left(P, h) = Acknowledged

\* A run of half-clocks that takes a cycle from one place to another, through ps.
Through(k, s, ps, from, to) ==
  /\ s \in Seq(Halves) /\ ps \in Seq(Tracks)
  /\ Len(s) # 0 /\ Len(ps) = Len(s) /\ ps[1] = from
  /\ \A i \in 1..Len(s) : /\ Tidy(k, ps[i], s[i])
                          /\ Left(ps[i], s[i]) = IF i = Len(s) THEN to ELSE ps[i + 1]
Leads(k, s, from, to) == \E ps : Through(k, s, ps, from, to)

\* Two runs, one after the other.
LEMMA Joined ==
  ASSUME NEW k, NEW s, NEW t, NEW a, NEW b, NEW c, Leads(k, s, a, b), Leads(k, t, b, c)
  PROVE  Leads(k, s \o t, a, c)
<1>1. PICK ps : Through(k, s, ps, a, b)
  BY DEF Leads
<1>2. PICK qs : Through(k, t, qs, b, c)
  BY DEF Leads
<1> DEFINE u == s \o t
           rs == ps \o qs
<1>3. /\ s \in Seq(Halves) /\ t \in Seq(Halves) /\ ps \in Seq(Tracks) /\ qs \in Seq(Tracks)
      /\ Len(s) \in Nat \ {0} /\ Len(t) \in Nat \ {0} /\ Len(ps) = Len(s) /\ Len(qs) = Len(t)
      /\ ps[1] = a /\ qs[1] = b
  BY <1>1, <1>2 DEF Through
<1>4. /\ u \in Seq(Halves) /\ Len(u) = Len(s) + Len(t)
      /\ rs \in Seq(Tracks) /\ Len(rs) = Len(u)
  BY <1>3
<1>5. /\ \A i \in 1..Len(s) : u[i] = s[i] /\ rs[i] = ps[i]
      /\ \A i \in 1..Len(t) : u[Len(s) + i] = t[i] /\ rs[Len(s) + i] = qs[i]
  BY <1>3
<1> HIDE DEF u, rs
<1>6. ASSUME NEW i \in 1..Len(u)
      PROVE  Tidy(k, rs[i], u[i]) /\ Left(rs[i], u[i]) = IF i = Len(u) THEN c ELSE rs[i + 1]
  <2>1. CASE i < Len(s)
    <3>1. i \in 1..Len(s) /\ i + 1 \in 1..Len(s) /\ i # Len(s) /\ i # Len(u)
      BY <1>3, <1>4, <2>1
    <3> QED BY <1>1, <1>5, <3>1 DEF Through
  <2>2. CASE i = Len(s)
    <3>1. i \in 1..Len(s) /\ i # Len(u) /\ 1 \in 1..Len(t) /\ i + 1 = Len(s) + 1
      BY <1>3, <1>4, <2>2
    <3> QED BY <1>1, <1>3, <1>5, <2>2, <3>1 DEF Through
  <2>3. ASSUME NEW j \in 1..Len(t), i = Len(s) + j
        PROVE  Tidy(k, rs[i], u[i]) /\ Left(rs[i], u[i]) = IF i = Len(u) THEN c ELSE rs[i + 1]
    <3>1. CASE j = Len(t)
      <4>1. i = Len(u)
        BY <1>4, <2>3, <3>1
      <4> QED BY <1>2, <1>5, <2>3, <3>1, <4>1 DEF Through
    <3>2. CASE j # Len(t)
      <4>1. j + 1 \in 1..Len(t) /\ i # Len(u) /\ i + 1 = Len(s) + (j + 1)
        BY <1>3, <1>4, <2>3, <3>2
      <4> QED BY <1>2, <1>5, <2>3, <3>2, <4>1 DEF Through
    <3> QED BY <3>1, <3>2
  <2>4. CASE i > Len(s)
    <3>1. i - Len(s) \in 1..Len(t) /\ i = Len(s) + (i - Len(s))
      BY <1>3, <1>4, <2>4
    <3> QED BY <2>3, <3>1
  <2> QED BY <1>3, <1>4, <2>1, <2>2, <2>4
<1>7. rs[1] = a
  <2>1. 1 \in 1..Len(s)
    BY <1>3
  <2> QED BY <1>3, <1>5, <2>1
<1>8. Through(k, u, rs, a, c)
  BY <1>3, <1>4, <1>6, <1>7 DEF Through
<1> QED BY <1>8 DEF Leads, u

\* One half-clock.
LEMMA Single ==
  ASSUME NEW k, NEW P \in Tracks, NEW h \in Halves, Tidy(k, P, h)
  PROVE  Leads(k, <<h>>, P, Left(P, h))
<1>1. Through(k, <<h>>, <<P>>, P, Left(P, h))
  BY DEF Through
<1> QED BY <1>1 DEF Leads

\* Two half-clocks.
LEMMA Two ==
  ASSUME NEW k, NEW a, NEW b, NEW P, NEW Q, NEW R, Leads(k, <<a>>, P, Q), Leads(k, <<b>>, Q, R)
  PROVE  Leads(k, <<a, b>>, P, R)
<1>1. <<a>> \in Seq({a, b}) /\ <<b>> \in Seq({a, b}) /\ <<a, b>> \in Seq({a, b})
  OBVIOUS
<1>2. <<a>> \o <<b>> \in Seq({a, b}) /\ Len(<<a>> \o <<b>>) = 2 /\ Len(<<a, b>>) = 2
  BY <1>1
<1>3. \A i \in 1..2 : <<a, b>>[i] = (<<a>> \o <<b>>)[i]
  BY <1>1
<1>4. <<a, b>> = <<a>> \o <<b>>
  BY <1>1, <1>2, <1>3, SeqEqual
<1> QED BY <1>4, Joined

\* Three of them.
LEMMA Three ==
  ASSUME NEW k, NEW a, NEW b, NEW c, NEW P, NEW Q, NEW R, Leads(k, <<a>>, P, Q), Leads(k, <<b, c>>, Q, R)
  PROVE  Leads(k, <<a, b, c>>, P, R)
<1>1. <<a, b, c>> = <<a>> \o <<b, c>>
  OBVIOUS
<1> QED BY <1>1, Joined

\* And four.
LEMMA Four ==
  ASSUME NEW k, NEW a, NEW b, NEW c, NEW d, NEW P, NEW Q, NEW R,
         Leads(k, <<a, b>>, P, Q), Leads(k, <<c, d>>, Q, R)
  PROVE  Leads(k, <<a, b, c, d>>, P, R)
<1>1. <<a, b, c, d>> = <<a, b>> \o <<c, d>>
  OBVIOUS
<1> QED BY <1>1, Joined

\* Where each kind of half-clock leads.
LEMMA Ones ==
  ASSUME NEW k \in Kinds, NEW L \in SUBSET Lines, NEW t \in Nat, NEW r \in Nat, NEW b \in Nat, Free(L)
  PROVE  /\ Leads(k, <<Half>>, Track(L, t, r, b, "on"), Track(L, t + 1, r, b, "on"))
         /\ Leads(k, <<Waits>>, Track(L, t, r, b, "on"), Track(L, t + 1, r, b, "on"))
         /\ \A M \in SUBSET Lines : Free(L \cup M) =>
              Leads(k, <<Raise(M)>>, Track(L, t, r, b, "on"), Track(L \cup M, t + 1, r, b, "on"))
<1> DEFINE P == Track(L, t, r, b, "on")
<1>1. P \in Tracks /\ P.lines = L /\ P.t = t /\ P.r = r /\ P.b = b /\ P.on = "on"
  BY DEF Track, Tracks
<1>2. /\ "next" \in Dos /\ {} \in SUBSET Lines
      /\ "next" \notin Releasing /\ On("next") = "on" /\ Byte("next") = 0 /\ Does(k, "next") /\ "next" \notin Latching
  BY DEF Dos, Releasing, On, Byte, Does, Ongoing, Latching
<1> HIDE DEF P
<1>3. ASSUME NEW h \in {Half, Waits}
      PROVE  Leads(k, <<h>>, P, Track(L, t + 1, r, b, "on"))
  <2>1. h \in Halves /\ h.drop = {} /\ h.addr = "same" /\ h.raise = {} /\ h.do = "next"
    <3>1. CASE h = Half
      BY <1>2, <3>1 DEF Half, Halves
    <3>2. CASE h = Waits
      BY <1>2, <3>2 DEF Half, Waits, Halves
    <3> QED BY <3>1, <3>2
  <2>2. Driven(L, h) = L
    BY <2>1 DEF Driven
  <2>3. Left(P, h) = Track(L, t + 1, r, b, "on")
    BY <1>1, <1>2, <2>1, <2>2 DEF Left
  <2>4. Tidy(k, P, h)
    BY <1>1, <1>2, <2>1, <2>2 DEF Tidy
  <2> QED BY <1>1, <2>1, <2>3, <2>4, Single
<1>4. ASSUME NEW M \in SUBSET Lines, Free(L \cup M)
      PROVE  Leads(k, <<Raise(M)>>, P, Track(L \cup M, t + 1, r, b, "on"))
  <2> DEFINE h == Raise(M)
  <2>1. h \in Halves /\ h.drop = {} /\ h.addr = "same" /\ h.raise = M /\ h.do = "next"
    BY <1>2 DEF Half, Raise, Halves
  <2> HIDE DEF h
  <2>2. Driven(L, h) = L \cup M
    BY <2>1 DEF Driven
  <2>3. Left(P, h) = Track(L \cup M, t + 1, r, b, "on")
    BY <1>1, <1>2, <2>1, <2>2 DEF Left
  <2>4. Tidy(k, P, h)
    BY <1>1, <1>2, <1>4, <2>1, <2>2 DEF Tidy
  <2>5. Leads(k, <<h>>, P, Track(L \cup M, t + 1, r, b, "on"))
    BY <1>1, <2>1, <2>3, <2>4, Single
  <2> QED BY <2>5 DEF h
<1> QED BY <1>3, <1>4 DEF P

\* And those that put an address out or end a cycle.
LEMMA Outs ==
  ASSUME NEW k \in Kinds, NEW t \in Nat, NEW r \in Nat, NEW b \in Nat, NEW a \in {"pc", "sp", "ea", "wz"},
         a = "pc" => k \in {"program", "suffix"}
  PROVE  Leads(k, <<PutOut(a)>>, Track({}, t, r, b, "on"), Track({}, t + 1, r, b, "on"))
<1> DEFINE P == Track({}, t, r, b, "on")
           h == PutOut(a)
<1>1. P \in Tracks /\ P.lines = {} /\ P.t = t /\ P.r = r /\ P.b = b /\ P.on = "on"
  BY DEF Track, Tracks
<1>2. /\ "next" \in Dos /\ {} \in SUBSET Lines /\ Free({}) /\ a # "ir"
      /\ "next" \notin Releasing /\ On("next") = "on" /\ Byte("next") = 0 /\ Does(k, "next") /\ "next" \notin Latching
  BY DEF Dos, Releasing, On, Byte, Does, Ongoing, Latching, Free
<1>3. h \in Halves /\ h.drop = {} /\ h.addr = a /\ h.raise = {} /\ h.do = "next"
  BY <1>2 DEF Half, PutOut, Halves
<1> HIDE DEF P, h
<1>4. Driven({}, h) = {}
  BY <1>3 DEF Driven
<1>5. Left(P, h) = Track({}, t + 1, r, b, "on")
  <2>1. {} \ (IF h.do \in Releasing THEN {"RFSH"} ELSE {}) = {}
    OBVIOUS
  <2> QED BY <1>1, <1>2, <1>3, <1>4, <2>1 DEF Left
<1>6. Tidy(k, P, h)
  BY <1>1, <1>2, <1>3, <1>4 DEF Tidy
<1>7. Leads(k, <<h>>, P, Track({}, t + 1, r, b, "on"))
  BY <1>1, <1>3, <1>5, <1>6, Single
<1> QED BY <1>7 DEF h, P

\* A half-clock that drops lines and does something.
LEMMA Lasts ==
  ASSUME NEW k \in Kinds, NEW L \in SUBSET Lines, NEW t \in Nat, NEW r \in Nat, NEW b \in Nat,
         NEW D \in SUBSET Lines, NEW do \in Dos, Does(k, do), Free(L), Free(L \ D),
         NEW M, M = (L \ D) \ (IF do \in Releasing THEN {"RFSH"} ELSE {}),
         do \in Latching => b = 0, do = "acknowledged" => M = {} /\ t = 10 /\ r = 1
  PROVE  Leads(k, <<Then(Drop(D), do)>>, Track(L, t, r, b, "on"), Track(M, t + 1, r, b + Byte(do), On(do)))
<1> DEFINE P == Track(L, t, r, b, "on")
           h == Then(Drop(D), do)
<1>1. P \in Tracks /\ P.lines = L /\ P.t = t /\ P.r = r /\ P.b = b /\ P.on = "on"
  BY DEF Track, Tracks
<1>2. h \in Halves /\ h.drop = D /\ h.addr = "same" /\ h.raise = {} /\ h.do = do
  BY DEF Half, Drop, Then, Halves
<1> HIDE DEF P, h
<1>3. Driven(L, h) = L \ D
  BY <1>2 DEF Driven
<1>4. Left(P, h) = Track(M, t + 1, r, b + Byte(do), On(do))
  BY <1>1, <1>2, <1>3 DEF Left
<1>5. do = "acknowledged" => Left(P, h) = Acknowledged
  BY <1>4 DEF Acknowledged, Byte, On, Latching, Ongoing
<1>6. Tidy(k, P, h)
  BY <1>1, <1>2, <1>3, <1>5 DEF Tidy
<1>7. Leads(k, <<h>>, P, Track(M, t + 1, r, b + Byte(do), On(do)))
  BY <1>1, <1>2, <1>4, <1>6, Single
<1> QED BY <1>7 DEF h, P

\* A half-clock that only does something.
LEMMA Thens ==
  ASSUME NEW k \in Kinds, NEW L \in SUBSET Lines, Free(L), NEW t \in Nat, NEW r \in Nat, NEW b \in Nat,
         NEW do \in Dos \ Releasing, Does(k, do), do \in Latching => b = 0
  PROVE  Leads(k, <<Then(Half, do)>>, Track(L, t, r, b, "on"), Track(L, t + 1, r, b + Byte(do), On(do)))
<1>1. {} \in SUBSET Lines /\ L \ {} = L /\ do # "acknowledged"
  BY DEF Releasing
<1>2. Then(Half, do) = Then(Drop({}), do)
  <2>1. Half = Drop({})
    BY DEF Half, Drop
  <2> QED BY <2>1
<1>3. L = (L \ {}) \ (IF do \in Releasing THEN {"RFSH"} ELSE {})
  OBVIOUS
<1> HIDE DEF Then, Half, Drop
<1>4. Leads(k, <<Then(Drop({}), do)>>, Track(L, t, r, b, "on"), Track(L, t + 1, r, b + Byte(do), On(do)))
  BY <1>1, <1>3, Lasts
<1> QED BY <1>1, <1>4, <1>2

\* A read.
LEMMA ReadLeads ==
  ASSUME NEW k \in Kinds, NEW t \in Nat, NEW r \in Nat, NEW b \in Nat,
         NEW do \in Dos \ Releasing, Does(k, do), do \in Latching => b = 0
  PROVE  /\ Leads(k, ReadLow(do), Track({}, t, r, b, "on"), Track({}, t + 5, r, b + Byte(do), On(do)))
         /\ \A a \in {"pc", "sp", "ea", "wz"} : (a = "pc" => k \in {"program", "suffix"}) =>
              Leads(k, ReadShape(a, do), Track({}, t, r, b, "on"), Track({}, t + 6, r, b + Byte(do), On(do)))
<1> DEFINE R == {"MREQ", "RD"}
           X(L, n) == Track(L, t + n, r, b, "on")
           Z(n) == Track({}, t + n, r, b + Byte(do), On(do))
<1>1. /\ R \in SUBSET Lines /\ {} \in SUBSET Lines /\ Free(R) /\ Free({}) /\ R \ R = {}
      /\ {} \cup R = R /\ {} = (R \ R) \ (IF do \in Releasing THEN {"RFSH"} ELSE {})
      /\ do \in Dos /\ do # "acknowledged"
  BY DEF Lines, Free, Releasing
<1> HIDE DEF R
<1>2. ASSUME NEW n \in Nat
      PROVE  /\ Leads(k, <<Half>>, X(R, n), X(R, n + 1)) /\ Leads(k, <<Waits>>, X(R, n), X(R, n + 1))
             /\ Leads(k, <<Raise(R)>>, X({}, n), X(R, n + 1))
             /\ Leads(k, <<Then(Drop(R), do)>>, X(R, n), Z(n + 1))
  <2>1. t + n \in Nat /\ (t + n) + 1 = t + (n + 1)
    OBVIOUS
  <2>2. Leads(k, <<Half>>, X(R, n), X(R, n + 1)) /\ Leads(k, <<Waits>>, X(R, n), X(R, n + 1))
    BY <1>1, <2>1, Ones
  <2>3. Leads(k, <<Raise(R)>>, X({}, n), X(R, n + 1))
    BY <1>1, <2>1, Ones
  <2>4. Leads(k, <<Then(Drop(R), do)>>, X(R, n), Z(n + 1))
    BY <1>1, <2>1, Lasts
  <2> QED BY <2>2, <2>3, <2>4
<1>3. ReadLow(do) = <<Raise(R), Half, Waits, Half, Then(Drop(R), do)>>
  BY DEF ReadLow, R
<1>4. \A n \in Nat : Leads(k, <<Raise(R), Half, Waits, Half, Then(Drop(R), do)>>, X({}, n), Z(n + 5))
  <2> SUFFICES ASSUME NEW n \in Nat
               PROVE  Leads(k, <<Raise(R), Half, Waits, Half, Then(Drop(R), do)>>, X({}, n), Z(n + 5))
    OBVIOUS
  <2> HIDE DEF X, Z
  <2>1. /\ Leads(k, <<Raise(R)>>, X({}, n), X(R, n + 1)) /\ Leads(k, <<Half>>, X(R, n + 1), X(R, n + 2))
        /\ Leads(k, <<Waits>>, X(R, n + 2), X(R, n + 3)) /\ Leads(k, <<Half>>, X(R, n + 3), X(R, n + 4))
        /\ Leads(k, <<Then(Drop(R), do)>>, X(R, n + 4), Z(n + 5))
    BY <1>2
  <2>2. Leads(k, <<Half, Then(Drop(R), do)>>, X(R, n + 3), Z(n + 5)) /\ Leads(k, <<Half, Waits>>, X(R, n + 1), X(R, n + 3))
    BY <2>1, Two
  <2>3. Leads(k, <<Half, Waits, Half, Then(Drop(R), do)>>, X(R, n + 1), Z(n + 5))
    BY <2>2, Four
  <2>4. <<Raise(R), Half, Waits, Half, Then(Drop(R), do)>> = <<Raise(R)>> \o <<Half, Waits, Half, Then(Drop(R), do)>>
    OBVIOUS
  <2> QED BY <2>1, <2>3, <2>4, Joined
<1>5. \A n \in Nat : Leads(k, ReadLow(do), X({}, n), Z(n + 5))
  BY <1>3, <1>4
<1>6. Leads(k, ReadLow(do), X({}, 0), Z(5)) /\ Leads(k, ReadLow(do), X({}, 1), Z(6))
  BY <1>5
<1>7. t + 0 = t
  OBVIOUS
<1>8. ASSUME NEW a \in {"pc", "sp", "ea", "wz"}, a = "pc" => k \in {"program", "suffix"}
      PROVE  Leads(k, ReadShape(a, do), X({}, 0), Z(6))
  <2>1. Leads(k, <<PutOut(a)>>, X({}, 0), X({}, 1))
    BY <1>7, <1>8, Outs
  <2> QED BY <1>6, <2>1, Joined DEF ReadShape
<1> QED BY <1>6, <1>7, <1>8

\* A write.
LEMMA WriteLeads ==
  ASSUME NEW k \in Kinds, NEW t \in Nat, NEW r \in Nat, NEW b \in Nat,
         NEW do \in Dos \ Releasing, Does(k, do), do \in Latching => b = 0, NEW a \in {"sp", "ea", "wz"}
  PROVE  Leads(k, WriteShape(a, do), Track({}, t, r, b, "on"), Track({}, t + 6, r, b + Byte(do), On(do)))
<1> DEFINE M == {"MREQ"}
           W == {"WR"}
           V == {"MREQ", "WR"}
           w == [Raise(W) EXCEPT !.wait = TRUE]
           X(L, n) == Track(L, t + n, r, b, "on")
           Z(n) == Track({}, t + n, r, b + Byte(do), On(do))
<1>1. /\ M \in SUBSET Lines /\ W \in SUBSET Lines /\ V \in SUBSET Lines /\ {} \in SUBSET Lines
      /\ Free(M) /\ Free(V) /\ Free({}) /\ V \ V = {} /\ {} \cup M = M /\ M \cup W = V
      /\ {} = (V \ V) \ (IF do \in Releasing THEN {"RFSH"} ELSE {})
      /\ do \in Dos /\ do # "acknowledged"
  BY DEF Lines, Free, Releasing
<1> HIDE DEF M, W, V
<1>2. Leads(k, <<PutOut(a)>>, X({}, 0), X({}, 1))
  BY Outs
<1>3. Leads(k, <<Raise(M)>>, X({}, 1), X(M, 2)) /\ Leads(k, <<Half>>, X(M, 2), X(M, 3))
  BY <1>1, Ones
<1>4. Leads(k, <<w>>, X(M, 3), X(V, 4))
  <2> DEFINE P == X(M, 3)
  <2>1. P \in Tracks /\ P.lines = M /\ P.t = t + 3 /\ P.r = r /\ P.b = b /\ P.on = "on"
    BY <1>1 DEF Track, Tracks
  <2>2. /\ "next" \in Dos
        /\ "next" \notin Releasing /\ On("next") = "on" /\ Byte("next") = 0 /\ Does(k, "next") /\ "next" \notin Latching
    BY DEF Dos, Releasing, On, Byte, Does, Ongoing, Latching
  <2>3. w \in Halves /\ w.drop = {} /\ w.addr = "same" /\ w.raise = W /\ w.do = "next"
    BY <1>1, <2>2 DEF Half, Raise, Halves
  <2> HIDE DEF P, w
  <2>4. Driven(M, w) = V
    BY <1>1, <2>3 DEF Driven
  <2>5. V \ {} = V /\ (t + 3) + 1 = t + 4 /\ r + 0 = r /\ b + 0 = b
    OBVIOUS
  <2>6. Left(P, w) = X(V, 4)
    BY <2>1, <2>2, <2>3, <2>4, <2>5 DEF Left
  <2>7. Tidy(k, P, w)
    BY <1>1, <2>1, <2>2, <2>3, <2>4 DEF Tidy
  <2> QED BY <2>1, <2>3, <2>6, <2>7, Single DEF P
<1>5. Leads(k, <<Half>>, X(V, 4), X(V, 5))
  BY <1>1, Ones
<1>6. Leads(k, <<Then(Drop(V), do)>>, X(V, 5), Z(6))
  <2>1. t + 5 \in Nat /\ (t + 5) + 1 = t + 6
    OBVIOUS
  <2> QED BY <1>1, <2>1, Lasts
<1>7. WriteShape(a, do) = <<PutOut(a), Raise(M), Half, w, Half, Then(Drop(V), do)>>
  BY DEF WriteShape, M, W, V
<1> HIDE DEF X, Z, w
<1>8. Leads(k, <<Half, Then(Drop(V), do)>>, X(V, 4), Z(6)) /\ Leads(k, <<Half, w>>, X(M, 2), X(V, 4))
      /\ Leads(k, <<PutOut(a), Raise(M)>>, X({}, 0), X(M, 2))
  BY <1>2, <1>3, <1>4, <1>5, <1>6, Two
<1>9. Leads(k, <<Half, w, Half, Then(Drop(V), do)>>, X(M, 2), Z(6))
  BY <1>8, Four
<1>10. <<PutOut(a), Raise(M), Half, w, Half, Then(Drop(V), do)>>
         = <<PutOut(a), Raise(M)>> \o <<Half, w, Half, Then(Drop(V), do)>>
  OBVIOUS
<1>11. Leads(k, WriteShape(a, do), X({}, 0), Z(6))
  BY <1>7, <1>8, <1>9, <1>10, Joined
<1> QED BY <1>11 DEF X, Z

\* Time that passes inside the CPU.
LEMMA InternalLeads ==
  ASSUME NEW k \in Kinds, NEW t \in Nat, NEW r \in Nat, NEW b \in Nat, NEW n \in Nat \ {0}
  PROVE  Leads(k, Internal(n), Track({}, t, r, b, "on"), Track({}, t + 2 * n, r, b, "on"))
<1> DEFINE s == Internal(n)
           P(m) == Track({}, t + m, r, b, "on")
           ps == [i \in 1..(2 * n) |-> P(i - 1)]
<1>1. /\ Half \in Halves /\ Half.drop = {} /\ Half.addr = "same" /\ Half.raise = {} /\ Half.do = "next"
      /\ "next" \notin Releasing /\ On("next") = "on" /\ Byte("next") = 0 /\ Does(k, "next") /\ "next" \notin Latching /\ Free({})
  BY DEF Half, Halves, Dos, Releasing, On, Byte, Does, Ongoing, Latching, Free
<1>2. 2 * n \in Nat \ {0} /\ s = [i \in 1..(2 * n) |-> Half]
  BY DEF Internal
<1>3. /\ s \in Seq(Halves) /\ Len(s) = 2 * n
      /\ \A i \in 1..(2 * n) : s[i] = Half
  BY <1>1, <1>2
<1>4. \A m \in Nat : P(m) \in Tracks
  BY DEF Track, Tracks
<1>5. ps \in Seq(Tracks) /\ Len(ps) = 2 * n /\ \A i \in 1..(2 * n) : ps[i] = P(i - 1)
  <2>1. \A i \in 1..(2 * n) : P(i - 1) \in Tracks
    <3> HIDE DEF P
    <3>1. \A i \in 1..(2 * n) : i - 1 \in Nat
      BY <1>2
    <3> QED BY <1>4, <3>1
  <2> HIDE DEF P
  <2> QED BY <1>2, <2>1
<1>6. \A m \in Nat : Tidy(k, P(m), Half) /\ Left(P(m), Half) = P(m + 1)
  <2> TAKE m \in Nat
  <2>1. P(m).lines = {} /\ P(m).t = t + m /\ P(m).r = r /\ P(m).b = b /\ P(m).on = "on"
    BY DEF Track
  <2>2. Driven({}, Half) = {} /\ {} \ {} = {} /\ (t + m) + 1 = t + (m + 1) /\ r + 0 = r /\ b + 0 = b
    BY <1>1 DEF Driven
  <2> HIDE DEF Half
  <2>3. Left(P(m), Half) = P(m + 1)
    <3> HIDE DEF P
    <3>1. Left(P(m), Half) = Track({}, t + (m + 1), r, b, "on")
      BY <1>1, <2>1, <2>2 DEF Left
    <3> QED BY <3>1 DEF P
  <2>4. Tidy(k, P(m), Half)
    BY <1>1, <2>1, <2>2 DEF Tidy
  <2> QED BY <2>3, <2>4
<1> HIDE DEF s, ps
<1>7. ps[1] = P(0)
  BY <1>2, <1>5
<1>8. \A i \in 1..Len(s) : /\ Tidy(k, ps[i], s[i])
                          /\ Left(ps[i], s[i]) = IF i = Len(s) THEN P(2 * n) ELSE ps[i + 1]
  <2> SUFFICES ASSUME NEW i \in 1..(2 * n)
               PROVE  Tidy(k, ps[i], s[i]) /\ Left(ps[i], s[i]) = IF i = 2 * n THEN P(2 * n) ELSE ps[i + 1]
    BY <1>3
  <2>1. i - 1 \in Nat /\ (i - 1) + 1 = i
    BY <1>2
  <2>2. i # 2 * n => i + 1 \in 1..(2 * n) /\ (i + 1) - 1 = i
    BY <1>2
  <2> HIDE DEF P
  <2>3. Tidy(k, ps[i], s[i]) /\ Left(ps[i], s[i]) = P(i)
    BY <1>3, <1>5, <1>6, <2>1
  <2>4. i # 2 * n => ps[i + 1] = P(i)
    BY <1>5, <2>2
  <2> QED BY <2>3, <2>4
<1>9. t + 0 = t
  OBVIOUS
<1>10. Len(s) # 0 /\ Len(ps) = Len(s)
  BY <1>2, <1>3, <1>5
<1>11. Through(k, s, ps, P(0), P(2 * n))
  <2> HIDE DEF P
  <2> QED BY <1>3, <1>5, <1>7, <1>8, <1>10 DEF Through
<1>12. Leads(k, s, P(0), P(2 * n))
  <2> HIDE DEF P
  <2> QED BY <1>11 DEF Leads
<1> QED BY <1>9, <1>12 DEF s, P

\* The refresh that ends every M1 cycle, and the half-clock that puts R out for it.
LEMMA RefreshLeads ==
  ASSUME NEW k \in Kinds, NEW t \in Nat, NEW r \in Nat, NEW b \in Nat,
         NEW do \in Releasing, Does(k, do), do = "acknowledged" => t = 8 /\ r = 1 /\ b = 0
  PROVE  Leads(k, Refresh(do), Track({"RFSH"}, t, r, b, "on"), Track({}, t + 3, r, b + Byte(do), On(do)))
<1> DEFINE M == {"MREQ"}
           R == {"RFSH"}
           V == {"RFSH", "MREQ"}
           X(L, n) == Track(L, t + n, r, b, "on")
           Z(n) == Track({}, t + n, r, b + Byte(do), On(do))
<1>1. /\ M \in SUBSET Lines /\ R \in SUBSET Lines /\ V \in SUBSET Lines /\ {} \in SUBSET Lines
      /\ Free(R) /\ Free(V) /\ R \cup M = V /\ V \ M = R
      /\ {} = (V \ M) \ (IF do \in Releasing THEN {"RFSH"} ELSE {})
      /\ do \in Dos /\ t + 0 = t
  BY DEF Lines, Free, Releasing, Dos, Ongoing, Ending
<1> HIDE DEF M, R, V
<1>2. Leads(k, <<Raise(M)>>, X(R, 0), X(V, 1)) /\ Leads(k, <<Half>>, X(V, 1), X(V, 2))
  BY <1>1, Ones
<1>3. Leads(k, <<Then(Drop(M), do)>>, X(V, 2), Z(3))
  <2>1. t + 2 \in Nat /\ (t + 2) + 1 = t + 3 /\ Free(V \ M)
    BY <1>1
  <2>2. (do \in Latching => b = 0) /\ (do = "acknowledged" => {} = {} /\ t + 2 = 10 /\ r = 1)
    BY DEF Latching, Releasing
  <2> QED BY <1>1, <2>1, <2>2, Lasts
<1>4. Refresh(do) = <<Raise(M), Half, Then(Drop(M), do)>>
  BY DEF Refresh, M
<1> HIDE DEF X, Z
<1>5. Leads(k, <<Half, Then(Drop(M), do)>>, X(V, 1), Z(3))
  BY <1>2, <1>3, Two
<1>6. Leads(k, Refresh(do), X(R, 0), Z(3))
  BY <1>2, <1>4, <1>5, Three
<1> QED BY <1>1, <1>6 DEF X, Z, R

\* The half-clock that puts R out, on its own, as one that goes on.
LEMMA RefreshOutIs == RefreshOut = Then(RefreshOut, "next")
<1> DEFINE D == {"M1", "MREQ", "RD", "IORQ"}
           Same == [drop : {D}, addr : {"ir"}, raise : {{"RFSH"}}, wait : {FALSE}, do : {"next"}]
<1>1. RefreshOut \in Same /\ Then(RefreshOut, "next") \in Same
  BY DEF RefreshOut, Then, Half
<1>2. ASSUME NEW g \in Same
      PROVE  g = [drop |-> D, addr |-> "ir", raise |-> {"RFSH"}, wait |-> FALSE, do |-> "next"]
  OBVIOUS
<1> HIDE DEF Same
<1> QED BY <1>1, <1>2

\* It lets go what a fetch or an acknowledge held, and counts a refresh.
LEMMA RefreshOuts ==
  ASSUME NEW k \in Kinds, NEW t \in Nat, NEW r \in Nat, NEW b \in Nat,
         NEW L \in {{"M1", "MREQ", "RD"}, {"M1", "IORQ"}}, NEW do \in {"next", "latch"}, Does(k, do), do = "latch" => b = 0
  PROVE  Leads(k, <<Then(RefreshOut, do)>>, Track(L, t, r, b, "on"), Track({"RFSH"}, t + 1, r + 1, b + Byte(do), "on"))
<1> DEFINE P == Track(L, t, r, b, "on")
           h == Then(RefreshOut, do)
           D == {"M1", "MREQ", "RD", "IORQ"}
<1>1. L \in SUBSET Lines /\ D \in SUBSET Lines /\ {"RFSH"} \in SUBSET Lines /\ Free(L) /\ Free({"RFSH"})
      /\ (L \ D) \cup {"RFSH"} = {"RFSH"} /\ {"RFSH"} \ {} = {"RFSH"} /\ {"RFSH"} \cap L \cap Strobes = {}
  BY DEF Lines, Free, Strobes
<1>2. P \in Tracks /\ P.lines = L /\ P.t = t /\ P.r = r /\ P.b = b /\ P.on = "on"
  BY <1>1 DEF Track, Tracks
<1>3. do \in Dos /\ do \notin Releasing /\ On(do) = "on" /\ do # "acknowledged" /\ (do \in Latching => do = "latch")
  BY DEF Dos, Releasing, On, Ongoing, Latching
<1>4. h \in Halves /\ h.drop = D /\ h.addr = "ir" /\ h.raise = {"RFSH"} /\ h.do = do
  BY <1>1, <1>3 DEF Half, RefreshOut, Then, Halves
<1> HIDE DEF P, h, D
<1>5. Driven(L, h) = {"RFSH"}
  BY <1>1, <1>4 DEF Driven
<1>6. Left(P, h) = Track({"RFSH"}, t + 1, r + 1, b + Byte(do), "on")
  BY <1>1, <1>2, <1>3, <1>4, <1>5 DEF Left
<1>7. Tidy(k, P, h)
  BY <1>1, <1>2, <1>3, <1>4, <1>5 DEF Tidy
<1>8. Leads(k, <<h>>, P, Track({"RFSH"}, t + 1, r + 1, b + Byte(do), "on"))
  BY <1>2, <1>4, <1>6, <1>7, Single
<1> QED BY <1>8 DEF h, P

\* A fetch.
LEMMA FetchLeads ==
  ASSUME NEW do \in {"plain", "ed", "cb", "ddfd"}
  PROVE  Leads("fetch", FetchShape(do), Track({"M1"}, 0, 0, 0, "on"), Track({}, 7, 1, 1, do))
<1> DEFINE M == {"M1"}
           R == {"MREQ", "RD"}
           F == {"M1", "MREQ", "RD"}
           k == "fetch"
           X(L, n) == Track(L, n, 0, 0, "on")
           out == Then(RefreshOut, "latch")
<1>1. M \in SUBSET Lines /\ R \in SUBSET Lines /\ F \in SUBSET Lines /\ Free(M) /\ Free(F) /\ M \cup R = F
  BY DEF Lines, Free
<1>2. k \in Kinds /\ Does(k, "latch") /\ Does(k, do) /\ do \in Releasing /\ do # "acknowledged"
      /\ Byte("latch") = 1 /\ Byte(do) = 0 /\ On(do) = do
  BY DEF Kinds, Does, Releasing, Byte, Latching, On, Ongoing
<1>3. Leads(k, <<out>>, X(F, 3), Track({"RFSH"}, 4, 1, 1, "on"))
  <2>1. 3 + 1 = 4 /\ 0 + 1 = 1
    OBVIOUS
  <2> QED BY <1>2, <2>1, RefreshOuts
<1> HIDE DEF M, R, F
<1>4. Leads(k, <<Raise(R)>>, X(M, 0), X(F, 1)) /\ Leads(k, <<Half>>, X(F, 1), X(F, 2))
      /\ Leads(k, <<Waits>>, X(F, 2), X(F, 3))
  BY <1>1, <1>2, Ones
<1>5. Leads(k, Refresh(do), Track({"RFSH"}, 4, 1, 1, "on"), Track({}, 7, 1, 1, do))
  <2>1. 4 + 3 = 7 /\ 1 + 0 = 1
    OBVIOUS
  <2>2. Leads(k, Refresh(do), Track({"RFSH"}, 4, 1, 1, "on"), Track({}, 4 + 3, 1, 1 + Byte(do), On(do)))
    BY <1>2, RefreshLeads
  <2> QED BY <1>2, <2>1, <2>2
<1>6. FetchShape(do) = <<Raise(R), Half, Waits, out>> \o Refresh(do)
  BY DEF FetchShape, R
<1> HIDE DEF X, out
<1>7. Leads(k, <<Raise(R), Half>>, X(M, 0), X(F, 2)) /\ Leads(k, <<Waits, out>>, X(F, 2), Track({"RFSH"}, 4, 1, 1, "on"))
  BY <1>3, <1>4, Two
<1>8. Leads(k, <<Raise(R), Half, Waits, out>>, X(M, 0), Track({"RFSH"}, 4, 1, 1, "on"))
  BY <1>7, Four
<1>9. Leads(k, FetchShape(do), X(M, 0), Track({}, 7, 1, 1, do))
  BY <1>5, <1>6, <1>8, Joined
<1> QED BY <1>9 DEF X, M

\* The acknowledge.
LEMMA AcknowledgeLeads == Leads("acknowledge", Acknowledge, Track({"M1"}, 0, 0, 0, "on"), Track({}, 13, 1, 1, "push"))
<1> DEFINE M == {"M1"}
           I == {"IORQ"}
           V == {"M1", "IORQ"}
           k == "acknowledge"
           X(L, n) == Track(L, n, 0, 0, "on")
           Y(n) == Track({}, n, 1, 1, "on")
           Q == Track({"RFSH"}, 8, 1, 0, "on")
           accept == Then(Half, "accept")
           push == Then(Half, "push")
           done == Refresh("acknowledged")
<1>1. M \in SUBSET Lines /\ I \in SUBSET Lines /\ V \in SUBSET Lines /\ {} \in SUBSET Lines
      /\ Free({}) /\ Free(M) /\ Free(V) /\ M \cup I = V
  BY DEF Lines, Free
<1>2. k \in Kinds /\ Does(k, "next") /\ Does(k, "accept") /\ Does(k, "acknowledged") /\ Does(k, "push")
      /\ "accept" \in Dos \ Releasing /\ "push" \in Dos \ Releasing /\ "acknowledged" \in Releasing
      /\ "push" \notin Latching /\ Byte("next") = 0 /\ Byte("accept") = 0 /\ Byte("push") = 0 /\ Byte("acknowledged") = 1
      /\ On("accept") = "on" /\ On("acknowledged") = "on" /\ On("push") = "push"
  BY DEF Kinds, Does, Dos, Releasing, Byte, Latching, On, Ongoing, Ending
<1>3. Leads(k, <<RefreshOut>>, X(V, 7), Q)
  <2>1. RefreshOut = Then(RefreshOut, "next") /\ 7 + 1 = 8 /\ 0 + 1 = 1 /\ 0 + 0 = 0
    BY RefreshOutIs
  <2>2. Leads(k, <<Then(RefreshOut, "next")>>, X(V, 7), Track({"RFSH"}, 7 + 1, 0 + 1, 0 + Byte("next"), "on"))
    BY <1>2, RefreshOuts
  <2> QED BY <1>2, <2>1, <2>2
<1> HIDE DEF M, I, V
<1>4. Leads(k, <<accept>>, X(M, 0), X(M, 1))
  <2>1. 0 + 1 = 1 /\ 0 + 0 = 0
    OBVIOUS
  <2>2. Leads(k, <<Then(Half, "accept")>>, Track(M, 0, 0, 0, "on"), Track(M, 0 + 1, 0, 0 + Byte("accept"), On("accept")))
    BY <1>1, <1>2, Thens
  <2> QED BY <1>2, <2>1, <2>2
<1>5. /\ Leads(k, <<Half>>, X(M, 1), X(M, 2)) /\ Leads(k, <<Half>>, X(M, 2), X(M, 3))
      /\ Leads(k, <<Half>>, X(M, 3), X(M, 4)) /\ Leads(k, <<Raise(I)>>, X(M, 4), X(V, 5))
      /\ Leads(k, <<Half>>, X(V, 5), X(V, 6)) /\ Leads(k, <<Waits>>, X(V, 6), X(V, 7))
  BY <1>1, <1>2, Ones
<1>6. Leads(k, done, Q, Y(11))
  <2>1. 8 + 3 = 11 /\ 0 + 1 = 1
    OBVIOUS
  <2>2. Leads(k, Refresh("acknowledged"), Track({"RFSH"}, 8, 1, 0, "on"), Track({}, 8 + 3, 1, 0 + Byte("acknowledged"), On("acknowledged")))
    BY <1>2, RefreshLeads
  <2> QED BY <1>2, <2>1, <2>2
<1>7. Leads(k, <<Half>>, Y(11), Y(12))
  BY <1>1, <1>2, Ones
<1>8. Leads(k, <<push>>, Y(12), Track({}, 13, 1, 1, "push"))
  <2>1. 12 + 1 = 13 /\ 1 + 0 = 1
    OBVIOUS
  <2>2. Leads(k, <<Then(Half, "push")>>, Track({}, 12, 1, 1, "on"), Track({}, 12 + 1, 1, 1 + Byte("push"), On("push")))
    BY <1>1, <1>2, Thens
  <2> QED BY <1>2, <2>1, <2>2
<1>9. /\ Acknowledge = AcknowledgeShape("acknowledged") \o <<Half, push>>
      /\ AcknowledgeShape("acknowledged") = <<accept, Half, Half, Half, Raise(I), Half, Waits, RefreshOut>> \o done
  BY DEF Acknowledge, AcknowledgeShape, I
<1> HIDE DEF X, Y, Q, accept, push, done
<1>10. Leads(k, <<accept, Half>>, X(M, 0), X(M, 2)) /\ Leads(k, <<Half, Half>>, X(M, 2), X(M, 4))
       /\ Leads(k, <<Raise(I), Half>>, X(M, 4), X(V, 6)) /\ Leads(k, <<Waits, RefreshOut>>, X(V, 6), Q)
       /\ Leads(k, <<Half, push>>, Y(11), Track({}, 13, 1, 1, "push"))
  BY <1>3, <1>4, <1>5, <1>7, <1>8, Two
<1>11. Leads(k, <<accept, Half, Half, Half>>, X(M, 0), X(M, 4))
       /\ Leads(k, <<Raise(I), Half, Waits, RefreshOut>>, X(M, 4), Q)
  BY <1>10, Four
<1>12. <<accept, Half, Half, Half, Raise(I), Half, Waits, RefreshOut>>
         = <<accept, Half, Half, Half>> \o <<Raise(I), Half, Waits, RefreshOut>>
  OBVIOUS
<1>13. Leads(k, AcknowledgeShape("acknowledged"), X(M, 0), Y(11))
  BY <1>6, <1>9, <1>11, <1>12, Joined
<1>14. Leads(k, Acknowledge, X(M, 0), Track({}, 13, 1, 1, "push"))
  BY <1>9, <1>10, <1>13, Joined
<1> QED BY <1>14 DEF X, M

\* The dummy fetch of an NMI.
LEMMA NmiLeads == Leads("interrupt", Nmi, Track({"M1"}, 0, 0, 0, "on"), Track({}, 9, 1, 0, "push"))
<1> DEFINE M == {"M1"}
           R == {"MREQ", "RD"}
           F == {"M1", "MREQ", "RD"}
           k == "interrupt"
           X(L, n) == Track(L, n, 0, 0, "on")
           Y(n) == Track({}, n, 1, 0, "on")
           Q == Track({"RFSH"}, 4, 1, 0, "on")
           push == Then(Half, "push")
           done == Refresh("refreshed")
<1>1. M \in SUBSET Lines /\ R \in SUBSET Lines /\ F \in SUBSET Lines /\ {} \in SUBSET Lines
      /\ Free({}) /\ Free(M) /\ Free(F) /\ M \cup R = F
  BY DEF Lines, Free
<1>2. k \in Kinds /\ Does(k, "next") /\ Does(k, "refreshed") /\ Does(k, "push")
      /\ "push" \in Dos \ Releasing /\ "refreshed" \in Releasing
      /\ Byte("next") = 0 /\ Byte("push") = 0 /\ Byte("refreshed") = 0
      /\ On("refreshed") = "on" /\ On("push") = "push"
  BY DEF Kinds, Does, Dos, Releasing, Byte, Latching, On, Ongoing, Ending
<1>3. Leads(k, <<RefreshOut>>, X(F, 3), Q)
  <2>1. RefreshOut = Then(RefreshOut, "next") /\ 3 + 1 = 4 /\ 0 + 1 = 1 /\ 0 + 0 = 0
    BY RefreshOutIs
  <2>2. Leads(k, <<Then(RefreshOut, "next")>>, X(F, 3), Track({"RFSH"}, 3 + 1, 0 + 1, 0 + Byte("next"), "on"))
    BY <1>2, RefreshOuts
  <2> QED BY <1>2, <2>1, <2>2
<1> HIDE DEF M, R, F
<1>4. Leads(k, <<Raise(R)>>, X(M, 0), X(F, 1)) /\ Leads(k, <<Half>>, X(F, 1), X(F, 2))
      /\ Leads(k, <<Waits>>, X(F, 2), X(F, 3))
  BY <1>1, <1>2, Ones
<1>5. Leads(k, done, Q, Y(7))
  <2>1. 4 + 3 = 7 /\ 0 + 0 = 0
    OBVIOUS
  <2>2. Leads(k, Refresh("refreshed"), Track({"RFSH"}, 4, 1, 0, "on"), Track({}, 4 + 3, 1, 0 + Byte("refreshed"), On("refreshed")))
    BY <1>2, RefreshLeads
  <2> QED BY <1>2, <2>1, <2>2
<1>6. Leads(k, <<Half>>, Y(7), Y(8))
  BY <1>1, <1>2, Ones
<1>7. Leads(k, <<push>>, Y(8), Track({}, 9, 1, 0, "push"))
  <2>1. 8 + 1 = 9 /\ 0 + 0 = 0
    OBVIOUS
  <2>2. Leads(k, <<Then(Half, "push")>>, Track({}, 8, 1, 0, "on"), Track({}, 8 + 1, 1, 0 + Byte("push"), On("push")))
    BY <1>1, <1>2, Thens
  <2> QED BY <1>2, <2>1, <2>2
<1>8. Nmi = (<<Raise(R), Half, Waits, RefreshOut>> \o done) \o <<Half, push>>
  BY DEF Nmi, R
<1> HIDE DEF X, Y, Q, push, done
<1>9. Leads(k, <<Raise(R), Half>>, X(M, 0), X(F, 2)) /\ Leads(k, <<Waits, RefreshOut>>, X(F, 2), Q)
      /\ Leads(k, <<Half, push>>, Y(7), Track({}, 9, 1, 0, "push"))
  BY <1>3, <1>4, <1>6, <1>7, Two
<1>10. Leads(k, <<Raise(R), Half, Waits, RefreshOut>>, X(M, 0), Q)
  BY <1>9, Four
<1>11. Leads(k, <<Raise(R), Half, Waits, RefreshOut>> \o done, X(M, 0), Y(7))
  BY <1>5, <1>10, Joined
<1>12. Leads(k, Nmi, X(M, 0), Track({}, 9, 1, 0, "push"))
  BY <1>8, <1>9, <1>11, Joined
<1> QED BY <1>12 DEF X, M

\* One of the two reads of a vector.
LEMMA VectorLeads ==
  ASSUME NEW t \in Nat, NEW do \in {"next", "jump"}
  PROVE  Leads("interrupt", VectorRead(do), Track({}, t, 0, 0, "on"), Track({}, t + 6, 0, 0, "on"))
<1> DEFINE R == {"MREQ", "RD"}
           k == "interrupt"
           X(L, n) == Track(L, t + n, 0, 0, "on")
<1>1. R \in SUBSET Lines /\ {} \in SUBSET Lines /\ Free({}) /\ Free(R) /\ {} \cup R = R /\ R \ R = {}
      /\ {} = (R \ R) \ (IF do \in Releasing THEN {"RFSH"} ELSE {})
  BY DEF Lines, Free
<1>2. k \in Kinds /\ Does(k, do) /\ do \in Dos \ Releasing /\ do # "acknowledged" /\ do \notin Latching
      /\ Byte(do) = 0 /\ On(do) = "on" /\ t + 0 = t
  BY DEF Kinds, Does, Dos, Releasing, Byte, Latching, On, Ongoing
<1> HIDE DEF R
<1>3. /\ Leads(k, <<Raise(R)>>, X({}, 1), X(R, 2)) /\ Leads(k, <<Half>>, X(R, 2), X(R, 3))
      /\ Leads(k, <<Waits>>, X(R, 3), X(R, 4)) /\ Leads(k, <<Half>>, X({}, 5), X({}, 6))
  BY <1>1, <1>2, Ones
<1>4. Leads(k, <<PutOut("wz")>>, X({}, 0), X({}, 1))
  BY <1>2, Outs
<1>5. Leads(k, <<Then(Drop(R), do)>>, X(R, 4), X({}, 5))
  <2>1. t + 4 \in Nat /\ (t + 4) + 1 = t + 5 /\ 0 + 0 = 0 /\ Free(R \ R) /\ do \in Dos
    BY <1>1, <1>2
  <2>2. Leads(k, <<Then(Drop(R), do)>>, Track(R, t + 4, 0, 0, "on"), Track({}, (t + 4) + 1, 0, 0 + Byte(do), On(do)))
    <3>1. (do \in Latching => 0 = 0) /\ (do = "acknowledged" => {} = {} /\ t + 4 = 10 /\ 0 = 1)
      BY <1>2
    <3> HIDE DEF k
    <3>2. ASSUME NEW M, M = (R \ R) \ (IF do \in Releasing THEN {"RFSH"} ELSE {})
          PROVE  Leads(k, <<Then(Drop(R), do)>>, Track(R, t + 4, 0, 0, "on"), Track(M, (t + 4) + 1, 0, 0 + Byte(do), On(do)))
      BY <1>1, <1>2, <2>1, <3>1, <3>2, Lasts, SMTT(30)
    <3> QED BY <1>1, <3>2
  <2> QED BY <1>2, <2>1, <2>2
<1>6. VectorRead(do) = <<PutOut("wz"), Raise(R), Half, Waits, Then(Drop(R), do), Half>>
  BY DEF VectorRead, R
<1> HIDE DEF X
<1>7. Leads(k, <<PutOut("wz"), Raise(R)>>, X({}, 0), X(R, 2)) /\ Leads(k, <<Half, Waits>>, X(R, 2), X(R, 4))
      /\ Leads(k, <<Then(Drop(R), do), Half>>, X(R, 4), X({}, 6))
  BY <1>3, <1>4, <1>5, Two
<1>8. Leads(k, <<PutOut("wz"), Raise(R), Half, Waits>>, X({}, 0), X(R, 4))
  BY <1>7, Four
<1>9. <<PutOut("wz"), Raise(R), Half, Waits, Then(Drop(R), do), Half>>
        = <<PutOut("wz"), Raise(R), Half, Waits>> \o <<Then(Drop(R), do), Half>>
  OBVIOUS
<1>10. Leads(k, VectorRead(do), X({}, 0), X({}, 6))
  BY <1>6, <1>7, <1>8, <1>9, Joined
<1> QED BY <1>2, <1>10 DEF X

-----------------------------------------------------------------------------
(* The cycles, and what each comes to.                                     *)

\* The cycles by name, what they are, how long they last and what ends them.
Fetches == {"PlainFetch", "EdFetch", "CbFetch", "DdFdFetch"}
Indexing == {"Displacement", "DisplacementN", "IndexedStore", "DdCb", "DdCbWrite", "DdCbBit"}
Interrupting == {"Acknowledge", "Nmi", "PushPc", "Vector", "Arrive"}
Going == {"op", "imm", "mem", "retn", "storen", "cbhl", "bithl", "ei", "di", "im", "halt", "prefix"}
Cycles == Fetches \cup Indexing \cup Interrupting \cup Going

Cycle(c) == IF c \in DOMAIN Shapes THEN Shapes[c] ELSE Generated[c]
Kind(c) ==
  CASE c \in Fetches -> "fetch" [] c = "DdCb" -> "suffix" [] c = "Acknowledge" -> "acknowledge"
    [] c \in Interrupting \ {"Acknowledge"} -> "interrupt" [] OTHER -> "program"

\* Half-clocks, what the last one does, and where a cycle begins and ends.
Lasting(c) ==
  CASE c \in Fetches \cup {"IndexedStore", "imm", "mem"} -> 7
    [] c \in {"Displacement", "DisplacementN"} -> 16
    [] c = "DdCb" -> 21
    [] c \in {"DdCbWrite", "Nmi", "bithl"} -> 9
    [] c = "DdCbBit" -> 3
    [] c \in {"Acknowledge", "Vector", "retn", "storen"} -> 13
    [] c = "PushPc" -> 12
    [] c = "cbhl" -> 15
    [] OTHER -> 1
Closing(c) ==
  CASE c = "PlainFetch" -> "plain" [] c = "EdFetch" -> "ed" [] c = "CbFetch" -> "cb" [] c = "DdFdFetch" -> "ddfd"
    [] c = "Displacement" -> "run" [] c = "DisplacementN" -> "store" [] c = "DdCb" -> "act"
    [] c \in {"Acknowledge", "Nmi"} -> "push" [] c = "PushPc" -> "vector"
    [] c \in {"retn", "ei", "di", "im", "halt", "prefix"} -> c
    [] OTHER -> "fetch"
Refreshing == Fetches \cup {"Acknowledge", "Nmi"}
Begins(c) == Track(IF c \in Refreshing THEN {"M1"} ELSE {}, 0, 0, 0, "on")
Ends(c) ==
  Track({}, Lasting(c), IF c \in Refreshing THEN 1 ELSE 0,
        IF c \in Fetches \cup {"DdCb", "Acknowledge"} THEN 1 ELSE 0, Closing(c))

\* The program's cycles, which latch nothing.
LEMMA Pieces ==
  ASSUME NEW k \in Kinds, NEW t \in Nat
  PROVE  /\ \A a \in {"sp", "ea"} : Leads(k, ReadShape(a, "next"), Track({}, t, 0, 0, "on"), Track({}, t + 6, 0, 0, "on"))
         /\ k = "program" => /\ Leads(k, ReadShape("pc", "next"), Track({}, t, 0, 0, "on"), Track({}, t + 6, 0, 0, "on"))
                             /\ Leads(k, ReadShape("pc", "index"), Track({}, t, 0, 0, "on"), Track({}, t + 6, 0, 0, "on"))
         /\ Leads(k, WriteShape("ea", "next"), Track({}, t, 0, 0, "on"), Track({}, t + 6, 0, 0, "on"))
         /\ Leads(k, <<Half>>, Track({}, t, 0, 0, "on"), Track({}, t + 1, 0, 0, "on"))
         /\ Leads(k, Internal(1), Track({}, t, 0, 0, "on"), Track({}, t + 2, 0, 0, "on"))
         /\ Leads(k, Internal(4), Track({}, t, 0, 0, "on"), Track({}, t + 8, 0, 0, "on"))
         /\ \A do \in Ending \ Releasing :
              Leads(k, <<Then(Half, do)>>, Track({}, t, 0, 0, "on"), Track({}, t + 1, 0, 0, do))
<1>1. /\ \A do \in {"next", "index"} : do \in Dos \ Releasing /\ Does(k, do) /\ Byte(do) = 0 /\ On(do) = "on"
      /\ \A do \in Ending \ Releasing : do \in Dos \ Releasing /\ Does(k, do) /\ Byte(do) = 0 /\ On(do) = do
      /\ Free({}) /\ {} \in SUBSET Lines /\ 0 + 0 = 0 /\ 0 \in Nat /\ 2 * 1 = 2 /\ 2 * 4 = 8
  BY DEF Dos, Releasing, Does, Byte, On, Latching, Ongoing, Ending, Free
<1>2. \A do \in {"next", "index"} : \A a \in {"pc", "sp", "ea", "wz"} : (a = "pc" => k \in {"program", "suffix"}) =>
        Leads(k, ReadShape(a, do), Track({}, t, 0, 0, "on"), Track({}, t + 6, 0, 0 + Byte(do), On(do)))
  BY <1>1, ReadLeads
<1>3. Leads(k, WriteShape("ea", "next"), Track({}, t, 0, 0, "on"), Track({}, t + 6, 0, 0 + Byte("next"), On("next")))
  BY <1>1, WriteLeads
<1>4. Leads(k, <<Half>>, Track({}, t, 0, 0, "on"), Track({}, t + 1, 0, 0, "on"))
  BY <1>1, Ones
<1>5. /\ Leads(k, Internal(1), Track({}, t, 0, 0, "on"), Track({}, t + 2 * 1, 0, 0, "on"))
      /\ Leads(k, Internal(4), Track({}, t, 0, 0, "on"), Track({}, t + 2 * 4, 0, 0, "on"))
  BY InternalLeads
<1>6. \A do \in Ending \ Releasing :
        Leads(k, <<Then(Half, do)>>, Track({}, t, 0, 0, "on"), Track({}, t + 1, 0, 0 + Byte(do), On(do)))
  BY <1>1, Thens
<1>7. \A a \in {"sp", "ea"} : Leads(k, ReadShape(a, "next"), Track({}, t, 0, 0, "on"), Track({}, t + 6, 0, 0, "on"))
  BY <1>1, <1>2
<1>8. k = "program" => /\ Leads(k, ReadShape("pc", "next"), Track({}, t, 0, 0, "on"), Track({}, t + 6, 0, 0, "on"))
                       /\ Leads(k, ReadShape("pc", "index"), Track({}, t, 0, 0, "on"), Track({}, t + 6, 0, 0, "on"))
  BY <1>1, <1>2
<1>9. Leads(k, WriteShape("ea", "next"), Track({}, t, 0, 0, "on"), Track({}, t + 6, 0, 0, "on"))
  BY <1>1, <1>3
<1>10. \A do \in Ending \ Releasing :
        Leads(k, <<Then(Half, do)>>, Track({}, t, 0, 0, "on"), Track({}, t + 1, 0, 0, do))
  BY <1>1, <1>6
<1> QED BY <1>1, <1>4, <1>5, <1>7, <1>8, <1>9, <1>10

\* Each of them: those of indexed operands, and those of every class of opcode.
LEMMA GoingLead ==
  /\ Leads("program", Displacement, Track({}, 0, 0, 0, "on"), Track({}, 16, 0, 0, "run"))
  /\ Leads("program", DisplacementN, Track({}, 0, 0, 0, "on"), Track({}, 16, 0, 0, "store"))
  /\ Leads("program", IndexedStore, Track({}, 0, 0, 0, "on"), Track({}, 7, 0, 0, "fetch"))
  /\ Leads("program", DdCbWrite, Track({}, 0, 0, 0, "on"), Track({}, 9, 0, 0, "fetch"))
  /\ Leads("program", DdCbBit, Track({}, 0, 0, 0, "on"), Track({}, 3, 0, 0, "fetch"))
  /\ \A c \in Going : Leads("program", Generated[c], Track({}, 0, 0, 0, "on"), Track({}, Lasting(c), 0, 0, Closing(c)))
<1> DEFINE k == "program"
           X(n) == Track({}, n, 0, 0, "on")
           Z(n, do) == Track({}, n, 0, 0, do)
           pc == ReadShape("pc", "next")
           ea == ReadShape("ea", "next")
           sp == ReadShape("sp", "next")
           index == ReadShape("pc", "index")
           write == WriteShape("ea", "next")
           End(do) == <<Then(Half, do)>>
<1>1. k \in Kinds /\ {"run", "store", "fetch", "ei", "di", "im", "halt", "prefix", "retn"} \subseteq Ending \ Releasing
  BY DEF Kinds, Ending, Releasing
<1>2. ASSUME NEW t \in Nat
      PROVE  /\ Leads(k, pc, X(t), X(t + 6)) /\ Leads(k, ea, X(t), X(t + 6)) /\ Leads(k, sp, X(t), X(t + 6))
             /\ Leads(k, index, X(t), X(t + 6)) /\ Leads(k, write, X(t), X(t + 6))
             /\ Leads(k, <<Half>>, X(t), X(t + 1))
             /\ Leads(k, Internal(1), X(t), X(t + 2)) /\ Leads(k, Internal(4), X(t), X(t + 8))
             /\ \A do \in {"run", "store", "fetch", "ei", "di", "im", "halt", "prefix", "retn"} :
                  Leads(k, End(do), X(t), Z(t + 1, do))
  BY <1>1, Pieces
<1>3. \A do \in {"run", "store"} : \A t \in Nat : Leads(k, <<Half, Then(Half, do)>>, X(t), Z(t + 2, do))
  <2> SUFFICES ASSUME NEW do \in {"run", "store"}, NEW t \in Nat
               PROVE  Leads(k, <<Half, Then(Half, do)>>, X(t), Z(t + 2, do))
    OBVIOUS
  <2>1. t + 1 \in Nat /\ (t + 1) + 1 = t + 2
    OBVIOUS
  <2>2. Leads(k, <<Half>>, X(t), X(t + 1)) /\ Leads(k, <<Then(Half, do)>>, X(t + 1), Z((t + 1) + 1, do))
    BY <1>2, <2>1
  <2> QED BY <2>1, <2>2, Two
<1>4. /\ Displacement = (index \o Internal(4)) \o <<Half, Then(Half, "run")>>
      /\ DisplacementN = ((index \o pc) \o Internal(1)) \o <<Half, Then(Half, "store")>>
      /\ IndexedStore = write \o End("fetch")
      /\ DdCbWrite = (Internal(1) \o write) \o End("fetch")
      /\ DdCbBit = Internal(1) \o End("fetch")
  BY DEF Displacement, DisplacementN, IndexedStore, DdCbWrite, DdCbBit
<1>5. /\ \A c \in {"ei", "di", "im", "halt", "prefix"} : Generated[c] = End(c)
      /\ Generated["op"] = End("fetch")
      /\ Generated["imm"] = pc \o End("fetch")
      /\ Generated["mem"] = ea \o End("fetch")
      /\ Generated["retn"] = (sp \o sp) \o End("retn")
      /\ Generated["storen"] = (pc \o write) \o End("fetch")
      /\ Generated["cbhl"] = ((ea \o Internal(1)) \o write) \o End("fetch")
      /\ Generated["bithl"] = (ea \o Internal(1)) \o End("fetch")
  <2>1. Generated["op"] = End("fetch") /\ Generated["imm"] = pc \o End("fetch") /\ Generated["mem"] = ea \o End("fetch")
    BY DEF Generated
  <2>2. Generated["retn"] = (sp \o sp) \o End("retn") /\ Generated["storen"] = (pc \o write) \o End("fetch")
    BY DEF Generated
  <2>3. Generated["cbhl"] = ((ea \o Internal(1)) \o write) \o End("fetch") /\ Generated["bithl"] = (ea \o Internal(1)) \o End("fetch")
    BY DEF Generated
  <2>4. Generated["ei"] = End("ei") /\ Generated["di"] = End("di") /\ Generated["im"] = End("im")
    BY DEF Generated
  <2>5. Generated["halt"] = End("halt") /\ Generated["prefix"] = End("prefix")
    BY DEF Generated
  <2> HIDE DEF pc, ea, sp, write, End
  <2> QED BY <2>1, <2>2, <2>3, <2>4, <2>5
<1>6. /\ \A c \in {"ei", "di", "im", "halt", "prefix"} : Lasting(c) = 1 /\ Closing(c) = c
      /\ Lasting("op") = 1 /\ Closing("op") = "fetch" /\ Lasting("imm") = 7 /\ Closing("imm") = "fetch"
      /\ Lasting("mem") = 7 /\ Closing("mem") = "fetch" /\ Lasting("retn") = 13 /\ Closing("retn") = "retn"
      /\ Lasting("storen") = 13 /\ Closing("storen") = "fetch" /\ Lasting("cbhl") = 15 /\ Closing("cbhl") = "fetch"
      /\ Lasting("bithl") = 9 /\ Closing("bithl") = "fetch"
  BY DEF Lasting, Closing, Fetches
<1> HIDE DEF X, Z, pc, ea, sp, index, write, End, k
<1>7. Leads(k, Displacement, X(0), Z(16, "run"))
  <2>1. Leads(k, index, X(0), X(6)) /\ Leads(k, Internal(4), X(6), X(14)) /\ Leads(k, <<Half, Then(Half, "run")>>, X(14), Z(16, "run"))
    BY <1>2, <1>3
  <2> QED BY <1>4, <2>1, Joined
<1>8. Leads(k, DisplacementN, X(0), Z(16, "store"))
  <2>1. Leads(k, index, X(0), X(6)) /\ Leads(k, pc, X(6), X(12)) /\ Leads(k, Internal(1), X(12), X(14))
        /\ Leads(k, <<Half, Then(Half, "store")>>, X(14), Z(16, "store"))
    BY <1>2, <1>3
  <2> QED BY <1>4, <2>1, Joined
<1>9. Leads(k, IndexedStore, X(0), Z(7, "fetch"))
  <2>1. Leads(k, write, X(0), X(6)) /\ Leads(k, End("fetch"), X(6), Z(7, "fetch"))
    BY <1>2
  <2> QED BY <1>4, <2>1, Joined
<1>10. Leads(k, DdCbWrite, X(0), Z(9, "fetch"))
  <2>1. Leads(k, Internal(1), X(0), X(2)) /\ Leads(k, write, X(2), X(8)) /\ Leads(k, End("fetch"), X(8), Z(9, "fetch"))
    BY <1>2
  <2> QED BY <1>4, <2>1, Joined
<1>11. Leads(k, DdCbBit, X(0), Z(3, "fetch"))
  <2>1. Leads(k, Internal(1), X(0), X(2)) /\ Leads(k, End("fetch"), X(2), Z(3, "fetch"))
    BY <1>2
  <2> QED BY <1>4, <2>1, Joined
<1>12. ASSUME NEW c \in Going
       PROVE  Leads(k, Generated[c], X(0), Z(Lasting(c), Closing(c)))
  <2>1. CASE c \in {"ei", "di", "im", "halt", "prefix"}
    <3>1. Leads(k, End(c), X(0), Z(1, c))
      BY <1>2, <2>1
    <3> QED BY <1>5, <1>6, <2>1, <3>1
  <2>2. CASE c = "op"
    <3>1. Leads(k, End("fetch"), X(0), Z(1, "fetch"))
      BY <1>2
    <3> QED BY <1>5, <1>6, <2>2, <3>1
  <2>3. CASE c \in {"imm", "mem"}
    <3>1. Leads(k, pc, X(0), X(6)) /\ Leads(k, ea, X(0), X(6)) /\ Leads(k, End("fetch"), X(6), Z(7, "fetch"))
      BY <1>2
    <3> QED BY <1>5, <1>6, <2>3, <3>1, Joined
  <2>4. CASE c = "retn"
    <3>1. Leads(k, sp, X(0), X(6)) /\ Leads(k, sp, X(6), X(12)) /\ Leads(k, End("retn"), X(12), Z(13, "retn"))
      BY <1>2
    <3> QED BY <1>5, <1>6, <2>4, <3>1, Joined
  <2>5. CASE c = "storen"
    <3>1. Leads(k, pc, X(0), X(6)) /\ Leads(k, write, X(6), X(12)) /\ Leads(k, End("fetch"), X(12), Z(13, "fetch"))
      BY <1>2
    <3> QED BY <1>5, <1>6, <2>5, <3>1, Joined
  <2>6. CASE c = "cbhl"
    <3>1. /\ Leads(k, ea, X(0), X(6)) /\ Leads(k, Internal(1), X(6), X(8)) /\ Leads(k, write, X(8), X(14))
          /\ Leads(k, End("fetch"), X(14), Z(15, "fetch"))
      BY <1>2
    <3> QED BY <1>5, <1>6, <2>6, <3>1, Joined
  <2>7. CASE c = "bithl"
    <3>1. /\ Leads(k, ea, X(0), X(6)) /\ Leads(k, Internal(1), X(6), X(8)) /\ Leads(k, End("fetch"), X(8), Z(9, "fetch"))
      BY <1>2
    <3> QED BY <1>5, <1>6, <2>7, <3>1, Joined
  <2> QED BY <2>1, <2>2, <2>3, <2>4, <2>5, <2>6, <2>7 DEF Going
<1> QED BY <1>7, <1>8, <1>9, <1>10, <1>11, <1>12 DEF X, Z, k

\* DD CB d op, which latches its last byte, and the cycles of an interrupt.
LEMMA LatchingLeads ==
  /\ Leads("suffix", DdCb, Track({}, 0, 0, 0, "on"), Track({}, 21, 0, 1, "act"))
  /\ Leads("interrupt", PushPc, Track({}, 0, 0, 0, "on"), Track({}, 12, 0, 0, "vector"))
  /\ Leads("interrupt", Vector, Track({}, 0, 0, 0, "on"), Track({}, 13, 0, 0, "fetch"))
  /\ Leads("interrupt", Arrive, Track({}, 0, 0, 0, "on"), Track({}, 1, 0, 0, "fetch"))
<1>1. /\ {"index", "suffix", "act", "push_high", "vector", "fetch"} \subseteq Dos \ Releasing
      /\ Does("suffix", "index") /\ Does("suffix", "suffix") /\ Does("suffix", "act")
      /\ Does("interrupt", "push_high") /\ Does("interrupt", "vector")
      /\ "act" \notin Latching /\ Byte("index") = 0 /\ Byte("suffix") = 1 /\ Byte("act") = 0 /\ Byte("push_high") = 0 /\ Byte("vector") = 0
      /\ On("index") = "on" /\ On("suffix") = "on" /\ On("act") = "act" /\ On("push_high") = "on" /\ On("vector") = "vector"
      /\ "suffix" \in Kinds /\ "interrupt" \in Kinds /\ "fetch" \in Ending \ Releasing
  BY DEF Dos, Releasing, Does, Byte, On, Latching, Ongoing, Ending, Kinds
<1>2. Leads("suffix", DdCb, Track({}, 0, 0, 0, "on"), Track({}, 21, 0, 1, "act"))
  <2>1. Leads("suffix", ReadLow("index"), Track({}, 0, 0, 0, "on"), Track({}, 0 + 5, 0, 0 + Byte("index"), On("index")))
    BY <1>1, ReadLeads
  <2>2. Leads("suffix", ReadShape("pc", "suffix"), Track({}, 5, 0, 0, "on"), Track({}, 5 + 6, 0, 0 + Byte("suffix"), On("suffix")))
    BY <1>1, ReadLeads
  <2>3. Leads("suffix", Internal(2), Track({}, 11, 0, 1, "on"), Track({}, 11 + 2 * 2, 0, 1, "on"))
    BY <1>1, InternalLeads
  <2>4. Leads("suffix", ReadShape("ea", "act"), Track({}, 15, 0, 1, "on"), Track({}, 15 + 6, 0, 1 + Byte("act"), On("act")))
    BY <1>1, ReadLeads
  <2>5. 0 + 5 = 5 /\ 0 + 0 = 0 /\ 5 + 6 = 11 /\ 0 + 1 = 1 /\ 11 + 2 * 2 = 15 /\ 15 + 6 = 21 /\ 1 + 0 = 1
    OBVIOUS
  <2>6. Leads("suffix", ReadLow("index"), Track({}, 0, 0, 0, "on"), Track({}, 5, 0, 0, "on"))
    BY <1>1, <2>1, <2>5
  <2>7. Leads("suffix", ReadShape("pc", "suffix"), Track({}, 5, 0, 0, "on"), Track({}, 11, 0, 1, "on"))
    BY <1>1, <2>2, <2>5
  <2>8. Leads("suffix", Internal(2), Track({}, 11, 0, 1, "on"), Track({}, 15, 0, 1, "on"))
    BY <2>3, <2>5
  <2>9. Leads("suffix", ReadShape("ea", "act"), Track({}, 15, 0, 1, "on"), Track({}, 21, 0, 1, "act"))
    BY <1>1, <2>4, <2>5
  <2>10. DdCb = ((ReadLow("index") \o ReadShape("pc", "suffix")) \o Internal(2)) \o ReadShape("ea", "act")
    BY DEF DdCb
  <2> QED BY <2>6, <2>7, <2>8, <2>9, <2>10, Joined
<1>3. Leads("interrupt", PushPc, Track({}, 0, 0, 0, "on"), Track({}, 12, 0, 0, "vector"))
  <2>1. Leads("interrupt", WriteShape("sp", "push_high"), Track({}, 0, 0, 0, "on"), Track({}, 0 + 6, 0, 0 + Byte("push_high"), On("push_high")))
    BY <1>1, WriteLeads
  <2>2. Leads("interrupt", WriteShape("sp", "vector"), Track({}, 6, 0, 0, "on"), Track({}, 6 + 6, 0, 0 + Byte("vector"), On("vector")))
    BY <1>1, WriteLeads
  <2>3. 0 + 6 = 6 /\ 0 + 0 = 0 /\ 6 + 6 = 12
    OBVIOUS
  <2>4. Leads("interrupt", WriteShape("sp", "push_high"), Track({}, 0, 0, 0, "on"), Track({}, 6, 0, 0, "on"))
    BY <1>1, <2>1, <2>3
  <2>5. Leads("interrupt", WriteShape("sp", "vector"), Track({}, 6, 0, 0, "on"), Track({}, 12, 0, 0, "vector"))
    BY <1>1, <2>2, <2>3
  <2> QED BY <2>4, <2>5, Joined DEF PushPc
<1>4. Leads("interrupt", Vector, Track({}, 0, 0, 0, "on"), Track({}, 13, 0, 0, "fetch"))
  <2>1. Leads("interrupt", VectorRead("next"), Track({}, 0, 0, 0, "on"), Track({}, 0 + 6, 0, 0, "on"))
    BY VectorLeads
  <2>2. Leads("interrupt", VectorRead("jump"), Track({}, 6, 0, 0, "on"), Track({}, 6 + 6, 0, 0, "on"))
    BY VectorLeads
  <2>3. Leads("interrupt", <<Then(Half, "fetch")>>, Track({}, 12, 0, 0, "on"), Track({}, 12 + 1, 0, 0, "fetch"))
    BY <1>1, Pieces
  <2>4. 0 + 6 = 6 /\ 6 + 6 = 12 /\ 12 + 1 = 13
    OBVIOUS
  <2>5. Vector = (VectorRead("next") \o VectorRead("jump")) \o <<Then(Half, "fetch")>>
    BY DEF Vector
  <2> QED BY <2>1, <2>2, <2>3, <2>4, <2>5, Joined
<1>5. Leads("interrupt", Arrive, Track({}, 0, 0, 0, "on"), Track({}, 1, 0, 0, "fetch"))
  <2>1. Leads("interrupt", <<Then(Half, "fetch")>>, Track({}, 0, 0, 0, "on"), Track({}, 0 + 1, 0, 0, "fetch"))
    BY <1>1, Pieces
  <2>2. 0 + 1 = 1
    OBVIOUS
  <2> QED BY <2>1, <2>2 DEF Arrive
<1> QED BY <1>2, <1>3, <1>4, <1>5

\* The two records of shapes, by name.
LEMMA Named ==
  /\ DOMAIN Shapes = Fetches \cup Indexing \cup Interrupting /\ DOMAIN Generated = Going
  /\ Cycle("PlainFetch") = PlainFetch /\ Cycle("EdFetch") = EdFetch /\ Cycle("CbFetch") = CbFetch
  /\ Cycle("DdFdFetch") = DdFdFetch /\ Cycle("Displacement") = Displacement
  /\ Cycle("DisplacementN") = DisplacementN /\ Cycle("IndexedStore") = IndexedStore
  /\ Cycle("DdCb") = DdCb /\ Cycle("DdCbWrite") = DdCbWrite /\ Cycle("DdCbBit") = DdCbBit
  /\ Cycle("Acknowledge") = Acknowledge /\ Cycle("Nmi") = Nmi /\ Cycle("PushPc") = PushPc
  /\ Cycle("Vector") = Vector /\ Cycle("Arrive") = Arrive
  /\ \A c \in Going : Cycle(c) = Generated[c]
<1>1. DOMAIN Shapes = Fetches \cup Indexing \cup Interrupting
  BY DEF Shapes, Fetches, Indexing, Interrupting
<1>2. DOMAIN Generated = Going
  BY DEF Generated, Going
<1>3. \A c \in Fetches \cup Indexing \cup Interrupting : Cycle(c) = Shapes[c]
  BY <1>1 DEF Cycle
<1>4. \A c \in Going : Cycle(c) = Generated[c]
  BY <1>1 DEF Cycle, Going, Fetches, Indexing, Interrupting
<1>5. Shapes["PlainFetch"] = PlainFetch /\ Shapes["EdFetch"] = EdFetch /\ Shapes["CbFetch"] = CbFetch /\ Shapes["DdFdFetch"] = DdFdFetch
  BY DEF Shapes
<1>6. Shapes["Displacement"] = Displacement /\ Shapes["DisplacementN"] = DisplacementN /\ Shapes["IndexedStore"] = IndexedStore
  BY DEF Shapes
<1>7. Shapes["DdCb"] = DdCb /\ Shapes["DdCbWrite"] = DdCbWrite /\ Shapes["DdCbBit"] = DdCbBit
  BY DEF Shapes
<1>8. Shapes["Acknowledge"] = Acknowledge /\ Shapes["Nmi"] = Nmi /\ Shapes["PushPc"] = PushPc /\ Shapes["Vector"] = Vector /\ Shapes["Arrive"] = Arrive
  BY DEF Shapes
<1> QED BY <1>1, <1>2, <1>3, <1>4, <1>5, <1>6, <1>7, <1>8 DEF Fetches, Indexing, Interrupting

\* The whole table.
LEMMA Table == ASSUME NEW c \in Cycles PROVE Leads(Kind(c), Cycle(c), Begins(c), Ends(c))
<1> USE DEF Kind, Begins, Ends, Interrupting, Refreshing, Fetches
<1>1. CASE c = "PlainFetch"
  <2>1. Leads("fetch", PlainFetch, Track({"M1"}, 0, 0, 0, "on"), Track({}, 7, 1, 1, "plain"))
    BY FetchLeads DEF PlainFetch
  <2> QED BY <1>1, <2>1, Named DEF Lasting, Closing
<1>2. CASE c = "EdFetch"
  <2>1. Leads("fetch", EdFetch, Track({"M1"}, 0, 0, 0, "on"), Track({}, 7, 1, 1, "ed"))
    BY FetchLeads DEF EdFetch
  <2> QED BY <1>2, <2>1, Named DEF Lasting, Closing
<1>3. CASE c = "CbFetch"
  <2>1. Leads("fetch", CbFetch, Track({"M1"}, 0, 0, 0, "on"), Track({}, 7, 1, 1, "cb"))
    BY FetchLeads DEF CbFetch
  <2> QED BY <1>3, <2>1, Named DEF Lasting, Closing
<1>4. CASE c = "DdFdFetch"
  <2>1. Leads("fetch", DdFdFetch, Track({"M1"}, 0, 0, 0, "on"), Track({}, 7, 1, 1, "ddfd"))
    BY FetchLeads DEF DdFdFetch
  <2> QED BY <1>4, <2>1, Named DEF Lasting, Closing
<1>5. CASE c = "Displacement"
  BY <1>5, GoingLead, Named DEF Lasting, Closing
<1>6. CASE c = "DisplacementN"
  BY <1>6, GoingLead, Named DEF Lasting, Closing
<1>7. CASE c = "IndexedStore"
  BY <1>7, GoingLead, Named DEF Lasting, Closing
<1>8. CASE c = "DdCb"
  BY <1>8, LatchingLeads, Named DEF Lasting, Closing
<1>9. CASE c = "DdCbWrite"
  BY <1>9, GoingLead, Named DEF Lasting, Closing
<1>10. CASE c = "DdCbBit"
  BY <1>10, GoingLead, Named DEF Lasting, Closing
<1>11. CASE c = "Acknowledge"
  BY <1>11, AcknowledgeLeads, Named DEF Lasting, Closing
<1>12. CASE c = "Nmi"
  BY <1>12, NmiLeads, Named DEF Lasting, Closing
<1>13. CASE c = "PushPc"
  BY <1>13, LatchingLeads, Named DEF Lasting, Closing
<1>14. CASE c = "Vector"
  BY <1>14, LatchingLeads, Named DEF Lasting, Closing
<1>15. CASE c = "Arrive"
  BY <1>15, LatchingLeads, Named DEF Lasting, Closing
<1>16. CASE c \in Going
  <2>1. Kind(c) = "program" /\ c \notin Refreshing /\ c \notin Fetches \cup {"DdCb", "Acknowledge"}
    BY <1>16 DEF Going
  <2>2. Begins(c) = Track({}, 0, 0, 0, "on") /\ Ends(c) = Track({}, Lasting(c), 0, 0, Closing(c))
    BY <2>1
  <2> QED BY <1>16, <2>1, <2>2, GoingLead, Named
<1> QED BY <1>1, <1>2, <1>3, <1>4, <1>5, <1>6, <1>7, <1>8, <1>9, <1>10, <1>11, <1>12, <1>13, <1>14, <1>15, <1>16
        DEF Cycles, Indexing

\* The first half-clock of a fetch does not wait.
LEMMA FirstWaitsNot == \A c \in {"PlainFetch", "Acknowledge", "Nmi"} : ~Cycle(c)[1].wait
<1>1. PlainFetch[1] = Raise({"MREQ", "RD"})
  BY DEF PlainFetch, FetchShape, Refresh
<1>2. Nmi[1] = Raise({"MREQ", "RD"})
  BY DEF Nmi, Refresh
<1>3. Acknowledge[1] = Then(Half, "accept")
  BY DEF Acknowledge, AcknowledgeShape, Refresh
<1>4. ~Raise({"MREQ", "RD"}).wait /\ ~Then(Half, "accept").wait
  BY DEF Raise, Then, Half
<1> QED BY <1>1, <1>2, <1>3, <1>4, Named

-----------------------------------------------------------------------------
(* What holds between two half-clocks.                                     *)

\* The CPU's type: whatever bytes have been seen, and PC's whatever they are.
AllOps == Opcodes \cup EdOpcodes \cup CbOpcodes \cup DdCbOpcodes
Words == AllOps \cup {"int", "nmi"}
Spents == [what : Seq(Words), halves : Int, refreshed : Int]
Cpus ==
  [step : [cycle : Cycles, half : Nat \ {0}], pins : SUBSET Lines, addr : {"pc", "sp", "ea", "wz", "ir"},
   opcode : AllOps, prefix_active : BOOLEAN, hlx : BOOLEAN,
   halted : BOOLEAN, iff1 : BOOLEAN, iff2 : BOOLEAN, im : 0..2,
   nmi_level : BOOLEAN, nmi_pending : BOOLEAN, nmi_ack : BOOLEAN,
   im0_pc_hold : BOOLEAN, rfsh_release : BOOLEAN, pc : Int, pushed : Int,
   bytes : Int, spent : Spents, over : Spents]

\* Where the table is after half of a cycle's half-clocks.
Place(cycle) == CHOOSE ps : Through(Kind(cycle), Cycle(cycle), ps, Begins(cycle), Ends(cycle))
Where(step) == Place(step.cycle)[step.half]

\* The lines once RFSH is let go.
Up(c) == c.pins \ (IF c.rfsh_release THEN {"RFSH"} ELSE {})

\* The CPU is where the table says it is, its lines with it.
Placed(c) == c.step.half \in 1..Len(Cycle(c.step.cycle)) /\ Up(c) = Where(c.step).lines

\* PC is past the bytes used and nothing else, and an interrupt uses none.
AtHome(c) ==
  /\ c.pc = c.bytes /\ c.pushed = 0
  /\ c.step.cycle \in Interrupting => c.bytes = 0
  /\ c.step.cycle = "PlainFetch" /\ c.step.half = 1 => c.pc = IF c.halted THEN 0 ELSE 1

\* The words of an instruction: whether it began with an interrupt, how many of
\* them are opcodes, the half-clocks they took, whether the last one is
\* indexed, and the cycle an opcode goes on with.
Ints(w) == Len(w) # 0 /\ w[1] = "int"
Count(w) == IF Ints(w) THEN Len(w) - 1 ELSE Len(w)
Opened(w) == 8 * Count(w) + (IF Ints(w) THEN 4 ELSE 0)
Indexed(w) == Len(w) > 1 /\ w[Len(w) - 1] = "DD"
Goes(op) == IF op \in PrefixBytes THEN "prefix" ELSE IF op \in {"im0", "im1", "im2"} THEN "im" ELSE op

\* In a cycle that has latched b bytes the words seen are w: the opcodes of the
\* program so far, or those of an interrupt.
Fetching(cycle, b, w) ==
  LET n == Len(w)
  IN /\ cycle = "PlainFetch" => n = b /\ (b = 1 => w[1] \in Opcodes)
     /\ cycle = "EdFetch" => n > b /\ w[n - b] = "ED" /\ (b = 1 => w[n] \in EdOpcodes \cup {"halt"})
     /\ cycle = "CbFetch" => n > b /\ w[n - b] = "CB" /\ (b = 1 => w[n] \in CbOpcodes \cup {"halt"})
     /\ cycle = "DdFdFetch" => n > b /\ w[n - b] = "DD" /\ (b = 1 => w[n] \in Opcodes)
     /\ cycle = "DdCb" =>
          n - b > 1 /\ w[n - b] = "CB" /\ w[n - b - 1] = "DD" /\ (b = 1 => w[n] \in DdCbOpcodes)
Working(cycle, w) ==
  LET n == Len(w)
  IN /\ cycle = "DdCbWrite" => Count(w) > 2 /\ w[n] = "rot"
     /\ cycle = "DdCbBit" => Count(w) > 2 /\ w[n] = "bit"
     /\ cycle = "Displacement" => Indexed(w) /\ w[n] = "mem"
     /\ cycle \in {"DisplacementN", "IndexedStore"} => Indexed(w) /\ w[n] = "storen"
     /\ cycle \in Going =>
          \/ n = 0 /\ cycle = "op"
          \/ n > 0 /\ w[n] \in AllOps \ DdCbOpcodes /\ cycle = Goes(w[n]) /\ ~(w[n] = "storen" /\ Indexed(w))
Answering(cycle, b, w, im, ack) ==
  /\ cycle = "Acknowledge" =>
       IF b = 0 THEN w = <<"int">>
       ELSE (im = 1 /\ w = <<"int", "im1">>) \/ (im = 2 /\ w = <<"int", "im2">>)
  /\ cycle = "Nmi" => w = <<"nmi">> /\ ack
  /\ cycle = "PushPc" =>
       \/ w = <<"nmi">> /\ ack
       \/ im = 1 /\ w = <<"int", "im1">> /\ ~ack
       \/ im = 2 /\ w = <<"int", "im2">> /\ ~ack
  /\ cycle = "Vector" => w = <<"int", "im2">>
  /\ cycle = "Arrive" => w = <<"nmi">> \/ w = <<"int", "im1">>
  /\ ack => cycle \in {"Nmi", "PushPc", "Arrive"} /\ w = <<"nmi">>
Running(cycle, w, op, hlx) ==
  /\ cycle \notin Interrupting /\ Len(w) # 0 =>
       op = w[Len(w)] /\ w[1] # "nmi" /\ (w[1] = "int" => Len(w) > 1 /\ w[2] \notin {"im1", "im2"})
  /\ hlx => cycle \in {"DdFdFetch"} \cup Indexing \/ (cycle \in Going /\ Indexed(w))

Told(c) ==
  LET b == Where(c.step).b
      w == c.spent.what
  IN /\ b \in {0, 1}
     /\ Fetching(c.step.cycle, b, w) /\ Working(c.step.cycle, w)
     /\ Answering(c.step.cycle, b, w, c.im, c.nmi_ack)
     /\ Running(c.step.cycle, w, c.opcode, c.hlx)

\* Half-clocks and refreshes before the cycle began.
Since(cycle, b, w) ==
  CASE cycle \in {"PlainFetch", "Acknowledge", "Nmi"} -> 1
    [] cycle \in {"EdFetch", "CbFetch", "DdFdFetch", "DdCb"} -> Opened(w) - 8 * b + 1
    [] cycle \in {"DdCbWrite", "DdCbBit"} -> Opened(w) + 14
    [] cycle = "PushPc" -> IF w[1] = "nmi" THEN 10 ELSE 14
    [] cycle = "Vector" -> 26
    [] cycle = "Arrive" -> IF w[1] = "nmi" THEN 22 ELSE 26
    [] cycle = "IndexedStore" -> Opened(w) + 16
    [] cycle = "mem" -> Opened(w) + (IF Indexed(w) THEN 16 ELSE 0)
    [] OTHER -> Opened(w)
Before(cycle, b, w) ==
  CASE cycle \in {"PlainFetch", "Acknowledge", "Nmi"} -> 0
    [] cycle \in {"EdFetch", "CbFetch", "DdFdFetch", "DdCb"} -> Count(w) - b
    [] cycle \in {"DdCbWrite", "DdCbBit"} -> Count(w) - 1
    [] cycle \in {"PushPc", "Vector", "Arrive"} -> 1
    [] OTHER -> Count(w)

Counted(c) ==
  LET p == Where(c.step)
      w == c.spent.what
  IN \/ w = <<>> /\ c.step.cycle = "op"
     \/ /\ c.spent.halves = Since(c.step.cycle, p.b, w) + p.t
        /\ c.spent.refreshed = Before(c.step.cycle, p.b, w) + p.r

\* What an instruction came to is what is published of it.
Comes(s) ==
  s.what # <<>> => s.halves = 2 * Published(s.what).t /\ s.refreshed = Published(s.what).r

\* The invariant.
Inv(c) == c \in Cpus /\ Placed(c) /\ AtHome(c) /\ Told(c) /\ Counted(c) /\ Comes(c.over)

-----------------------------------------------------------------------------
(* The operations, field by field.                                         *)

\* All a CPU keeps but where its step is.
Stays(e, c) ==
  /\ e.pins = c.pins /\ e.addr = c.addr /\ e.opcode = c.opcode /\ e.prefix_active = c.prefix_active
  /\ e.hlx = c.hlx /\ e.halted = c.halted /\ e.iff1 = c.iff1 /\ e.iff2 = c.iff2 /\ e.im = c.im
  /\ e.nmi_level = c.nmi_level /\ e.nmi_pending = c.nmi_pending /\ e.nmi_ack = c.nmi_ack
  /\ e.im0_pc_hold = c.im0_pc_hold /\ e.rfsh_release = c.rfsh_release /\ e.pc = c.pc /\ e.pushed = c.pushed
  /\ e.bytes = c.bytes /\ e.spent = c.spent /\ e.over = c.over

\* To moves the step and nothing else.
LEMMA ToIs ==
  ASSUME NEW c \in Cpus, NEW cycle \in Cycles
  PROVE  To(c, cycle) \in Cpus /\ To(c, cycle).step = [cycle |-> cycle, half |-> 1] /\ Stays(To(c, cycle), c)
<1> DEFINE s == [cycle |-> cycle, half |-> 1]
<1>1. s \in [cycle : Cycles, half : Nat \ {0}]
  OBVIOUS
<1>2. To(c, cycle) = [c EXCEPT !.step = s]
  BY DEF To
<1> HIDE DEF s
<1>3. [c EXCEPT !.step = s] \in Cpus /\ [c EXCEPT !.step = s].step = s
  BY <1>1 DEF Cpus
<1>4. Stays([c EXCEPT !.step = s], c)
  BY DEF Cpus, Stays
<1> QED BY <1>2, <1>3, <1>4 DEF s

\* And so does Onward.
LEMMA OnwardIs ==
  ASSUME NEW c \in Cpus
  PROVE  /\ Onward(c) \in Cpus /\ Onward(c).step = [cycle |-> c.step.cycle, half |-> c.step.half + 1]
         /\ Stays(Onward(c), c)
<1> DEFINE s == [cycle |-> c.step.cycle, half |-> c.step.half + 1]
<1>1. c.step \in [cycle : Cycles, half : Nat \ {0}]
  BY DEF Cpus
<1>2. [c.step EXCEPT !.half = @ + 1] = s
  BY <1>1
<1>3. s \in [cycle : Cycles, half : Nat \ {0}]
  BY <1>1
<1>4. Onward(c) = [c EXCEPT !.step = [c.step EXCEPT !.half = @ + 1]]
  BY DEF Onward
<1> HIDE DEF s
<1>5. [c EXCEPT !.step = s] \in Cpus /\ [c EXCEPT !.step = s].step = s
  BY <1>3 DEF Cpus
<1>6. Stays([c EXCEPT !.step = s], c)
  BY DEF Cpus, Stays
<1> QED BY <1>2, <1>4, <1>5, <1>6 DEF s

\* What a half-clock keeps before it does what its name says.
Keeps(e, c) ==
  /\ e.step = c.step /\ e.opcode = c.opcode /\ e.hlx = c.hlx /\ e.halted = c.halted
  /\ e.im = c.im /\ e.nmi_ack = c.nmi_ack /\ e.pushed = c.pushed

\* What is sampled before anything runs.
LEMMA SampledIs ==
  ASSUME NEW c \in Cpus, NEW nmi \in BOOLEAN
  PROVE  LET e == Sampled(c, nmi)
         IN /\ e \in Cpus /\ Keeps(e, c) /\ e.pins = Up(c) /\ e.rfsh_release = FALSE /\ e.addr = c.addr
            /\ e.pc = c.pc /\ e.bytes = c.bytes /\ e.spent = c.spent /\ e.over = c.over
<1> DEFINE E(p, L) == [c EXCEPT !.nmi_pending = p, !.nmi_level = nmi, !.pins = L, !.rfsh_release = FALSE]
           q == c.nmi_pending \/ (nmi /\ ~c.nmi_level)
<1>1. ASSUME NEW p \in BOOLEAN, NEW L \in SUBSET Lines
      PROVE  /\ E(p, L) \in Cpus /\ Keeps(E(p, L), c)
             /\ E(p, L).pins = L /\ E(p, L).rfsh_release = FALSE /\ E(p, L).addr = c.addr
             /\ E(p, L).pc = c.pc /\ E(p, L).bytes = c.bytes /\ E(p, L).spent = c.spent /\ E(p, L).over = c.over
  <2>1. E(p, L) \in Cpus
    BY DEF Cpus
  <2>2. Keeps(E(p, L), c)
    BY DEF Cpus, Keeps
  <2>3. E(p, L).pins = L /\ E(p, L).rfsh_release = FALSE /\ E(p, L).addr = c.addr
    BY DEF Cpus
  <2>4. E(p, L).pc = c.pc /\ E(p, L).bytes = c.bytes /\ E(p, L).spent = c.spent /\ E(p, L).over = c.over
    BY DEF Cpus
  <2> HIDE DEF E
  <2> QED BY <2>1, <2>2, <2>3, <2>4
<1>2. q \in BOOLEAN /\ Up(c) \in SUBSET Lines
  BY DEF Cpus, Up
<1>3. Up(c) = IF c.rfsh_release THEN c.pins \ {"RFSH"} ELSE c.pins
  BY DEF Cpus, Up
<1>4. Sampled(c, nmi) = E(q, Up(c))
  BY <1>3 DEF Sampled
<1> HIDE DEF q, E
<1>5. /\ E(q, Up(c)) \in Cpus /\ Keeps(E(q, Up(c)), c)
      /\ E(q, Up(c)).pins = Up(c) /\ E(q, Up(c)).rfsh_release = FALSE /\ E(q, Up(c)).addr = c.addr
      /\ E(q, Up(c)).pc = c.pc /\ E(q, Up(c)).bytes = c.bytes /\ E(q, Up(c)).spent = c.spent
      /\ E(q, Up(c)).over = c.over
  BY <1>1, <1>2, Zenon
<1> QED BY <1>4, <1>5, Zenon

\* The history, one field at a time.
LEMMA SpentsAre ==
  ASSUME NEW s \in Spents
  PROVE  /\ [s EXCEPT !.halves = s.halves + 1] = [what |-> s.what, halves |-> s.halves + 1, refreshed |-> s.refreshed]
         /\ [s EXCEPT !.halves = s.halves + 1] \in Spents
         /\ [s EXCEPT !.halves = s.halves - 1] = [what |-> s.what, halves |-> s.halves - 1, refreshed |-> s.refreshed]
         /\ [s EXCEPT !.halves = s.halves - 1] \in Spents
         /\ \A i \in {0, 1} :
              /\ [s EXCEPT !.refreshed = s.refreshed + i] = [what |-> s.what, halves |-> s.halves, refreshed |-> s.refreshed + i]
              /\ [s EXCEPT !.refreshed = s.refreshed + i] \in Spents
  BY DEF Spents

\* And the words of it.
LEMMA WhatIs ==
  ASSUME NEW s \in Spents, NEW w \in Seq(Words)
  PROVE  /\ [s EXCEPT !.what = w] = [what |-> w, halves |-> s.halves, refreshed |-> s.refreshed]
         /\ [s EXCEPT !.what = w] \in Spents
  BY DEF Spents

\* An empty one.
LEMMA NothingIs == Nothing \in Spents /\ Nothing.what = <<>>
  BY DEF Nothing, Spents

\* A half-clock is counted.
LEMMA SpendIs ==
  ASSUME NEW c \in Cpus
  PROVE  LET d == [c EXCEPT !.spent.halves = @ + 1, !.over = Nothing]
         IN /\ d \in Cpus /\ Keeps(d, c) /\ d.pins = c.pins /\ d.rfsh_release = c.rfsh_release /\ d.addr = c.addr
            /\ d.pc = c.pc /\ d.bytes = c.bytes /\ d.over = Nothing
            /\ d.spent = [what |-> c.spent.what, halves |-> c.spent.halves + 1, refreshed |-> c.spent.refreshed]
<1> DEFINE E(s, o) == [c EXCEPT !.spent = s, !.over = o]
           s == [c.spent EXCEPT !.halves = c.spent.halves + 1]
<1>1. ASSUME NEW t \in Spents, NEW o \in Spents
      PROVE  /\ E(t, o) \in Cpus /\ Keeps(E(t, o), c) /\ E(t, o).pins = c.pins /\ E(t, o).rfsh_release = c.rfsh_release
             /\ E(t, o).addr = c.addr /\ E(t, o).pc = c.pc /\ E(t, o).bytes = c.bytes /\ E(t, o).over = o
             /\ E(t, o).spent = t
  <2>1. E(t, o) \in Cpus
    BY DEF Cpus
  <2>2. Keeps(E(t, o), c)
    BY DEF Cpus, Keeps
  <2>3. E(t, o).pins = c.pins /\ E(t, o).rfsh_release = c.rfsh_release /\ E(t, o).addr = c.addr
    BY DEF Cpus
  <2>4. E(t, o).pc = c.pc /\ E(t, o).bytes = c.bytes /\ E(t, o).over = o /\ E(t, o).spent = t
    BY DEF Cpus
  <2> HIDE DEF E
  <2> QED BY <2>1, <2>2, <2>3, <2>4
<1>2. [c EXCEPT !.spent.halves = @ + 1, !.over = Nothing] = E(s, Nothing)
  OBVIOUS
<1>3. c.spent \in Spents
  BY DEF Cpus
<1>4. s \in Spents
  BY <1>3, SpentsAre
<1>5. s = [what |-> c.spent.what, halves |-> c.spent.halves + 1, refreshed |-> c.spent.refreshed]
  BY <1>3, SpentsAre
<1> HIDE DEF s, E
<1>6. /\ E(s, Nothing) \in Cpus /\ Keeps(E(s, Nothing), c) /\ E(s, Nothing).pins = c.pins
      /\ E(s, Nothing).rfsh_release = c.rfsh_release /\ E(s, Nothing).addr = c.addr /\ E(s, Nothing).pc = c.pc
      /\ E(s, Nothing).bytes = c.bytes /\ E(s, Nothing).over = Nothing /\ E(s, Nothing).spent = s
  BY <1>1, <1>4, NothingIs
<1> QED BY <1>2, <1>6, <1>5, Zenon

\* PC and the bytes used go up together or not at all.
LEMMA PcPostIncIs ==
  ASSUME NEW c \in Cpus
  PROVE  LET e == PcPostInc(c)
         IN /\ e \in Cpus /\ e.step = c.step /\ e.pins = c.pins /\ e.addr = c.addr /\ e.opcode = c.opcode
            /\ e.prefix_active = c.prefix_active /\ e.hlx = c.hlx /\ e.halted = c.halted /\ e.iff1 = c.iff1
            /\ e.iff2 = c.iff2 /\ e.im = c.im /\ e.nmi_level = c.nmi_level /\ e.nmi_pending = c.nmi_pending
            /\ e.nmi_ack = c.nmi_ack /\ e.im0_pc_hold = c.im0_pc_hold /\ e.rfsh_release = c.rfsh_release
            /\ e.pushed = c.pushed /\ e.spent = c.spent /\ e.over = c.over
            /\ e.pc - e.bytes = c.pc - c.bytes
            /\ c.im0_pc_hold \/ c.halted => e.pc = c.pc
            /\ ~(c.im0_pc_hold \/ c.halted) => e.pc = c.pc + 1
<1>1. CASE c.im0_pc_hold \/ c.halted
  BY <1>1 DEF PcPostInc
<1>2. CASE ~(c.im0_pc_hold \/ c.halted)
  <2> DEFINE E(p, b) == [c EXCEPT !.pc = p, !.bytes = b]
  <2>1. PcPostInc(c) = E(c.pc + 1, c.bytes + 1)
    BY <1>2 DEF PcPostInc
  <2>2. c.pc \in Int /\ c.bytes \in Int
    BY DEF Cpus
  <2>3. ASSUME NEW p \in Int, NEW b \in Int
        PROVE  /\ E(p, b) \in Cpus /\ E(p, b).pc = p /\ E(p, b).bytes = b
               /\ E(p, b).step = c.step /\ E(p, b).pins = c.pins /\ E(p, b).addr = c.addr /\ E(p, b).opcode = c.opcode
               /\ E(p, b).prefix_active = c.prefix_active /\ E(p, b).hlx = c.hlx /\ E(p, b).halted = c.halted
               /\ E(p, b).iff1 = c.iff1 /\ E(p, b).iff2 = c.iff2 /\ E(p, b).im = c.im
               /\ E(p, b).nmi_level = c.nmi_level /\ E(p, b).nmi_pending = c.nmi_pending
               /\ E(p, b).nmi_ack = c.nmi_ack /\ E(p, b).im0_pc_hold = c.im0_pc_hold
               /\ E(p, b).rfsh_release = c.rfsh_release /\ E(p, b).pushed = c.pushed
               /\ E(p, b).spent = c.spent /\ E(p, b).over = c.over
    <3>1. E(p, b) \in Cpus
      BY DEF Cpus
    <3>2. E(p, b).pc = p /\ E(p, b).bytes = b
      BY DEF Cpus
    <3>3. /\ E(p, b).step = c.step /\ E(p, b).pins = c.pins /\ E(p, b).addr = c.addr /\ E(p, b).opcode = c.opcode
          /\ E(p, b).prefix_active = c.prefix_active /\ E(p, b).hlx = c.hlx /\ E(p, b).halted = c.halted
          /\ E(p, b).iff1 = c.iff1 /\ E(p, b).iff2 = c.iff2 /\ E(p, b).im = c.im
      BY DEF Cpus
    <3>4. /\ E(p, b).nmi_level = c.nmi_level /\ E(p, b).nmi_pending = c.nmi_pending
          /\ E(p, b).nmi_ack = c.nmi_ack /\ E(p, b).im0_pc_hold = c.im0_pc_hold
          /\ E(p, b).rfsh_release = c.rfsh_release /\ E(p, b).pushed = c.pushed
          /\ E(p, b).spent = c.spent /\ E(p, b).over = c.over
      BY DEF Cpus
    <3> HIDE DEF E
    <3> QED BY <3>1, <3>2, <3>3, <3>4
  <2> HIDE DEF E
  <2>4. c.pc + 1 \in Int /\ c.bytes + 1 \in Int /\ (c.pc + 1) - (c.bytes + 1) = c.pc - c.bytes
    BY <2>2
  <2> DEFINE d == E(c.pc + 1, c.bytes + 1)
  <2>5. d \in Cpus /\ d.pc = c.pc + 1 /\ d.bytes = c.bytes + 1
    BY <2>3, <2>4
  <2>6. /\ d.step = c.step /\ d.pins = c.pins /\ d.addr = c.addr /\ d.opcode = c.opcode
        /\ d.prefix_active = c.prefix_active /\ d.hlx = c.hlx /\ d.halted = c.halted
        /\ d.iff1 = c.iff1 /\ d.iff2 = c.iff2 /\ d.im = c.im
        /\ d.nmi_level = c.nmi_level /\ d.nmi_pending = c.nmi_pending
        /\ d.nmi_ack = c.nmi_ack /\ d.im0_pc_hold = c.im0_pc_hold
        /\ d.rfsh_release = c.rfsh_release /\ d.pushed = c.pushed
        /\ d.spent = c.spent /\ d.over = c.over
    BY <2>3, <2>4
  <2> HIDE DEF d
  <2>7. d.pc - d.bytes = c.pc - c.bytes
    BY <2>4, <2>5
  <2>8. PcPostInc(c) = d
    BY <2>1 DEF d
  <2> QED BY <1>2, <2>5, <2>6, <2>7, <2>8
<1> QED BY <1>1, <1>2

\* The half-clock's own lines, address and time: what run is of the CPU sampled.
LEMMA DrivesIs ==
  ASSUME NEW c \in Cpus, NEW h \in Halves
  PROVE  LET e == Drives(c, h)
         IN /\ e \in Cpus /\ Keeps(e, c) /\ e.pins = Driven(c.pins, h) /\ e.rfsh_release = c.rfsh_release
            /\ e.addr = (IF h.addr = "same" THEN c.addr ELSE h.addr) /\ e.over = c.over
            /\ e.pc - e.bytes = c.pc - c.bytes /\ (h.addr # "pc" => e.pc = c.pc)
            /\ e.spent = [what |-> c.spent.what, halves |-> c.spent.halves,
                          refreshed |-> c.spent.refreshed + (IF h.addr = "ir" THEN 1 ELSE 0)]
<1> DEFINE p == IF h.addr = "pc" THEN PcPostInc(c) ELSE c
           E(L, a, s) == [p EXCEPT !.pins = L, !.addr = a, !.spent = s]
           L == Driven(c.pins, h)
           a == IF h.addr = "same" THEN c.addr ELSE h.addr
           i == IF h.addr = "ir" THEN 1 ELSE 0
           s == [c.spent EXCEPT !.refreshed = c.spent.refreshed + i]
<1>1. p \in Cpus /\ Keeps(p, c) /\ p.pins = c.pins /\ p.rfsh_release = c.rfsh_release /\ p.addr = c.addr
      /\ p.over = c.over /\ p.spent = c.spent /\ p.pc - p.bytes = c.pc - c.bytes /\ (h.addr # "pc" => p.pc = c.pc)
  <2>1. CASE h.addr = "pc"
    BY <2>1, PcPostIncIs DEF Keeps
  <2>2. CASE h.addr # "pc"
    BY <2>2 DEF Keeps
  <2> QED BY <2>1, <2>2
<1>2. Drives(c, h) = [p EXCEPT !.pins = (p.pins \ h.drop) \cup h.raise,
                               !.addr = IF h.addr = "same" THEN p.addr ELSE h.addr, !.spent.refreshed = @ + i]
  BY DEF Drives
<1> HIDE DEF p
<1>3. c.pins \in SUBSET Lines /\ c.addr \in {"pc", "sp", "ea", "wz", "ir"} /\ c.spent \in Spents
      /\ h.drop \in SUBSET Lines /\ h.raise \in SUBSET Lines /\ h.addr \in {"same", "pc", "sp", "ea", "wz", "ir"}
  BY DEF Cpus, Halves
<1>4. L \in SUBSET Lines /\ L = (p.pins \ h.drop) \cup h.raise
  BY <1>1, <1>3 DEF Driven
<1>5. a \in {"pc", "sp", "ea", "wz", "ir"} /\ a = IF h.addr = "same" THEN p.addr ELSE h.addr
  BY <1>1, <1>3
<1>6. i \in {0, 1}
  OBVIOUS
<1>7. s \in Spents /\ s = [what |-> c.spent.what, halves |-> c.spent.halves, refreshed |-> c.spent.refreshed + i]
  <2> HIDE DEF i
  <2> QED BY <1>3, <1>6, SpentsAre
<1>8. Drives(c, h) = E(L, a, s)
  <2>1. [p EXCEPT !.pins = L, !.addr = a, !.spent.refreshed = @ + i] = E(L, a, [p.spent EXCEPT !.refreshed = p.spent.refreshed + i])
    <3> HIDE DEF i, L, a
    <3> QED OBVIOUS
  <2>2. [p.spent EXCEPT !.refreshed = p.spent.refreshed + i] = s
    <3> HIDE DEF i
    <3> QED BY <1>1
  <2>3. Drives(c, h) = [p EXCEPT !.pins = L, !.addr = a, !.spent.refreshed = @ + i]
    <3> HIDE DEF i, L, a
    <3> QED BY <1>2, <1>4, <1>5
  <2> HIDE DEF i, L, a, s, E
  <2> QED BY <2>1, <2>2, <2>3
<1> HIDE DEF L, a, s
<1> DEFINE e == E(L, a, s)
<1>9. L \in SUBSET Lines /\ a \in {"pc", "sp", "ea", "wz", "ir"} /\ s \in Spents
  BY <1>4, <1>5, <1>7
<1>10. /\ e \in Cpus /\ Keeps(e, p) /\ e.pins = L /\ e.rfsh_release = p.rfsh_release /\ e.addr = a /\ e.over = p.over
       /\ e.pc = p.pc /\ e.bytes = p.bytes /\ e.spent = s
  <2>1. e \in Cpus
    BY <1>1, <1>9 DEF Cpus
  <2>2. Keeps(e, p)
    BY <1>1, <1>9 DEF Cpus, Keeps
  <2>3. e.pins = L /\ e.rfsh_release = p.rfsh_release /\ e.addr = a
    BY <1>1, <1>9 DEF Cpus
  <2>4. e.over = p.over /\ e.pc = p.pc /\ e.bytes = p.bytes /\ e.spent = s
    BY <1>1, <1>9 DEF Cpus
  <2> HIDE DEF e
  <2> QED BY <2>1, <2>2, <2>3, <2>4
<1> HIDE DEF e
<1>11. Keeps(e, c)
  BY <1>1, <1>10 DEF Keeps
<1>12. e.addr = (IF h.addr = "same" THEN c.addr ELSE h.addr) /\ e.pins = Driven(c.pins, h)
  BY <1>10 DEF a, L
<1>13. e.rfsh_release = c.rfsh_release
  BY <1>1, <1>10, Zenon
<1>14. e.over = c.over /\ e.pc - e.bytes = c.pc - c.bytes /\ (h.addr # "pc" => e.pc = c.pc)
  BY <1>1, <1>10
<1>15. Drives(c, h) = e
  BY <1>8 DEF e
<1> QED BY <1>7, <1>10, <1>11, <1>12, <1>13, <1>14, <1>15, Zenon

\* One half-clock of c that does not wait, r of it before it does what h says.
Ran(c, r, h) ==
  /\ r \in Cpus /\ Keeps(r, c) /\ r.pins = Driven(Up(c), h) /\ r.rfsh_release = FALSE
  /\ r.addr = (IF h.addr = "same" THEN c.addr ELSE h.addr) /\ r.over = Nothing
  /\ r.pc - r.bytes = c.pc - c.bytes /\ (h.addr # "pc" => r.pc = c.pc)
  /\ r.spent = [what |-> c.spent.what, halves |-> c.spent.halves + 1,
                refreshed |-> c.spent.refreshed + (IF h.addr = "ir" THEN 1 ELSE 0)]

\* A half-clock of the table drives what it says, after the sampling.
LEMMA RunIs ==
  ASSUME NEW c \in Cpus, NEW nmi \in BOOLEAN, NEW h \in Halves
  PROVE  Ran(c, Drives([Sampled(c, nmi) EXCEPT !.spent.halves = @ + 1, !.over = Nothing], h), h)
<1> DEFINE a == Sampled(c, nmi)
           b == [a EXCEPT !.spent.halves = @ + 1, !.over = Nothing]
           r == Drives(b, h)
<1>1. /\ a \in Cpus /\ Keeps(a, c) /\ a.pins = Up(c) /\ a.rfsh_release = FALSE /\ a.addr = c.addr
      /\ a.pc = c.pc /\ a.bytes = c.bytes /\ a.spent = c.spent
  BY SampledIs
<1> HIDE DEF a
<1>2. /\ b \in Cpus /\ Keeps(b, a) /\ b.pins = a.pins /\ b.rfsh_release = a.rfsh_release /\ b.addr = a.addr
      /\ b.pc = a.pc /\ b.bytes = a.bytes /\ b.over = Nothing
      /\ b.spent = [what |-> a.spent.what, halves |-> a.spent.halves + 1, refreshed |-> a.spent.refreshed]
  BY <1>1, SpendIs
<1> HIDE DEF b
<1>3. /\ r \in Cpus /\ Keeps(r, b) /\ r.pins = Driven(b.pins, h) /\ r.rfsh_release = b.rfsh_release
      /\ r.addr = (IF h.addr = "same" THEN b.addr ELSE h.addr) /\ r.over = b.over
      /\ r.pc - r.bytes = b.pc - b.bytes /\ (h.addr # "pc" => r.pc = b.pc)
      /\ r.spent = [what |-> b.spent.what, halves |-> b.spent.halves,
                    refreshed |-> b.spent.refreshed + (IF h.addr = "ir" THEN 1 ELSE 0)]
  BY <1>2, DrivesIs
<1> HIDE DEF r
<1>4. Keeps(r, c)
  BY <1>1, <1>2, <1>3 DEF Keeps
<1>5. r.pins = Driven(Up(c), h) /\ r.addr = (IF h.addr = "same" THEN c.addr ELSE h.addr) /\ r.over = Nothing
  BY <1>1, <1>2, <1>3
<1>6. r.rfsh_release = FALSE
  BY <1>1, <1>2, <1>3, Zenon
<1>7. r.pc - r.bytes = c.pc - c.bytes /\ (h.addr # "pc" => r.pc = c.pc)
  BY <1>1, <1>2, <1>3
<1>8. r.spent = [what |-> c.spent.what, halves |-> c.spent.halves + 1,
                 refreshed |-> c.spent.refreshed + (IF h.addr = "ir" THEN 1 ELSE 0)]
  BY <1>1, <1>2, <1>3
<1>9. Ran(c, r, h)
  BY <1>3, <1>4, <1>5, <1>6, <1>7, <1>8 DEF Ran
<1> QED BY <1>9 DEF r, b, a

\* The beginnings of a fetch, before it is known which.
Afresh == [what |-> <<>>, halves |-> 1, refreshed |-> 0]
\* A history that starts again.
LEMMA AfreshIs == Afresh \in Spents
  BY DEF Afresh, Spents

\* The history of what is over, kept; PC is counted from the next byte.
LEMMA OverIs ==
  ASSUME NEW c \in Cpus
  PROVE  LET d == [M1Out(Over(c)) EXCEPT !.hlx = FALSE, !.prefix_active = FALSE, !.im0_pc_hold = FALSE]
         IN /\ d \in Cpus /\ d.pins = c.pins \cup {"M1"} /\ d.addr = "pc" /\ d.hlx = FALSE /\ d.im0_pc_hold = FALSE
            /\ d.opcode = c.opcode /\ d.halted = c.halted /\ d.im = c.im /\ d.nmi_ack = c.nmi_ack /\ d.iff1 = c.iff1
            /\ d.nmi_pending = c.nmi_pending /\ d.rfsh_release = c.rfsh_release
            /\ d.pc = c.pc - c.bytes /\ d.bytes = 0 /\ d.pushed = c.pushed /\ d.spent = Afresh
            /\ d.over = [what |-> c.spent.what, halves |-> c.spent.halves - 1, refreshed |-> c.spent.refreshed]
<1> DEFINE o == [c.spent EXCEPT !.halves = c.spent.halves - 1]
           p == c.pc - c.bytes
           L == c.pins \cup {"M1"}
           d == [c EXCEPT !.over = o, !.pc = p, !.bytes = 0, !.spent = Afresh, !.pins = L, !.addr = "pc",
                          !.hlx = FALSE, !.prefix_active = FALSE, !.im0_pc_hold = FALSE]
<1>1. c.spent \in Spents /\ c.pc \in Int /\ c.bytes \in Int /\ c.pins \in SUBSET Lines
  BY DEF Cpus
<1>2. o \in Spents /\ o = [what |-> c.spent.what, halves |-> c.spent.halves - 1, refreshed |-> c.spent.refreshed]
  BY <1>1, SpentsAre
<1>3. p \in Int /\ L \in SUBSET Lines
  BY <1>1 DEF Lines
<1>4. [M1Out(Over(c)) EXCEPT !.hlx = FALSE, !.prefix_active = FALSE, !.im0_pc_hold = FALSE] = d
  <2>1. M1Out(Over(c)) = [c EXCEPT !.over = o, !.pc = p, !.bytes = 0, !.spent = Afresh, !.pins = L, !.addr = "pc"]
    <3>1. Over(c) = [c EXCEPT !.over = o, !.pc = p, !.bytes = 0, !.spent = Afresh]
      BY DEF Over, Afresh
    <3> HIDE DEF o, p
    <3>2. [c EXCEPT !.over = o, !.pc = p, !.bytes = 0, !.spent = Afresh].pins = c.pins
      BY DEF Cpus
    <3> QED BY <3>1, <3>2 DEF M1Out
  <2> HIDE DEF o, p, L
  <2> QED BY <2>1
<1>5. o.what = c.spent.what
  BY <1>2
<1> HIDE DEF o, p, L
<1>6. d \in Cpus
  <2> DEFINE z == 0
             e == [c EXCEPT !.over = o, !.pc = p, !.bytes = z, !.spent = Afresh]
  <2>1. o \in Spents /\ z \in Int
    BY <1>2
  <2>2. d = [e EXCEPT !.pins = L, !.addr = "pc", !.hlx = FALSE, !.prefix_active = FALSE, !.im0_pc_hold = FALSE]
    OBVIOUS
  <2> HIDE DEF z
  <2>3. e \in Cpus
    BY <1>3, <2>1, AfreshIs DEF Cpus
  <2> HIDE DEF e, d
  <2>4. [e EXCEPT !.pins = L, !.addr = "pc", !.hlx = FALSE, !.prefix_active = FALSE, !.im0_pc_hold = FALSE] \in Cpus
    BY <1>3, <2>3 DEF Cpus
  <2> QED BY <2>2, <2>4
<1>7. d.pins = L /\ d.addr = "pc" /\ d.hlx = FALSE /\ d.im0_pc_hold = FALSE /\ d.opcode = c.opcode
  BY DEF Cpus
<1>8. d.halted = c.halted /\ d.im = c.im /\ d.nmi_ack = c.nmi_ack /\ d.iff1 = c.iff1 /\ d.nmi_pending = c.nmi_pending
  <2>1. d.halted = c.halted /\ d.im = c.im /\ d.nmi_ack = c.nmi_ack
    BY DEF Cpus
  <2>2. d.iff1 = c.iff1 /\ d.nmi_pending = c.nmi_pending
    BY DEF Cpus
  <2> QED BY <2>1, <2>2
<1>9. d.rfsh_release = c.rfsh_release /\ d.pc = p /\ d.bytes = 0 /\ d.pushed = c.pushed /\ d.spent = Afresh /\ d.over = o
  <2>1. d.rfsh_release = c.rfsh_release
    BY DEF Cpus
  <2>2. d.pc = p /\ d.bytes = 0 /\ d.pushed = c.pushed
    BY DEF Cpus
  <2>3. d.spent = Afresh /\ d.over = o
    BY DEF Cpus
  <2> QED BY <2>1, <2>2, <2>3
<1>10. p = c.pc - c.bytes /\ L = c.pins \cup {"M1"}
  BY DEF p, L
<1> HIDE DEF d
<1> QED BY <1>2, <1>4, <1>6, <1>7, <1>8, <1>9, <1>10, Zenon

\* What a fetch begins with: an NMI, an INT, or the next opcode.
Began(c, e) ==
  \/ /\ e.step = [cycle |-> "Nmi", half |-> 1] /\ e.spent = [Afresh EXCEPT !.what = <<"nmi">>]
     /\ e.nmi_ack = TRUE /\ e.pc = c.pc - c.bytes
  \/ /\ e.step = [cycle |-> "Acknowledge", half |-> 1] /\ e.spent = [Afresh EXCEPT !.what = <<"int">>]
     /\ e.nmi_ack = c.nmi_ack /\ e.pc = c.pc - c.bytes /\ e.nmi_pending = FALSE
  \/ /\ e.step = [cycle |-> "PlainFetch", half |-> 1] /\ e.spent = Afresh
     /\ e.nmi_ack = c.nmi_ack /\ e.pc = (c.pc - c.bytes) + (IF e.halted THEN 0 ELSE 1) /\ e.nmi_pending = FALSE

\* What that leaves of the rest.
Begun(c, e) ==
  /\ e \in Cpus /\ e.pins = c.pins \cup {"M1"} /\ e.addr = "pc" /\ e.rfsh_release = c.rfsh_release /\ e.hlx = FALSE
  /\ e.opcode = c.opcode /\ e.im = c.im /\ e.pushed = c.pushed
  /\ e.over = [what |-> c.spent.what, halves |-> c.spent.halves - 1, refreshed |-> c.spent.refreshed]
  /\ e.pc - e.bytes = c.pc - c.bytes /\ Began(c, e)

\* The words of an interrupt that has begun are words.
LEMMA WordsAre ==
  /\ <<"nmi">> \in Seq(Words) /\ <<"int">> \in Seq(Words) /\ <<>> \in Seq(Words)
  /\ [Afresh EXCEPT !.what = <<"nmi">>] \in Spents /\ [Afresh EXCEPT !.what = <<"int">>] \in Spents
<1>1. "nmi" \in Words /\ "int" \in Words
  BY DEF Words
<1>2. <<"nmi">> \in Seq(Words) /\ <<"int">> \in Seq(Words) /\ <<>> \in Seq(Words)
  BY <1>1
<1> QED BY <1>2, AfreshIs, WhatIs

\* begin_fetch begins one of the three.
LEMMA BeginFetchIs ==
  ASSUME NEW c \in Cpus, NEW int \in BOOLEAN
  PROVE  Begun(c, BeginFetch(c, int))
<1> DEFINE d == [M1Out(Over(c)) EXCEPT !.hlx = FALSE, !.prefix_active = FALSE, !.im0_pc_hold = FALSE]
<1>1. /\ d \in Cpus /\ d.pins = c.pins \cup {"M1"} /\ d.addr = "pc" /\ d.hlx = FALSE /\ d.im0_pc_hold = FALSE
      /\ d.opcode = c.opcode /\ d.halted = c.halted /\ d.im = c.im /\ d.nmi_ack = c.nmi_ack /\ d.iff1 = c.iff1
      /\ d.nmi_pending = c.nmi_pending /\ d.rfsh_release = c.rfsh_release
      /\ d.pc = c.pc - c.bytes /\ d.bytes = 0 /\ d.pushed = c.pushed /\ d.spent = Afresh
      /\ d.over = [what |-> c.spent.what, halves |-> c.spent.halves - 1, refreshed |-> c.spent.refreshed]
  BY OverIs
<1>2. BeginFetch(c, int) =
        IF d.nmi_pending
        THEN To([d EXCEPT !.nmi_pending = FALSE, !.halted = FALSE, !.nmi_ack = TRUE,
                          !.iff2 = d.iff1, !.iff1 = FALSE, !.spent.what = <<"nmi">>], "Nmi")
        ELSE IF int /\ d.iff1 THEN To([d EXCEPT !.spent.what = <<"int">>], "Acknowledge")
        ELSE To(PcPostInc(d), "PlainFetch")
  BY DEF BeginFetch
<1>3. "Nmi" \in Cycles /\ "Acknowledge" \in Cycles /\ "PlainFetch" \in Cycles
  BY DEF Cycles, Fetches, Interrupting
<1> HIDE DEF d
<1>4. d.spent \in Spents /\ c.pc \in Int /\ c.bytes \in Int /\ c.pc - c.bytes \in Int
  BY <1>1, AfreshIs DEF Cpus
<1>5. CASE d.nmi_pending
  <2> DEFINE s == [Afresh EXCEPT !.what = <<"nmi">>]
             g == [d EXCEPT !.nmi_pending = FALSE, !.halted = FALSE, !.nmi_ack = TRUE,
                            !.iff2 = d.iff1, !.iff1 = FALSE, !.spent = s]
             e == To(g, "Nmi")
  <2>1. BeginFetch(c, int) = e
    BY <1>1, <1>2, <1>5
  <2>2. s \in Spents
    BY WordsAre
  <2> HIDE DEF s
  <2>3. g \in Cpus
    BY <1>1, <2>2 DEF Cpus
  <2>4. g.pins = d.pins /\ g.addr = d.addr /\ g.rfsh_release = d.rfsh_release /\ g.hlx = d.hlx /\ g.opcode = d.opcode
    BY <1>1 DEF Cpus
  <2>5. g.im = d.im /\ g.pushed = d.pushed /\ g.over = d.over /\ g.pc = d.pc /\ g.bytes = d.bytes
    BY <1>1 DEF Cpus
  <2>6. g.nmi_ack = TRUE /\ g.spent = s
    BY <1>1 DEF Cpus
  <2> HIDE DEF g
  <2>7. e \in Cpus /\ e.step = [cycle |-> "Nmi", half |-> 1] /\ Stays(e, g)
    BY <1>3, <2>3, ToIs
  <2> HIDE DEF e
  <2>8. /\ e.pins = c.pins \cup {"M1"} /\ e.addr = "pc" /\ e.opcode = c.opcode /\ e.im = c.im
        /\ e.pushed = c.pushed /\ e.pc = c.pc - c.bytes /\ e.bytes = 0 /\ e.spent = s
        /\ e.over = [what |-> c.spent.what, halves |-> c.spent.halves - 1, refreshed |-> c.spent.refreshed]
    BY <1>1, <2>4, <2>5, <2>6, <2>7 DEF Stays
  <2>9. e.rfsh_release = c.rfsh_release /\ e.hlx = FALSE /\ e.nmi_ack = TRUE
    BY <1>1, <2>4, <2>6, <2>7, Zenon DEF Stays
  <2>10. Began(c, e)
    BY <2>7, <2>8, <2>9 DEF Began, s
  <2> QED BY <1>4, <2>1, <2>7, <2>8, <2>9, <2>10 DEF Begun
<1>6. CASE ~d.nmi_pending /\ int /\ d.iff1
  <2> DEFINE s == [Afresh EXCEPT !.what = <<"int">>]
             g == [d EXCEPT !.spent = s]
             e == To(g, "Acknowledge")
  <2>1. BeginFetch(c, int) = e
    BY <1>1, <1>2, <1>6
  <2>2. s \in Spents
    BY WordsAre
  <2> HIDE DEF s
  <2>3. g \in Cpus
    BY <1>1, <2>2 DEF Cpus
  <2>4. g.pins = d.pins /\ g.addr = d.addr /\ g.rfsh_release = d.rfsh_release /\ g.hlx = d.hlx /\ g.opcode = d.opcode
    BY <1>1 DEF Cpus
  <2>5. g.im = d.im /\ g.pushed = d.pushed /\ g.over = d.over /\ g.pc = d.pc /\ g.bytes = d.bytes
    BY <1>1 DEF Cpus
  <2>6. g.nmi_ack = d.nmi_ack /\ g.nmi_pending = d.nmi_pending /\ g.spent = s
    BY <1>1 DEF Cpus
  <2> HIDE DEF g
  <2>7. e \in Cpus /\ e.step = [cycle |-> "Acknowledge", half |-> 1] /\ Stays(e, g)
    BY <1>3, <2>3, ToIs
  <2> HIDE DEF e
  <2>8. /\ e.pins = c.pins \cup {"M1"} /\ e.addr = "pc" /\ e.opcode = c.opcode /\ e.im = c.im
        /\ e.pushed = c.pushed /\ e.pc = c.pc - c.bytes /\ e.bytes = 0 /\ e.spent = s
        /\ e.over = [what |-> c.spent.what, halves |-> c.spent.halves - 1, refreshed |-> c.spent.refreshed]
    BY <1>1, <2>4, <2>5, <2>6, <2>7 DEF Stays
  <2>9. e.rfsh_release = c.rfsh_release /\ e.hlx = FALSE /\ e.nmi_ack = c.nmi_ack
    BY <1>1, <2>4, <2>6, <2>7, Zenon DEF Stays
  <2>10. e.nmi_pending = FALSE
    <3>1. d.nmi_pending = FALSE
      BY <1>1, <1>6 DEF Cpus
    <3> QED BY <3>1, <2>6, <2>7, Zenon DEF Stays
  <2>11. Began(c, e)
    BY <2>7, <2>8, <2>9, <2>10 DEF Began, s
  <2> QED BY <1>4, <2>1, <2>7, <2>8, <2>9, <2>11 DEF Begun
<1>7. CASE ~d.nmi_pending /\ ~(int /\ d.iff1)
  <2> DEFINE g == PcPostInc(d)
             e == To(g, "PlainFetch")
  <2>1. BeginFetch(c, int) = e
    BY <1>2, <1>7
  <2>2. /\ g \in Cpus /\ g.pins = d.pins /\ g.addr = d.addr /\ g.opcode = d.opcode
        /\ g.hlx = d.hlx /\ g.halted = d.halted /\ g.im = d.im /\ g.nmi_pending = d.nmi_pending
        /\ g.nmi_ack = d.nmi_ack /\ g.rfsh_release = d.rfsh_release
        /\ g.pushed = d.pushed /\ g.spent = d.spent /\ g.over = d.over
        /\ g.pc - g.bytes = d.pc - d.bytes
        /\ d.im0_pc_hold \/ d.halted => g.pc = d.pc
        /\ ~(d.im0_pc_hold \/ d.halted) => g.pc = d.pc + 1
    BY <1>1, PcPostIncIs
  <2> HIDE DEF g
  <2>3. e \in Cpus /\ e.step = [cycle |-> "PlainFetch", half |-> 1] /\ Stays(e, g)
    BY <1>3, <2>2, ToIs
  <2> HIDE DEF e
  <2>4. /\ e.pins = c.pins \cup {"M1"} /\ e.addr = "pc" /\ e.opcode = c.opcode /\ e.im = c.im
        /\ e.pushed = c.pushed /\ e.spent = Afresh /\ e.pc = g.pc /\ e.bytes = g.bytes
        /\ e.over = [what |-> c.spent.what, halves |-> c.spent.halves - 1, refreshed |-> c.spent.refreshed]
    BY <1>1, <2>2, <2>3 DEF Stays
  <2>5. e.rfsh_release = c.rfsh_release /\ e.hlx = FALSE /\ e.nmi_ack = c.nmi_ack /\ e.halted = d.halted
    BY <1>1, <2>2, <2>3, Zenon DEF Stays
  <2>6. e.nmi_pending = FALSE
    <3>1. d.nmi_pending = FALSE
      BY <1>1, <1>7 DEF Cpus
    <3> QED BY <3>1, <2>2, <2>3, Zenon DEF Stays
  <2>7. e.pc = (c.pc - c.bytes) + (IF e.halted THEN 0 ELSE 1)
    BY <1>1, <1>4, <2>2, <2>4, <2>5
  <2>8. Began(c, e)
    BY <2>3, <2>4, <2>5, <2>6, <2>7 DEF Began
  <2>9. e.pc - e.bytes = c.pc - c.bytes
    BY <1>1, <1>4, <2>2, <2>4
  <2> QED BY <1>4, <2>1, <2>3, <2>4, <2>5, <2>8, <2>9 DEF Begun
<1> QED BY <1>5, <1>6, <1>7

\* A byte is seen.
LEMMA SeenIs ==
  ASSUME NEW c \in Cpus, NEW x \in AllOps
  PROVE  LET e == Seen(c, x)
         IN /\ e \in Cpus /\ e.opcode = x
            /\ e.spent = [what |-> Append(c.spent.what, x), halves |-> c.spent.halves, refreshed |-> c.spent.refreshed]
            /\ e.step = c.step /\ e.pins = c.pins /\ e.addr = c.addr /\ e.hlx = c.hlx /\ e.im = c.im
            /\ e.nmi_ack = c.nmi_ack /\ e.pc = c.pc /\ e.bytes = c.bytes /\ e.pushed = c.pushed /\ e.over = c.over
            /\ e.rfsh_release = c.rfsh_release
<1> DEFINE s == [c.spent EXCEPT !.what = Append(c.spent.what, x)]
           e == [c EXCEPT !.opcode = x, !.spent = s]
<1>1. Seen(c, x) = e
  BY DEF Seen
<1>2. c.spent \in Spents /\ c.spent.what \in Seq(Words) /\ x \in Words
  BY DEF Cpus, Spents, Words
<1>3. Append(c.spent.what, x) \in Seq(Words)
  BY <1>2
<1>4. s \in Spents
  BY <1>2, <1>3, WhatIs
<1>5. s = [what |-> Append(c.spent.what, x), halves |-> c.spent.halves, refreshed |-> c.spent.refreshed]
  BY <1>2, <1>3, WhatIs
<1> HIDE DEF s
<1>6. e \in Cpus
  BY <1>4 DEF Cpus
<1>7. e.opcode = x /\ e.spent = s /\ e.step = c.step /\ e.pins = c.pins /\ e.addr = c.addr /\ e.im = c.im
  BY DEF Cpus
<1>8. e.pc = c.pc /\ e.bytes = c.bytes /\ e.pushed = c.pushed /\ e.over = c.over
  BY DEF Cpus
<1>9. e.hlx = c.hlx /\ e.nmi_ack = c.nmi_ack /\ e.rfsh_release = c.rfsh_release
  BY DEF Cpus
<1> HIDE DEF e
<1> QED BY <1>1, <1>5, <1>6, <1>7, <1>8, <1>9, Zenon

\* A half-clock that is not the last of its cycle leaves e of r.
Carried(r, e, do, op, w) ==
  /\ e \in Cpus /\ e.step = [cycle |-> r.step.cycle, half |-> r.step.half + 1] /\ e.pins = r.pins /\ e.addr = r.addr
  /\ e.rfsh_release = (r.rfsh_release \/ do \in Releasing) /\ e.over = r.over /\ e.im = r.im
  /\ e.nmi_ack = r.nmi_ack /\ e.hlx = r.hlx /\ e.bytes = r.bytes
  /\ e.pc = (IF do = "jump" THEN 0 ELSE r.pc) /\ e.pushed = (IF do = "push_high" THEN r.pc ELSE r.pushed)
  /\ e.opcode = op /\ e.spent = [what |-> w, halves |-> r.spent.halves, refreshed |-> r.spent.refreshed]

\* Onward from a CPU d that differs from r in what the half-clock did.
LEMMA CarriedOn ==
  ASSUME NEW r \in Cpus, NEW d \in Cpus, NEW do, NEW w, NEW op,
         d.step = r.step, d.pins = r.pins, d.addr = r.addr, d.rfsh_release = (r.rfsh_release \/ do \in Releasing),
         d.over = r.over, d.im = r.im, d.nmi_ack = r.nmi_ack, d.hlx = r.hlx, d.bytes = r.bytes,
         d.pc = IF do = "jump" THEN 0 ELSE r.pc, d.pushed = IF do = "push_high" THEN r.pc ELSE r.pushed,
         d.opcode = op, d.spent = [what |-> w, halves |-> r.spent.halves, refreshed |-> r.spent.refreshed]
  PROVE  Carried(r, Onward(d), do, op, w)
<1> DEFINE e == Onward(d)
<1>1. e \in Cpus /\ e.step = [cycle |-> d.step.cycle, half |-> d.step.half + 1] /\ Stays(e, d)
  BY OnwardIs
<1> HIDE DEF e
<1>2. e.step = [cycle |-> r.step.cycle, half |-> r.step.half + 1] /\ e.pins = r.pins /\ e.addr = r.addr
      /\ e.over = r.over /\ e.im = r.im /\ e.bytes = r.bytes
  BY <1>1 DEF Stays
<1>3. e.rfsh_release = (r.rfsh_release \/ do \in Releasing) /\ e.nmi_ack = r.nmi_ack /\ e.hlx = r.hlx
  BY <1>1, Zenon DEF Stays
<1>4. e.pc = (IF do = "jump" THEN 0 ELSE r.pc) /\ e.pushed = (IF do = "push_high" THEN r.pc ELSE r.pushed)
  BY <1>1 DEF Stays
<1>5. e.opcode = op /\ e.spent = [what |-> w, halves |-> r.spent.halves, refreshed |-> r.spent.refreshed]
  BY <1>1 DEF Stays
<1>6. Carried(r, e, do, op, w)
  BY <1>1, <1>2, <1>3, <1>4, <1>5, Zenon DEF Carried
<1> QED BY <1>6 DEF e

\* The fields of the history.
LEMMA SpentIs ==
  ASSUME NEW r \in Cpus
  PROVE  r.spent \in Spents /\ r.spent = [what |-> r.spent.what, halves |-> r.spent.halves, refreshed |-> r.spent.refreshed]
  BY DEF Cpus, Spents

\* Which half-clocks let RFSH go.
LEMMA ReleasingAre ==
  /\ \A do \in {"next", "index", "latch", "suffix", "accept", "push_high", "jump"} : do \notin Releasing
  /\ "refreshed" \in Releasing /\ "acknowledged" \in Releasing
  BY DEF Releasing

\* What goes on in its cycle.
LEMMA OnwardsAre ==
  ASSUME NEW r \in Cpus, NEW byte, NEW int
  PROVE  /\ \A do \in {"next", "index", "refreshed", "accept", "push_high", "jump"} :
              Carried(r, After(r, do, byte, int), do, r.opcode, r.spent.what)
         /\ byte \in AllOps => \E x \in {byte, "halt"} :
              /\ (~r.halted => x = byte)
              /\ Carried(r, After(r, "latch", byte, int), "latch", x, Append(r.spent.what, x))
         /\ byte \in AllOps => Carried(r, After(r, "suffix", byte, int), "suffix", byte, Append(r.spent.what, byte))
<1>1. ASSUME NEW do \in {"next", "index"}
      PROVE  Carried(r, After(r, do, byte, int), do, r.opcode, r.spent.what)
  <2>1. After(r, do, byte, int) = Onward(r)
    BY <1>1 DEF After
  <2>2. do \notin Releasing /\ do # "jump" /\ do # "push_high"
    BY <1>1, ReleasingAre
  <2>3. r.rfsh_release = (r.rfsh_release \/ do \in Releasing)
    BY <2>2 DEF Cpus
  <2>4. r.pc = (IF do = "jump" THEN 0 ELSE r.pc) /\ r.pushed = IF do = "push_high" THEN r.pc ELSE r.pushed
    BY <2>2
  <2> QED BY <2>1, <2>3, <2>4, SpentIs, CarriedOn
<1>2. Carried(r, After(r, "refreshed", byte, int), "refreshed", r.opcode, r.spent.what)
  <2> DEFINE d == [r EXCEPT !.rfsh_release = TRUE]
  <2>1. After(r, "refreshed", byte, int) = Onward(d)
    BY DEF After
  <2>2. d \in Cpus
    BY DEF Cpus
  <2>3. d.step = r.step /\ d.pins = r.pins /\ d.addr = r.addr /\ d.over = r.over /\ d.im = r.im /\ d.bytes = r.bytes
        /\ d.pc = r.pc /\ d.pushed = r.pushed /\ d.opcode = r.opcode /\ d.spent = r.spent
    BY DEF Cpus
  <2>4. d.nmi_ack = r.nmi_ack /\ d.hlx = r.hlx /\ d.rfsh_release = TRUE
    BY DEF Cpus
  <2> HIDE DEF d
  <2>5. d.rfsh_release = (r.rfsh_release \/ "refreshed" \in Releasing)
    BY <2>4, ReleasingAre
  <2>6. d.pc = (IF "refreshed" = "jump" THEN 0 ELSE r.pc) /\ d.pushed = IF "refreshed" = "push_high" THEN r.pc ELSE r.pushed
    BY <2>3
  <2>7. d.spent = [what |-> r.spent.what, halves |-> r.spent.halves, refreshed |-> r.spent.refreshed]
    BY <2>3, SpentIs
  <2> QED BY <2>1, <2>2, <2>3, <2>4, <2>5, <2>6, <2>7, CarriedOn
<1>3. Carried(r, After(r, "accept", byte, int), "accept", r.opcode, r.spent.what)
  <2> DEFINE d == [r EXCEPT !.iff1 = FALSE, !.iff2 = FALSE, !.halted = FALSE]
  <2>1. After(r, "accept", byte, int) = Onward(d)
    BY DEF After
  <2>2. d \in Cpus
    BY DEF Cpus
  <2>3. d.step = r.step /\ d.pins = r.pins /\ d.addr = r.addr /\ d.over = r.over /\ d.im = r.im /\ d.bytes = r.bytes
        /\ d.pc = r.pc /\ d.pushed = r.pushed /\ d.opcode = r.opcode /\ d.spent = r.spent
    BY DEF Cpus
  <2>4. d.nmi_ack = r.nmi_ack /\ d.hlx = r.hlx /\ d.rfsh_release = r.rfsh_release
    BY DEF Cpus
  <2> HIDE DEF d
  <2>5. d.rfsh_release = (r.rfsh_release \/ "accept" \in Releasing)
    BY <2>2, <2>4, ReleasingAre DEF Cpus
  <2>6. d.pc = (IF "accept" = "jump" THEN 0 ELSE r.pc) /\ d.pushed = IF "accept" = "push_high" THEN r.pc ELSE r.pushed
    BY <2>3
  <2>7. d.spent = [what |-> r.spent.what, halves |-> r.spent.halves, refreshed |-> r.spent.refreshed]
    BY <2>3, SpentIs
  <2> QED BY <2>1, <2>2, <2>3, <2>4, <2>5, <2>6, <2>7, CarriedOn
<1>4. Carried(r, After(r, "push_high", byte, int), "push_high", r.opcode, r.spent.what)
  <2> DEFINE d == [r EXCEPT !.pushed = r.pc]
  <2>1. After(r, "push_high", byte, int) = Onward(d)
    BY DEF After
  <2>2. d \in Cpus
    BY DEF Cpus
  <2>3. d.step = r.step /\ d.pins = r.pins /\ d.addr = r.addr /\ d.over = r.over /\ d.im = r.im /\ d.bytes = r.bytes
        /\ d.pc = r.pc /\ d.pushed = r.pc /\ d.opcode = r.opcode /\ d.spent = r.spent
    BY DEF Cpus
  <2>4. d.nmi_ack = r.nmi_ack /\ d.hlx = r.hlx /\ d.rfsh_release = r.rfsh_release
    BY DEF Cpus
  <2> HIDE DEF d
  <2>5. d.rfsh_release = (r.rfsh_release \/ "push_high" \in Releasing)
    BY <2>2, <2>4, ReleasingAre DEF Cpus
  <2>6. d.pc = (IF "push_high" = "jump" THEN 0 ELSE r.pc) /\ d.pushed = IF "push_high" = "push_high" THEN r.pc ELSE r.pushed
    BY <2>3
  <2>7. d.spent = [what |-> r.spent.what, halves |-> r.spent.halves, refreshed |-> r.spent.refreshed]
    BY <2>3, SpentIs
  <2> QED BY <2>1, <2>2, <2>3, <2>4, <2>5, <2>6, <2>7, CarriedOn
<1>5. Carried(r, After(r, "jump", byte, int), "jump", r.opcode, r.spent.what)
  <2> DEFINE d == [r EXCEPT !.pc = 0]
  <2>1. After(r, "jump", byte, int) = Onward(d)
    BY DEF After
  <2>2. d \in Cpus
    BY DEF Cpus
  <2>3. d.step = r.step /\ d.pins = r.pins /\ d.addr = r.addr /\ d.over = r.over /\ d.im = r.im /\ d.bytes = r.bytes
        /\ d.pc = 0 /\ d.pushed = r.pushed /\ d.opcode = r.opcode /\ d.spent = r.spent
    BY DEF Cpus
  <2>4. d.nmi_ack = r.nmi_ack /\ d.hlx = r.hlx /\ d.rfsh_release = r.rfsh_release
    BY DEF Cpus
  <2> HIDE DEF d
  <2>5. d.rfsh_release = (r.rfsh_release \/ "jump" \in Releasing)
    BY <2>2, <2>4, ReleasingAre DEF Cpus
  <2>6. d.pc = (IF "jump" = "jump" THEN 0 ELSE r.pc) /\ d.pushed = IF "jump" = "push_high" THEN r.pc ELSE r.pushed
    BY <2>3
  <2>7. d.spent = [what |-> r.spent.what, halves |-> r.spent.halves, refreshed |-> r.spent.refreshed]
    BY <2>3, SpentIs
  <2> QED BY <2>1, <2>2, <2>3, <2>4, <2>5, <2>6, <2>7, CarriedOn
<1>6. ASSUME NEW do \in {"latch", "suffix"}, NEW x \in AllOps
      PROVE  Carried(r, Onward(Seen(r, x)), do, x, Append(r.spent.what, x))
  <2> DEFINE d == Seen(r, x)
  <2>1. /\ d \in Cpus /\ d.opcode = x
        /\ d.spent = [what |-> Append(r.spent.what, x), halves |-> r.spent.halves, refreshed |-> r.spent.refreshed]
        /\ d.step = r.step /\ d.pins = r.pins /\ d.addr = r.addr /\ d.hlx = r.hlx /\ d.im = r.im
        /\ d.nmi_ack = r.nmi_ack /\ d.pc = r.pc /\ d.bytes = r.bytes /\ d.pushed = r.pushed /\ d.over = r.over
        /\ d.rfsh_release = r.rfsh_release
    BY SeenIs
  <2> HIDE DEF d
  <2>2. do \notin Releasing /\ do # "jump" /\ do # "push_high"
    BY <1>6, ReleasingAre
  <2>3. d.rfsh_release = (r.rfsh_release \/ do \in Releasing)
    BY <2>1, <2>2 DEF Cpus
  <2>4. d.pc = (IF do = "jump" THEN 0 ELSE r.pc) /\ d.pushed = IF do = "push_high" THEN r.pc ELSE r.pushed
    BY <2>1, <2>2
  <2>5. Carried(r, Onward(d), do, x, Append(r.spent.what, x))
    BY <2>1, <2>3, <2>4, CarriedOn
  <2> QED BY <2>5 DEF d
<1>7. ASSUME byte \in AllOps
      PROVE  \E x \in {byte, "halt"} :
               /\ (~r.halted => x = byte)
               /\ Carried(r, After(r, "latch", byte, int), "latch", x, Append(r.spent.what, x))
  <2>1. After(r, "latch", byte, int) = Onward(Seen(r, IF r.halted THEN "halt" ELSE byte))
    BY DEF After, Latch
  <2>2. "halt" \in AllOps
    BY DEF AllOps, Opcodes
  <2> DEFINE x == IF r.halted THEN "halt" ELSE byte
  <2>3. x \in AllOps /\ x \in {byte, "halt"} /\ (~r.halted => x = byte)
    BY <1>7, <2>2
  <2> HIDE DEF x
  <2>4. After(r, "latch", byte, int) = Onward(Seen(r, x))
    BY <2>1 DEF x
  <2> QED BY <1>6, <2>3, <2>4
<1>8. ASSUME byte \in AllOps
      PROVE  Carried(r, After(r, "suffix", byte, int), "suffix", byte, Append(r.spent.what, byte))
  <2>1. After(r, "suffix", byte, int) = Onward(Seen(r, byte))
    BY DEF After
  <2> QED BY <1>6, <1>8, <2>1
<1> QED BY <1>1, <1>2, <1>3, <1>4, <1>5, <1>7, <1>8

\* A half-clock that ends its cycle leaves e of r, at the beginning of another.
Entered(r, e, do, cycle, op, w) ==
  /\ e \in Cpus /\ e.step = [cycle |-> cycle, half |-> 1] /\ e.pins = r.pins /\ e.addr = r.addr
  /\ e.rfsh_release = (r.rfsh_release \/ do \in Releasing) /\ e.over = r.over /\ e.im = r.im
  /\ e.nmi_ack = r.nmi_ack /\ e.hlx = r.hlx /\ e.bytes = r.bytes
  /\ e.pc = (IF cycle = "Arrive" THEN 0 ELSE r.pc) /\ e.pushed = r.pushed
  /\ e.opcode = op /\ e.spent = [what |-> w, halves |-> r.spent.halves, refreshed |-> r.spent.refreshed]

\* Another cycle is entered.
LEMMA EnteredAt ==
  ASSUME NEW r \in Cpus, NEW d \in Cpus, NEW do, NEW w, NEW op, NEW cycle \in Cycles,
         d.pins = r.pins, d.addr = r.addr, d.rfsh_release = (r.rfsh_release \/ do \in Releasing),
         d.over = r.over, d.im = r.im, d.nmi_ack = r.nmi_ack, d.hlx = r.hlx, d.bytes = r.bytes,
         d.pc = IF cycle = "Arrive" THEN 0 ELSE r.pc, d.pushed = r.pushed,
         d.opcode = op, d.spent = [what |-> w, halves |-> r.spent.halves, refreshed |-> r.spent.refreshed]
  PROVE  Entered(r, To(d, cycle), do, cycle, op, w)
<1> DEFINE e == To(d, cycle)
<1>1. e \in Cpus /\ e.step = [cycle |-> cycle, half |-> 1] /\ Stays(e, d)
  BY ToIs
<1> HIDE DEF e
<1>2. e.pins = r.pins /\ e.addr = r.addr /\ e.over = r.over /\ e.im = r.im /\ e.bytes = r.bytes /\ e.pushed = r.pushed
  BY <1>1 DEF Stays
<1>3. e.rfsh_release = (r.rfsh_release \/ do \in Releasing) /\ e.nmi_ack = r.nmi_ack /\ e.hlx = r.hlx
  BY <1>1, Zenon DEF Stays
<1>4. e.pc = IF cycle = "Arrive" THEN 0 ELSE r.pc
  BY <1>1 DEF Stays
<1>5. e.opcode = op /\ e.spent = [what |-> w, halves |-> r.spent.halves, refreshed |-> r.spent.refreshed]
  BY <1>1 DEF Stays
<1>6. Entered(r, e, do, cycle, op, w)
  BY <1>1, <1>2, <1>3, <1>4, <1>5, Zenon DEF Entered
<1> QED BY <1>6 DEF e

\* The end of a fetch.
LEMMA RetireIs ==
  ASSUME NEW c \in Cpus
  PROVE  LET e == Retire(c)
         IN /\ e \in Cpus /\ e.pins = c.pins /\ e.addr = c.addr /\ e.hlx = c.hlx /\ e.im = c.im
            /\ e.nmi_ack = c.nmi_ack /\ e.pc = c.pc /\ e.bytes = c.bytes /\ e.pushed = c.pushed /\ e.over = c.over
            /\ e.rfsh_release = TRUE /\ e.opcode = c.opcode /\ e.spent = c.spent
<1> DEFINE e == [c EXCEPT !.rfsh_release = TRUE, !.prefix_active = FALSE]
<1>1. e \in Cpus
  BY DEF Cpus
<1>2. e.pins = c.pins /\ e.addr = c.addr /\ e.hlx = c.hlx /\ e.im = c.im /\ e.nmi_ack = c.nmi_ack /\ e.rfsh_release = TRUE
  BY DEF Cpus
<1>3. e.pc = c.pc /\ e.bytes = c.bytes /\ e.pushed = c.pushed /\ e.over = c.over /\ e.opcode = c.opcode /\ e.spent = c.spent
  BY DEF Cpus
<1> HIDE DEF e
<1>4. Retire(c) = e
  BY DEF Retire, e
<1> QED BY <1>1, <1>2, <1>3, <1>4

\* Where the steps of an opcode are.
LEMMA GoesAre ==
  /\ \A op \in AllOps \ DdCbOpcodes : Goes(op) \in Going /\ Goes(op) \in Cycles
  /\ \A c : c.opcode \in AllOps \ DdCbOpcodes => Run(c) = To(c, Goes(c.opcode))
<1>1. \A op \in AllOps \ DdCbOpcodes : Goes(op) \in Going
  BY DEF AllOps, Opcodes, EdOpcodes, CbOpcodes, DdCbOpcodes, PrefixBytes, Goes, Going
<1>2. Going \subseteq Cycles
  BY DEF Cycles
<1>3. \A c : Run(c) = To(c, Goes(c.opcode))
  BY DEF Run, Goes, PrefixBytes
<1> QED BY <1>1, <1>2, <1>3

\* The ends of fetches, and of a displacement: the opcode decides where to.
LEMMA RunsAre ==
  ASSUME NEW r \in Cpus, r.opcode \in AllOps \ DdCbOpcodes, NEW byte, NEW int
  PROVE  /\ \A do \in {"plain", "ed", "cb"} :
              Entered(r, After(r, do, byte, int), do, Goes(r.opcode), r.opcode, r.spent.what)
         /\ Entered(r, After(r, "ddfd", byte, int), "ddfd",
                    (CASE r.opcode = "mem" -> "Displacement" [] r.opcode = "storen" -> "DisplacementN"
                       [] OTHER -> Goes(r.opcode)), r.opcode, r.spent.what)
         /\ Entered(r, After(r, "run", byte, int), "run", Goes(r.opcode), r.opcode, r.spent.what)
<1> DEFINE d == Retire(r)
<1>1. /\ d \in Cpus /\ d.pins = r.pins /\ d.addr = r.addr /\ d.hlx = r.hlx /\ d.im = r.im
      /\ d.nmi_ack = r.nmi_ack /\ d.pc = r.pc /\ d.bytes = r.bytes /\ d.pushed = r.pushed /\ d.over = r.over
      /\ d.rfsh_release = TRUE /\ d.opcode = r.opcode /\ d.spent = r.spent
  BY RetireIs
<1> HIDE DEF d
<1>2. /\ {"plain", "ed", "cb", "ddfd"} \subseteq Releasing /\ "run" \notin Releasing
      /\ "Displacement" \in Cycles /\ "DisplacementN" \in Cycles /\ "Arrive" \notin Going
  BY DEF Releasing, Cycles, Indexing, Going
<1>3. Goes(r.opcode) \in Cycles /\ Goes(r.opcode) # "Arrive" /\ Run(d) = To(d, Goes(r.opcode)) /\ Run(r) = To(r, Goes(r.opcode))
  BY <1>1, <1>2, GoesAre
<1>4. ASSUME NEW do \in {"plain", "ed", "cb", "ddfd"}, NEW cycle \in Cycles, cycle # "Arrive"
      PROVE  Entered(r, To(d, cycle), do, cycle, r.opcode, r.spent.what)
  <2>1. d.rfsh_release = (r.rfsh_release \/ do \in Releasing)
    BY <1>1, <1>2, <1>4
  <2>2. d.pc = IF cycle = "Arrive" THEN 0 ELSE r.pc
    BY <1>1, <1>4
  <2>3. d.spent = [what |-> r.spent.what, halves |-> r.spent.halves, refreshed |-> r.spent.refreshed]
    BY <1>1, SpentIs
  <2> QED BY <1>1, <2>1, <2>2, <2>3, EnteredAt
<1>5. \A do \in {"plain", "ed", "cb"} : After(r, do, byte, int) = To(d, Goes(r.opcode))
  BY <1>3 DEF After, d
<1>6. After(r, "ddfd", byte, int) = To(d, CASE r.opcode = "mem" -> "Displacement" [] r.opcode = "storen" -> "DisplacementN"
                                            [] OTHER -> Goes(r.opcode))
  <2>1. After(r, "ddfd", byte, int) = EndDdFd(r)
    BY DEF After
  <2> QED BY <1>3, <2>1 DEF EndDdFd, d
<1>7. Entered(r, To(r, Goes(r.opcode)), "run", Goes(r.opcode), r.opcode, r.spent.what)
  <2>1. r.rfsh_release = (r.rfsh_release \/ "run" \in Releasing)
    BY <1>2 DEF Cpus
  <2>2. r.pc = IF Goes(r.opcode) = "Arrive" THEN 0 ELSE r.pc
    BY <1>3
  <2> QED BY <1>3, <2>1, <2>2, SpentIs, EnteredAt
<1>8. After(r, "run", byte, int) = To(r, Goes(r.opcode))
  BY <1>3 DEF After
<1>9. \A do \in {"plain", "ed", "cb"} : Entered(r, After(r, do, byte, int), do, Goes(r.opcode), r.opcode, r.spent.what)
  BY <1>3, <1>4, <1>5
<1> DEFINE to == CASE r.opcode = "mem" -> "Displacement" [] r.opcode = "storen" -> "DisplacementN"
                   [] OTHER -> Goes(r.opcode)
<1>10. to \in Cycles /\ to # "Arrive"
  BY <1>2, <1>3
<1>11. After(r, "ddfd", byte, int) = To(d, to)
  BY <1>6
<1> HIDE DEF to
<1>12. Entered(r, After(r, "ddfd", byte, int), "ddfd", to, r.opcode, r.spent.what)
  BY <1>4, <1>10, <1>11
<1> QED BY <1>7, <1>8, <1>9, <1>12 DEF to

\* The other ends of cycles.
LEMMA EndsAre ==
  ASSUME NEW r \in Cpus, NEW byte, NEW int
  PROVE  /\ Entered(r, After(r, "store", byte, int), "store", "IndexedStore", r.opcode, r.spent.what)
         /\ Entered(r, After(r, "act", byte, int), "act", IF r.opcode = "bit" THEN "DdCbBit" ELSE "DdCbWrite",
                    r.opcode, r.spent.what)
         /\ Entered(r, After(r, "push", byte, int), "push", "PushPc", r.opcode, r.spent.what)
         /\ Entered(r, After(r, "vector", byte, int), "vector", IF r.im = 2 /\ ~r.nmi_ack THEN "Vector" ELSE "Arrive",
                    r.opcode, r.spent.what)
<1>1. ASSUME NEW do \in {"store", "act", "push", "vector"}, NEW cycle \in Cycles, cycle # "Arrive"
      PROVE  Entered(r, To(r, cycle), do, cycle, r.opcode, r.spent.what)
  <2>1. do \notin Releasing
    BY <1>1 DEF Releasing
  <2>2. r.rfsh_release = (r.rfsh_release \/ do \in Releasing)
    BY <2>1 DEF Cpus
  <2>3. r.pc = IF cycle = "Arrive" THEN 0 ELSE r.pc
    BY <1>1
  <2> QED BY <2>2, <2>3, SpentIs, EnteredAt
<1>2. /\ "IndexedStore" \in Cycles /\ "DdCbBit" \in Cycles /\ "DdCbWrite" \in Cycles /\ "PushPc" \in Cycles
      /\ "Vector" \in Cycles /\ "Arrive" \in Cycles
  BY DEF Cycles, Indexing, Interrupting
<1>3. Entered(r, After(r, "store", byte, int), "store", "IndexedStore", r.opcode, r.spent.what)
  <2>1. After(r, "store", byte, int) = To(r, "IndexedStore")
    BY DEF After
  <2> QED BY <1>1, <1>2, <2>1
<1>4. Entered(r, After(r, "act", byte, int), "act", IF r.opcode = "bit" THEN "DdCbBit" ELSE "DdCbWrite", r.opcode, r.spent.what)
  <2> DEFINE to == IF r.opcode = "bit" THEN "DdCbBit" ELSE "DdCbWrite"
  <2>1. After(r, "act", byte, int) = To(r, to)
    BY DEF After
  <2>2. to \in Cycles /\ to # "Arrive"
    BY <1>2
  <2> HIDE DEF to
  <2>3. Entered(r, After(r, "act", byte, int), "act", to, r.opcode, r.spent.what)
    BY <1>1, <2>1, <2>2
  <2> QED BY <2>3 DEF to
<1>5. Entered(r, After(r, "push", byte, int), "push", "PushPc", r.opcode, r.spent.what)
  <2>1. After(r, "push", byte, int) = To(r, "PushPc")
    BY DEF After
  <2> QED BY <1>1, <1>2, <2>1
<1>6. After(r, "vector", byte, int) = EndPushes(r)
  BY DEF After
<1>7. CASE r.im = 2 /\ ~r.nmi_ack
  <2>1. After(r, "vector", byte, int) = To(r, "Vector")
    BY <1>6, <1>7 DEF EndPushes
  <2>2. Entered(r, To(r, "Vector"), "vector", "Vector", r.opcode, r.spent.what)
    BY <1>1, <1>2
  <2> QED BY <1>3, <1>4, <1>5, <1>7, <2>1, <2>2
<1>8. CASE ~(r.im = 2 /\ ~r.nmi_ack)
  <2> DEFINE d == [r EXCEPT !.pc = 0]
  <2>1. After(r, "vector", byte, int) = To(d, "Arrive")
    BY <1>6, <1>8 DEF EndPushes
  <2>2. d \in Cpus
    BY DEF Cpus
  <2>3. d.pins = r.pins /\ d.addr = r.addr /\ d.over = r.over /\ d.im = r.im /\ d.bytes = r.bytes
        /\ d.pc = 0 /\ d.pushed = r.pushed /\ d.opcode = r.opcode /\ d.spent = r.spent
    BY DEF Cpus
  <2>4. d.nmi_ack = r.nmi_ack /\ d.hlx = r.hlx /\ d.rfsh_release = r.rfsh_release
    BY DEF Cpus
  <2> HIDE DEF d
  <2>5. d.rfsh_release = (r.rfsh_release \/ "vector" \in Releasing)
    BY <2>2, <2>4 DEF Cpus, Releasing
  <2>6. d.spent = [what |-> r.spent.what, halves |-> r.spent.halves, refreshed |-> r.spent.refreshed]
    BY <2>3, SpentIs
  <2>7. Entered(r, To(d, "Arrive"), "vector", "Arrive", r.opcode, r.spent.what)
    BY <1>2, <2>2, <2>3, <2>4, <2>5, <2>6, EnteredAt
  <2> QED BY <1>3, <1>4, <1>5, <1>8, <2>1, <2>7
<1> QED BY <1>7, <1>8

\* The acknowledge: on in IM 1 and 2, an instruction in IM 0.
LEMMA AcknowledgedIs ==
  ASSUME NEW r \in Cpus, NEW byte \in AllOps \ DdCbOpcodes, NEW int
  PROVE  /\ r.im = 0 =>
              Entered(r, After(r, "acknowledged", byte, int), "acknowledged", Goes(byte), byte, Append(r.spent.what, byte))
         /\ r.im # 0 =>
              Carried(r, After(r, "acknowledged", byte, int), "acknowledged", r.opcode,
                      <<"int", IF r.im = 1 THEN "im1" ELSE "im2">>)
<1> DEFINE d == [r EXCEPT !.rfsh_release = TRUE]
<1>1. d \in Cpus
  BY DEF Cpus
<1>2. d.step = r.step /\ d.pins = r.pins /\ d.addr = r.addr /\ d.over = r.over /\ d.im = r.im /\ d.bytes = r.bytes
      /\ d.pc = r.pc /\ d.pushed = r.pushed /\ d.opcode = r.opcode /\ d.spent = r.spent
  BY DEF Cpus
<1>3. d.nmi_ack = r.nmi_ack /\ d.hlx = r.hlx /\ d.rfsh_release = TRUE
  BY DEF Cpus
<1>4. After(r, "acknowledged", byte, int) =
        IF r.im = 0 THEN Run([Seen(d, byte) EXCEPT !.prefix_active = FALSE, !.im0_pc_hold = TRUE])
        ELSE Onward([d EXCEPT !.spent.what = <<"int", IF r.im = 1 THEN "im1" ELSE "im2">>])
  BY DEF After, EndAcknowledge
<1> HIDE DEF d
<1>5. CASE r.im = 0
  <2> DEFINE s == Seen(d, byte)
             e == [s EXCEPT !.prefix_active = FALSE, !.im0_pc_hold = TRUE]
  <2>1. /\ s \in Cpus /\ s.opcode = byte
        /\ s.spent = [what |-> Append(d.spent.what, byte), halves |-> d.spent.halves, refreshed |-> d.spent.refreshed]
        /\ s.pins = d.pins /\ s.addr = d.addr /\ s.hlx = d.hlx /\ s.im = d.im
        /\ s.nmi_ack = d.nmi_ack /\ s.pc = d.pc /\ s.bytes = d.bytes /\ s.pushed = d.pushed /\ s.over = d.over
        /\ s.rfsh_release = d.rfsh_release
    BY <1>1, SeenIs
  <2> HIDE DEF s
  <2>2. e \in Cpus
    BY <2>1 DEF Cpus
  <2>3. e.pins = s.pins /\ e.addr = s.addr /\ e.over = s.over /\ e.im = s.im /\ e.bytes = s.bytes
        /\ e.pc = s.pc /\ e.pushed = s.pushed /\ e.opcode = s.opcode /\ e.spent = s.spent
    BY <2>1 DEF Cpus
  <2>4. e.nmi_ack = s.nmi_ack /\ e.hlx = s.hlx /\ e.rfsh_release = s.rfsh_release
    BY <2>1 DEF Cpus
  <2>5. After(r, "acknowledged", byte, int) = Run(e)
    BY <1>4, <1>5 DEF s
  <2> HIDE DEF e
  <2>6. Run(e) = To(e, Goes(byte)) /\ Goes(byte) \in Cycles /\ Goes(byte) # "Arrive"
    BY <2>1, <2>3, GoesAre DEF Going
  <2>7. e.rfsh_release = (r.rfsh_release \/ "acknowledged" \in Releasing)
    <3>1. e.rfsh_release = TRUE
      BY <1>3, <2>1, <2>4, Zenon
    <3> QED BY <3>1, ReleasingAre
  <2>8. e.nmi_ack = r.nmi_ack /\ e.hlx = r.hlx
    BY <1>3, <2>1, <2>4, Zenon
  <2>9. e.pins = r.pins /\ e.addr = r.addr /\ e.over = r.over /\ e.im = r.im /\ e.bytes = r.bytes
        /\ e.pc = (IF Goes(byte) = "Arrive" THEN 0 ELSE r.pc) /\ e.pushed = r.pushed /\ e.opcode = byte
        /\ e.spent = [what |-> Append(r.spent.what, byte), halves |-> r.spent.halves, refreshed |-> r.spent.refreshed]
    BY <1>2, <2>1, <2>3, <2>6
  <2>10. Entered(r, To(e, Goes(byte)), "acknowledged", Goes(byte), byte, Append(r.spent.what, byte))
    BY <2>2, <2>6, <2>7, <2>8, <2>9, EnteredAt
  <2> QED BY <1>5, <2>5, <2>6, <2>10
<1>6. CASE r.im # 0
  <2> DEFINE w == <<"int", IF r.im = 1 THEN "im1" ELSE "im2">>
             s == [d.spent EXCEPT !.what = w]
             e == [d EXCEPT !.spent = s]
  <2>1. w \in Seq(Words)
    <3>1. "int" \in Words /\ "im1" \in Words /\ "im2" \in Words
      BY DEF Words, AllOps, EdOpcodes
    <3> QED BY <3>1
  <2>2. d.spent \in Spents
    BY <1>1, SpentIs
  <2> HIDE DEF w
  <2>3. s \in Spents /\ s = [what |-> w, halves |-> d.spent.halves, refreshed |-> d.spent.refreshed]
    BY <2>1, <2>2, WhatIs
  <2>4. After(r, "acknowledged", byte, int) = Onward(e)
    BY <1>4, <1>6 DEF w
  <2> HIDE DEF s
  <2>5. e \in Cpus
    BY <1>1, <2>3 DEF Cpus
  <2>6. e.step = d.step /\ e.pins = d.pins /\ e.addr = d.addr /\ e.over = d.over /\ e.im = d.im /\ e.bytes = d.bytes
        /\ e.pc = d.pc /\ e.pushed = d.pushed /\ e.opcode = d.opcode /\ e.spent = s
    BY <1>1 DEF Cpus
  <2>7. e.nmi_ack = d.nmi_ack /\ e.hlx = d.hlx /\ e.rfsh_release = d.rfsh_release
    BY <1>1 DEF Cpus
  <2> HIDE DEF e
  <2>8. e.rfsh_release = (r.rfsh_release \/ "acknowledged" \in Releasing)
    <3>1. e.rfsh_release = TRUE
      BY <1>3, <2>7, Zenon
    <3> QED BY <3>1, ReleasingAre
  <2>9. e.nmi_ack = r.nmi_ack /\ e.hlx = r.hlx
    BY <1>3, <2>7, Zenon
  <2>10. e.step = r.step /\ e.pins = r.pins /\ e.addr = r.addr /\ e.over = r.over /\ e.im = r.im /\ e.bytes = r.bytes
         /\ e.pc = (IF "acknowledged" = "jump" THEN 0 ELSE r.pc)
         /\ e.pushed = (IF "acknowledged" = "push_high" THEN r.pc ELSE r.pushed) /\ e.opcode = r.opcode
         /\ e.spent = [what |-> w, halves |-> r.spent.halves, refreshed |-> r.spent.refreshed]
    BY <1>2, <2>3, <2>6
  <2>11. Carried(r, Onward(e), "acknowledged", r.opcode, w)
    BY <2>5, <2>8, <2>9, <2>10, CarriedOn
  <2> QED BY <1>6, <2>4, <2>11 DEF w
<1> QED BY <1>5, <1>6

\* A prefix: the fetch of what comes after it, or the displacement of DD CB.
Prefixed(r, e, cycle, hlx) ==
  /\ e \in Cpus /\ e.step = [cycle |-> cycle, half |-> 1]
  /\ e.pins = (IF cycle = "DdCb" THEN r.pins ELSE r.pins \cup {"M1"}) /\ e.addr = "pc"
  /\ e.rfsh_release = r.rfsh_release /\ e.over = r.over /\ e.im = r.im /\ e.nmi_ack = r.nmi_ack /\ e.hlx = hlx
  /\ e.pc - e.bytes = r.pc - r.bytes /\ e.pushed = r.pushed /\ e.opcode = r.opcode /\ e.spent = r.spent

\* M1 goes up, PC out.
LEMMA M1OutIs ==
  ASSUME NEW c \in Cpus
  PROVE  LET e == M1Out(c)
         IN /\ e \in Cpus /\ e.pins = c.pins \cup {"M1"} /\ e.addr = "pc"
            /\ e.rfsh_release = c.rfsh_release /\ e.over = c.over /\ e.im = c.im /\ e.nmi_ack = c.nmi_ack /\ e.hlx = c.hlx
            /\ e.pc = c.pc /\ e.bytes = c.bytes /\ e.pushed = c.pushed /\ e.opcode = c.opcode /\ e.spent = c.spent
<1> DEFINE L == c.pins \cup {"M1"}
           e == [c EXCEPT !.pins = L, !.addr = "pc"]
<1>1. M1Out(c) = e
  BY DEF M1Out
<1>2. L \in SUBSET Lines
  BY DEF Cpus, Lines
<1>3. L = c.pins \cup {"M1"}
  OBVIOUS
<1> HIDE DEF L
<1>4. e \in Cpus
  BY <1>2 DEF Cpus
<1>5. e.pins = L /\ e.addr = "pc" /\ e.rfsh_release = c.rfsh_release /\ e.over = c.over /\ e.im = c.im /\ e.hlx = c.hlx
  BY DEF Cpus
<1>6. e.nmi_ack = c.nmi_ack /\ e.pc = c.pc /\ e.bytes = c.bytes /\ e.pushed = c.pushed /\ e.opcode = c.opcode /\ e.spent = c.spent
  BY DEF Cpus
<1> HIDE DEF e
<1> QED BY <1>1, <1>3, <1>4, <1>5, <1>6

\* The two flip-flops a prefix sets.
LEMMA FlipsAre ==
  ASSUME NEW c \in Cpus, NEW x \in BOOLEAN
  PROVE  LET e == [c EXCEPT !.prefix_active = TRUE, !.hlx = x]
         IN /\ e \in Cpus /\ e.pins = c.pins /\ e.addr = c.addr /\ e.hlx = x
            /\ e.rfsh_release = c.rfsh_release /\ e.over = c.over /\ e.im = c.im /\ e.nmi_ack = c.nmi_ack
            /\ e.pc = c.pc /\ e.bytes = c.bytes /\ e.pushed = c.pushed /\ e.opcode = c.opcode /\ e.spent = c.spent
<1> DEFINE e == [c EXCEPT !.prefix_active = TRUE, !.hlx = x]
<1>1. e \in Cpus
  BY DEF Cpus
<1>2. e.pins = c.pins /\ e.addr = c.addr /\ e.over = c.over /\ e.im = c.im
  BY DEF Cpus
<1>3. e.rfsh_release = c.rfsh_release
  BY DEF Cpus
<1>4. e.hlx = x
  BY DEF Cpus
<1>5. e.nmi_ack = c.nmi_ack
  BY DEF Cpus
<1>6. e.pc = c.pc /\ e.bytes = c.bytes /\ e.pushed = c.pushed /\ e.opcode = c.opcode /\ e.spent = c.spent
  BY DEF Cpus
<1> HIDE DEF e
<1>7. /\ e \in Cpus /\ e.pins = c.pins /\ e.addr = c.addr /\ e.hlx = x
      /\ e.rfsh_release = c.rfsh_release /\ e.over = c.over /\ e.im = c.im /\ e.nmi_ack = c.nmi_ack
      /\ e.pc = c.pc /\ e.bytes = c.bytes /\ e.pushed = c.pushed /\ e.opcode = c.opcode /\ e.spent = c.spent
  BY <1>1, <1>2, <1>3, <1>4, <1>5, <1>6, Zenon
<1> QED BY <1>7, Zenon DEF e

\* What each prefix begins: after ED.
LEMMA EdIs == ASSUME NEW r \in Cpus PROVE Prefixed(r, BeginFetchEd(r), "EdFetch", FALSE)
<1> DEFINE a == M1Out(r)
           b == PcPostInc(a)
           d == [b EXCEPT !.prefix_active = TRUE, !.hlx = FALSE]
           e == To(d, "EdFetch")
<1>1. BeginFetchEd(r) = e /\ "EdFetch" \in Cycles
  BY DEF BeginFetchEd, Cycles, Fetches
<1>2. /\ a \in Cpus /\ a.pins = r.pins \cup {"M1"} /\ a.addr = "pc"
      /\ a.rfsh_release = r.rfsh_release /\ a.over = r.over /\ a.im = r.im /\ a.nmi_ack = r.nmi_ack
      /\ a.pc = r.pc /\ a.bytes = r.bytes /\ a.pushed = r.pushed /\ a.opcode = r.opcode /\ a.spent = r.spent
  BY M1OutIs
<1> HIDE DEF a
<1>3. /\ b \in Cpus /\ b.pins = a.pins /\ b.addr = a.addr
      /\ b.rfsh_release = a.rfsh_release /\ b.over = a.over /\ b.im = a.im /\ b.nmi_ack = a.nmi_ack
      /\ b.pc - b.bytes = a.pc - a.bytes /\ b.pushed = a.pushed /\ b.opcode = a.opcode /\ b.spent = a.spent
  BY <1>2, PcPostIncIs
<1> HIDE DEF b
<1>4. /\ d \in Cpus /\ d.pins = b.pins /\ d.addr = b.addr /\ d.hlx = FALSE
      /\ d.rfsh_release = b.rfsh_release /\ d.over = b.over /\ d.im = b.im /\ d.nmi_ack = b.nmi_ack
      /\ d.pc = b.pc /\ d.bytes = b.bytes /\ d.pushed = b.pushed /\ d.opcode = b.opcode /\ d.spent = b.spent
  BY <1>3, FlipsAre
<1> HIDE DEF d
<1>5. e \in Cpus /\ e.step = [cycle |-> "EdFetch", half |-> 1] /\ Stays(e, d)
  BY <1>1, <1>4, ToIs
<1> HIDE DEF e
<1>6. e.rfsh_release = r.rfsh_release /\ e.nmi_ack = r.nmi_ack /\ e.hlx = FALSE
  BY <1>2, <1>3, <1>4, <1>5, Zenon DEF Stays
<1>7. /\ e.pins = r.pins \cup {"M1"} /\ e.addr = "pc" /\ e.over = r.over /\ e.im = r.im
      /\ e.pc - e.bytes = r.pc - r.bytes /\ e.pushed = r.pushed /\ e.opcode = r.opcode /\ e.spent = r.spent
  BY <1>2, <1>3, <1>4, <1>5 DEF Stays
<1>8. Prefixed(r, e, "EdFetch", FALSE)
  BY <1>5, <1>6, <1>7 DEF Prefixed
<1> QED BY <1>1, <1>8

\* After DD or FD.
LEMMA DdIs == ASSUME NEW r \in Cpus PROVE Prefixed(r, BeginFetchDd(r), "DdFdFetch", TRUE)
<1> DEFINE a == M1Out(r)
           b == PcPostInc(a)
           d == [b EXCEPT !.prefix_active = TRUE, !.hlx = TRUE]
           e == To(d, "DdFdFetch")
<1>1. BeginFetchDd(r) = e /\ "DdFdFetch" \in Cycles
  BY DEF BeginFetchDd, Cycles, Fetches
<1>2. /\ a \in Cpus /\ a.pins = r.pins \cup {"M1"} /\ a.addr = "pc"
      /\ a.rfsh_release = r.rfsh_release /\ a.over = r.over /\ a.im = r.im /\ a.nmi_ack = r.nmi_ack
      /\ a.pc = r.pc /\ a.bytes = r.bytes /\ a.pushed = r.pushed /\ a.opcode = r.opcode /\ a.spent = r.spent
  BY M1OutIs
<1> HIDE DEF a
<1>3. /\ b \in Cpus /\ b.pins = a.pins /\ b.addr = a.addr
      /\ b.rfsh_release = a.rfsh_release /\ b.over = a.over /\ b.im = a.im /\ b.nmi_ack = a.nmi_ack
      /\ b.pc - b.bytes = a.pc - a.bytes /\ b.pushed = a.pushed /\ b.opcode = a.opcode /\ b.spent = a.spent
  BY <1>2, PcPostIncIs
<1> HIDE DEF b
<1>4. /\ d \in Cpus /\ d.pins = b.pins /\ d.addr = b.addr /\ d.hlx = TRUE
      /\ d.rfsh_release = b.rfsh_release /\ d.over = b.over /\ d.im = b.im /\ d.nmi_ack = b.nmi_ack
      /\ d.pc = b.pc /\ d.bytes = b.bytes /\ d.pushed = b.pushed /\ d.opcode = b.opcode /\ d.spent = b.spent
  BY <1>3, FlipsAre
<1> HIDE DEF d
<1>5. e \in Cpus /\ e.step = [cycle |-> "DdFdFetch", half |-> 1] /\ Stays(e, d)
  BY <1>1, <1>4, ToIs
<1> HIDE DEF e
<1>6. e.rfsh_release = r.rfsh_release /\ e.nmi_ack = r.nmi_ack /\ e.hlx = TRUE
  BY <1>2, <1>3, <1>4, <1>5, Zenon DEF Stays
<1>7. /\ e.pins = r.pins \cup {"M1"} /\ e.addr = "pc" /\ e.over = r.over /\ e.im = r.im
      /\ e.pc - e.bytes = r.pc - r.bytes /\ e.pushed = r.pushed /\ e.opcode = r.opcode /\ e.spent = r.spent
  BY <1>2, <1>3, <1>4, <1>5 DEF Stays
<1>8. Prefixed(r, e, "DdFdFetch", TRUE)
  BY <1>5, <1>6, <1>7 DEF Prefixed
<1> QED BY <1>1, <1>8

\* After CB: of DD CB, a displacement.
LEMMA CbIs ==
  ASSUME NEW r \in Cpus
  PROVE  /\ r.hlx => Prefixed(r, BeginFetchCb(r), "DdCb", r.hlx)
         /\ ~r.hlx => Prefixed(r, BeginFetchCb(r), "CbFetch", r.hlx)
<1> DEFINE b == PcPostInc(r)
           d == [b EXCEPT !.prefix_active = TRUE]
           x == [d EXCEPT !.addr = "pc"]
           y == M1Out(d)
<1>1. /\ b \in Cpus /\ b.pins = r.pins /\ b.addr = r.addr /\ b.hlx = r.hlx
      /\ b.rfsh_release = r.rfsh_release /\ b.over = r.over /\ b.im = r.im /\ b.nmi_ack = r.nmi_ack
      /\ b.pc - b.bytes = r.pc - r.bytes /\ b.pushed = r.pushed /\ b.opcode = r.opcode /\ b.spent = r.spent
  BY PcPostIncIs
<1>2. BeginFetchCb(r) = IF r.hlx THEN To(x, "DdCb") ELSE To(y, "CbFetch")
  BY DEF BeginFetchCb
<1>3. "DdCb" \in Cycles /\ "CbFetch" \in Cycles
  BY DEF Cycles, Fetches, Indexing
<1> HIDE DEF b
<1>4. /\ d \in Cpus /\ d.pins = b.pins /\ d.addr = b.addr /\ d.hlx = b.hlx
      /\ d.rfsh_release = b.rfsh_release /\ d.over = b.over /\ d.im = b.im /\ d.nmi_ack = b.nmi_ack
      /\ d.pc = b.pc /\ d.bytes = b.bytes /\ d.pushed = b.pushed /\ d.opcode = b.opcode /\ d.spent = b.spent
  <2>1. d \in Cpus
    BY <1>1 DEF Cpus
  <2>2. d.pins = b.pins /\ d.addr = b.addr /\ d.rfsh_release = b.rfsh_release /\ d.over = b.over /\ d.im = b.im /\ d.hlx = b.hlx
    BY <1>1 DEF Cpus
  <2>3. d.nmi_ack = b.nmi_ack /\ d.pc = b.pc /\ d.bytes = b.bytes /\ d.pushed = b.pushed /\ d.opcode = b.opcode /\ d.spent = b.spent
    BY <1>1 DEF Cpus
  <2> HIDE DEF d
  <2> QED BY <2>1, <2>2, <2>3
<1> HIDE DEF d
<1>5. CASE r.hlx
  <2>1. x \in Cpus
    BY <1>4 DEF Cpus
  <2>2. x.pins = d.pins /\ x.addr = "pc" /\ x.rfsh_release = d.rfsh_release /\ x.over = d.over /\ x.im = d.im /\ x.hlx = d.hlx
    BY <1>4 DEF Cpus
  <2>3. x.nmi_ack = d.nmi_ack /\ x.pc = d.pc /\ x.bytes = d.bytes /\ x.pushed = d.pushed /\ x.opcode = d.opcode /\ x.spent = d.spent
    BY <1>4 DEF Cpus
  <2> DEFINE e == To(x, "DdCb")
  <2> HIDE DEF x
  <2>4. e \in Cpus /\ e.step = [cycle |-> "DdCb", half |-> 1] /\ Stays(e, x)
    BY <1>3, <2>1, ToIs
  <2>5. BeginFetchCb(r) = e
    BY <1>2, <1>5
  <2> HIDE DEF e
  <2>6. e.rfsh_release = r.rfsh_release /\ e.nmi_ack = r.nmi_ack /\ e.hlx = r.hlx
    BY <1>1, <1>4, <2>2, <2>3, <2>4, Zenon DEF Stays
  <2>7. /\ e.pins = r.pins /\ e.addr = "pc" /\ e.over = r.over /\ e.im = r.im
        /\ e.pc - e.bytes = r.pc - r.bytes /\ e.pushed = r.pushed /\ e.opcode = r.opcode /\ e.spent = r.spent
    BY <1>1, <1>4, <2>2, <2>3, <2>4 DEF Stays
  <2>8. Prefixed(r, e, "DdCb", r.hlx)
    BY <2>4, <2>6, <2>7 DEF Prefixed
  <2> QED BY <1>5, <2>5, <2>8
<1>6. CASE ~r.hlx
  <2>1. /\ y \in Cpus /\ y.pins = d.pins \cup {"M1"} /\ y.addr = "pc" /\ y.hlx = d.hlx
        /\ y.rfsh_release = d.rfsh_release /\ y.over = d.over /\ y.im = d.im /\ y.nmi_ack = d.nmi_ack
        /\ y.pc = d.pc /\ y.bytes = d.bytes /\ y.pushed = d.pushed /\ y.opcode = d.opcode /\ y.spent = d.spent
    BY <1>4, M1OutIs
  <2> DEFINE e == To(y, "CbFetch")
  <2> HIDE DEF y
  <2>2. e \in Cpus /\ e.step = [cycle |-> "CbFetch", half |-> 1] /\ Stays(e, y)
    BY <1>3, <2>1, ToIs
  <2>3. BeginFetchCb(r) = e
    BY <1>2, <1>6
  <2> HIDE DEF e
  <2>4. e.rfsh_release = r.rfsh_release /\ e.nmi_ack = r.nmi_ack /\ e.hlx = r.hlx
    BY <1>1, <1>4, <2>1, <2>2, Zenon DEF Stays
  <2>5. /\ e.pins = r.pins \cup {"M1"} /\ e.addr = "pc" /\ e.over = r.over /\ e.im = r.im
        /\ e.pc - e.bytes = r.pc - r.bytes /\ e.pushed = r.pushed /\ e.opcode = r.opcode /\ e.spent = r.spent
    BY <1>1, <1>4, <2>1, <2>2 DEF Stays
  <2>6. Prefixed(r, e, "CbFetch", r.hlx)
    BY <2>2, <2>4, <2>5 DEF Prefixed
  <2> QED BY <1>6, <2>3, <2>6
<1> QED BY <1>5, <1>6

-----------------------------------------------------------------------------
(* The table, followed from a step of the CPU.                             *)

\* Where the table is after each half-clock, from its first to its last.
LEMMA PlaceIs ==
  ASSUME NEW cycle \in Cycles
  PROVE  Through(Kind(cycle), Cycle(cycle), Place(cycle), Begins(cycle), Ends(cycle))
<1>1. \E ps : Through(Kind(cycle), Cycle(cycle), ps, Begins(cycle), Ends(cycle))
  BY Table DEF Leads
<1> QED BY <1>1 DEF Place

\* The half-clock at a step, and the step after it.
OnTable(step, h) ==
  /\ h \in Halves /\ Where(step) \in Tracks /\ Tidy(Kind(step.cycle), Where(step), h)
  /\ h.do \in Ongoing =>
       /\ step.half + 1 \in 1..Len(Cycle(step.cycle))
       /\ Where([cycle |-> step.cycle, half |-> step.half + 1]) = Left(Where(step), h)
  /\ h.do \notin Ongoing => h.do = Closing(step.cycle) /\ Left(Where(step), h) = Ends(step.cycle)

\* The table, one half-clock at a time.
LEMMA Follows ==
  ASSUME NEW cycle \in Cycles, NEW i \in 1..Len(Cycle(cycle))
  PROVE  OnTable([cycle |-> cycle, half |-> i], At([cycle |-> cycle, half |-> i]))
<1> DEFINE s == Cycle(cycle)
           ps == Place(cycle)
           step == [cycle |-> cycle, half |-> i]
           h == s[i]
<1>1. /\ s \in Seq(Halves) /\ ps \in Seq(Tracks) /\ Len(ps) = Len(s) /\ Len(s) \in Nat
      /\ \A j \in 1..Len(s) : /\ Tidy(Kind(cycle), ps[j], s[j])
                              /\ Left(ps[j], s[j]) = IF j = Len(s) THEN Ends(cycle) ELSE ps[j + 1]
  BY PlaceIs DEF Through
<1>2. At(step) = h /\ step.cycle = cycle /\ step.half = i /\ Where(step) = ps[i]
      /\ Where([cycle |-> cycle, half |-> i + 1]) = ps[i + 1]
  BY DEF At, Cycle, Where
<1>3. h \in Halves /\ ps[i] \in Tracks /\ Tidy(Kind(cycle), ps[i], h)
  BY <1>1
<1>4. Left(ps[i], h).on = On(h.do)
  BY DEF Left, Track
<1>5. Ends(cycle).on = Closing(cycle) /\ Closing(cycle) \notin Ongoing /\ Closing(cycle) # "on"
  BY DEF Ends, Track, Closing, Ongoing, Cycles, Going
<1>6. CASE i = Len(s)
  <2>1. Left(ps[i], h) = Ends(cycle)
    BY <1>1, <1>6
  <2>2. h.do \notin Ongoing /\ h.do = Closing(cycle)
    BY <1>4, <1>5, <2>1 DEF On
  <2> QED BY <1>2, <1>3, <2>1, <2>2 DEF OnTable
<1>7. CASE i # Len(s)
  <2>1. i + 1 \in 1..Len(s) /\ Left(ps[i], h) = ps[i + 1]
    BY <1>1, <1>7
  <2>2. ps[i + 1].on = "on"
    BY <1>1, <2>1 DEF Tidy
  <2>3. h.do \in Ongoing
    <3>1. On(h.do) = "on"
      BY <1>4, <2>1, <2>2
    <3>2. h.do # "on"
      BY <1>3 DEF Halves, Dos, Ongoing, Ending
    <3> QED BY <3>1, <3>2 DEF On
  <2> QED BY <1>2, <1>3, <2>1, <2>3 DEF OnTable
<1> QED BY <1>6, <1>7

\* Where a cycle begins.
LEMMA Starts ==
  ASSUME NEW cycle \in Cycles
  PROVE  1 \in 1..Len(Cycle(cycle)) /\ Where([cycle |-> cycle, half |-> 1]) = Begins(cycle)
<1>1. Place(cycle)[1] = Begins(cycle) /\ Cycle(cycle) \in Seq(Halves) /\ Len(Cycle(cycle)) # 0
  BY PlaceIs DEF Through
<1> QED BY <1>1 DEF Where

\* The fields of a place in the table.
LEMMA TracksAre ==
  /\ \A P \in Tracks, h \in Halves :
       LET Q == Left(P, h)
       IN /\ Q.lines = Driven(P.lines, h) \ (IF h.do \in Releasing THEN {"RFSH"} ELSE {})
          /\ Q.t = P.t + 1 /\ Q.r = P.r + (IF h.addr = "ir" THEN 1 ELSE 0) /\ Q.b = P.b + Byte(h.do)
  /\ \A cycle \in Cycles :
       /\ Begins(cycle).lines = (IF cycle \in Refreshing THEN {"M1"} ELSE {})
       /\ Begins(cycle).t = 0 /\ Begins(cycle).r = 0 /\ Begins(cycle).b = 0
       /\ Ends(cycle).lines = {} /\ Ends(cycle).t = Lasting(cycle)
       /\ Ends(cycle).r = (IF cycle \in Refreshing THEN 1 ELSE 0)
       /\ Ends(cycle).b = (IF cycle \in Fetches \cup {"DdCb", "Acknowledge"} THEN 1 ELSE 0)
  /\ Acknowledged.lines = {} /\ Acknowledged.t = 11 /\ Acknowledged.r = 1 /\ Acknowledged.b = 1
  BY DEF Left, Track, Begins, Ends, Acknowledged

-----------------------------------------------------------------------------
(* A word more.                                                            *)

\* A word more: one opcode, eight half-clocks, and what was told of the others.
LEMMA Appended ==
  ASSUME NEW w \in Seq(Words), NEW x \in AllOps
  PROVE  LET v == Append(w, x)
         IN /\ v \in Seq(Words) /\ Len(v) = Len(w) + 1 /\ v[Len(v)] = x
            /\ \A i \in 1..Len(w) : v[i] = w[i]
            /\ Ints(v) = Ints(w) /\ Count(v) = Count(w) + 1 /\ Opened(v) = Opened(w) + 8
            /\ Count(w) \in Nat /\ Opened(w) \in Nat
<1> DEFINE v == Append(w, x)
<1>1. x \in Words /\ x # "int" /\ x # "nmi" /\ Len(w) \in Nat
  BY DEF Words, AllOps, Opcodes, EdOpcodes, CbOpcodes, DdCbOpcodes, PrefixBytes
<1>2. v \in Seq(Words) /\ Len(v) = Len(w) + 1 /\ v[Len(w) + 1] = x /\ \A i \in 1..Len(w) : v[i] = w[i]
  BY <1>1
<1> HIDE DEF v
<1>3. Ints(v) <=> Ints(w)
  <2>1. CASE Len(w) = 0
    <3>1. Len(v) = 1 /\ v[1] = x
      BY <1>2, <2>1
    <3> QED BY <1>1, <2>1, <3>1 DEF Ints
  <2>2. CASE Len(w) # 0
    <3>1. 1 \in 1..Len(w) /\ Len(v) # 0
      BY <1>1, <1>2, <2>2
    <3> QED BY <1>2, <2>2, <3>1 DEF Ints
  <2> QED BY <2>1, <2>2
<1>4. Ints(v) = Ints(w)
  BY <1>3 DEF Ints
<1>5. Count(w) \in Nat /\ Count(v) = Count(w) + 1
  BY <1>1, <1>2, <1>3 DEF Count, Ints
<1>6. Opened(w) \in Nat /\ Opened(v) = Opened(w) + 8
  <2> DEFINE n == Count(w)
  <2>1. n \in Nat /\ Count(v) = n + 1
    BY <1>5
  <2> HIDE DEF n
  <2>2. Opened(v) = 8 * (n + 1) + (IF Ints(w) THEN 4 ELSE 0) /\ Opened(w) = 8 * n + (IF Ints(w) THEN 4 ELSE 0)
    BY <1>3, <2>1 DEF Opened, n
  <2> QED BY <2>1, <2>2
<1> QED BY <1>2, <1>4, <1>5, <1>6 DEF v

\* What each fetch latches.
Latches(cycle, x) ==
  /\ cycle \in Fetches \cup {"DdCb"}
  /\ cycle \in {"PlainFetch", "DdFdFetch"} => x \in Opcodes
  /\ cycle = "EdFetch" => x \in EdOpcodes \cup {"halt"}
  /\ cycle = "CbFetch" => x \in CbOpcodes \cup {"halt"}
  /\ cycle = "DdCb" => x \in DdCbOpcodes

\* A byte latched: it is one more word, and one more opcode fetched.
LEMMA LatchedIs ==
  ASSUME NEW cycle, NEW w \in Seq(Words), NEW x, Latches(cycle, x), Fetching(cycle, 0, w),
         NEW op, NEW hlx, Running(cycle, w, op, hlx)
  PROVE  LET v == Append(w, x)
         IN /\ x \in AllOps /\ v \in Seq(Words) /\ Fetching(cycle, 1, v) /\ Running(cycle, v, x, hlx)
            /\ Since(cycle, 1, v) = Since(cycle, 0, w) /\ Before(cycle, 1, v) = Before(cycle, 0, w)
            /\ Len(v) # 0
<1> DEFINE v == Append(w, x)
<1>1. x \in AllOps
  BY DEF Latches, AllOps, Opcodes, Fetches
<1>2. /\ v \in Seq(Words) /\ Len(v) = Len(w) + 1 /\ v[Len(v)] = x
      /\ \A i \in 1..Len(w) : v[i] = w[i]
      /\ Ints(v) = Ints(w) /\ Count(v) = Count(w) + 1 /\ Opened(v) = Opened(w) + 8
      /\ Count(w) \in Nat /\ Opened(w) \in Nat
  BY <1>1, Appended
<1>3. Len(w) \in Nat /\ x # "nmi" /\ x # "int"
  BY <1>1 DEF AllOps, Opcodes, EdOpcodes, CbOpcodes, DdCbOpcodes, PrefixBytes
<1>4. cycle \in {"PlainFetch", "EdFetch", "CbFetch", "DdFdFetch", "DdCb"}
  BY DEF Latches, Fetches
<1> HIDE DEF v
<1>5. Fetching(cycle, 1, v)
  <2>1. Len(w) # 0 => Len(w) \in 1..Len(w)
    BY <1>3
  <2>2. Len(w) > 1 => Len(w) - 1 \in 1..Len(w)
    BY <1>3
  <2>3. CASE cycle = "PlainFetch"
    <3>1. Len(w) = 0
      BY <2>3 DEF Fetching
    <3>2. Len(v) = 1 /\ v[1] = x /\ x \in Opcodes
      BY <1>2, <2>3, <3>1 DEF Latches
    <3> QED BY <2>3, <3>2 DEF Fetching
  <2>4. CASE cycle \in {"EdFetch", "CbFetch", "DdFdFetch"}
    <3>1. Len(w) > 0 /\ Len(w) - 0 = Len(w) /\ Len(v) - 1 = Len(w) /\ v[Len(w)] = w[Len(w)] /\ Len(v) > 1
      BY <1>2, <1>3, <2>1, <2>4 DEF Fetching
    <3> QED BY <1>2, <2>4, <3>1 DEF Fetching, Latches
  <2>5. CASE cycle = "DdCb"
    <3>1. Len(w) - 0 > 1 /\ Len(w) - 0 = Len(w) /\ w[Len(w)] = "CB" /\ w[Len(w) - 1] = "DD"
      BY <1>3, <2>5 DEF Fetching
    <3>2. Len(w) \in 1..Len(w) /\ Len(w) - 1 \in 1..Len(w) /\ Len(v) - 1 = Len(w)
      BY <1>2, <1>3, <3>1
    <3>3. v[Len(v) - 1] = "CB" /\ v[Len(v) - 1 - 1] = "DD"
      BY <1>2, <3>1, <3>2
    <3>4. Len(v) - 1 > 1
      BY <3>1, <3>2
    <3>5. v[Len(v)] \in DdCbOpcodes
      BY <1>2, <2>5 DEF Latches
    <3> QED BY <2>5, <3>3, <3>4, <3>5 DEF Fetching
  <2> QED BY <1>4, <2>3, <2>4, <2>5
<1>6. Running(cycle, v, x, hlx)
  <2>1. hlx => cycle \in {"DdFdFetch"} \cup Indexing
    BY <1>4 DEF Running, Going
  <2>2. CASE Len(w) = 0
    <3>1. v[1] = x
      BY <1>2, <2>2
    <3> QED BY <1>2, <1>3, <2>1, <2>2, <3>1 DEF Running
  <2>3. CASE Len(w) # 0
    <3>1. cycle \notin Interrupting
      BY <1>4 DEF Interrupting
    <3>2. w[1] # "nmi" /\ (w[1] = "int" => Len(w) > 1 /\ w[2] \notin {"im1", "im2"})
      BY <2>3, <3>1 DEF Running
    <3>3. v[1] = w[1]
      BY <1>2, <1>3, <2>3
    <3>4. Len(w) > 1 => v[2] = w[2]
      BY <1>2, <1>3
    <3> QED BY <1>2, <1>3, <2>1, <3>2, <3>3, <3>4 DEF Running
  <2> QED BY <2>2, <2>3
<1>7. Since(cycle, 1, v) = Since(cycle, 0, w) /\ Before(cycle, 1, v) = Before(cycle, 0, w)
  <2>1. CASE cycle = "PlainFetch"
    BY <2>1 DEF Since, Before
  <2>2. CASE cycle \in {"EdFetch", "CbFetch", "DdFdFetch", "DdCb"}
    <3>1. /\ Since(cycle, 1, v) = Opened(v) - 8 * 1 + 1 /\ Since(cycle, 0, w) = Opened(w) - 8 * 0 + 1
          /\ Before(cycle, 1, v) = Count(v) - 1 /\ Before(cycle, 0, w) = Count(w) - 0
      BY <2>2 DEF Since, Before
    <3> QED BY <1>2, <3>1
  <2> QED BY <1>4, <2>1, <2>2
<1> QED BY <1>1, <1>2, <1>3, <1>5, <1>6, <1>7 DEF v

-----------------------------------------------------------------------------
(* The invariant, kept within a cycle.                                     *)

\* A CPU that is placed has a step of the table.
LEMMA StepIs ==
  ASSUME NEW c \in Cpus, Placed(c)
  PROVE  /\ OnTable(c.step, At(c.step)) /\ c.step.cycle \in Cycles /\ c.step.half \in Nat \ {0}
         /\ c.step = [cycle |-> c.step.cycle, half |-> c.step.half]
<1>1. c.step.cycle \in Cycles /\ c.step.half \in Nat \ {0} /\ c.step = [cycle |-> c.step.cycle, half |-> c.step.half]
  BY DEF Cpus
<1>2. c.step.half \in 1..Len(Cycle(c.step.cycle))
  BY DEF Placed
<1> QED BY <1>1, <1>2, Follows

\* What a byte fetched can be.
LEMMA FetchedAre ==
  ASSUME NEW c, NEW byte \in Fetched(c)
  PROVE  /\ byte \in AllOps
         /\ c.step.cycle \in Fetches => Latches(c.step.cycle, byte) /\ Latches(c.step.cycle, "halt")
         /\ c.step.cycle = "DdCb" => Latches(c.step.cycle, byte)
         /\ c.step.cycle = "Acknowledge" => byte \in Opcodes
<1> DEFINE table == CASE c.step.cycle = "EdFetch" -> EdOpcodes
                      [] c.step.cycle = "CbFetch" -> CbOpcodes
                      [] c.step.cycle = "DdCb" -> DdCbOpcodes
                      [] OTHER -> Opcodes
<1>1. byte \in table
  BY DEF Fetched
<1>2. "halt" \in Opcodes
  BY DEF Opcodes
<1>3. CASE c.step.cycle \in {"EdFetch", "CbFetch", "DdCb"}
  BY <1>1, <1>3 DEF Latches, Fetches, AllOps
<1>4. CASE c.step.cycle \notin {"EdFetch", "CbFetch", "DdCb"}
  BY <1>1, <1>2, <1>4 DEF Latches, Fetches, AllOps
<1> QED BY <1>3, <1>4

\* What the table says of the half-clock that c is at, where it ran.
LEMMA RanIs ==
  ASSUME NEW c, Inv(c), NEW r, Ran(c, r, At(c.step))
  PROVE  LET h == At(c.step)
             P == Where(c.step)
             Q == Left(P, h)
         IN /\ r.pins \ (IF h.do \in Releasing THEN {"RFSH"} ELSE {}) = Q.lines
            /\ r.spent.what = c.spent.what
            /\ r.spent.halves = c.spent.halves + 1 /\ c.spent.halves \in Int /\ c.spent.refreshed \in Int
            /\ r.spent.refreshed + P.r = c.spent.refreshed + Q.r /\ P.r \in Nat /\ Q.r \in Nat
            /\ Q.t = P.t + 1 /\ P.t \in Nat /\ Q.b = P.b + Byte(h.do) /\ P.b \in {0, 1}
            /\ h.do \in Latching => P.b = 0
            /\ r.pc = r.bytes /\ r.pushed = 0 /\ r.over = Nothing /\ r \in Cpus
            /\ c.step.cycle \in Interrupting => r.bytes = 0
<1> DEFINE h == At(c.step)
           P == Where(c.step)
           Q == Left(P, h)
           cycle == c.step.cycle
<1>1. c \in Cpus /\ Placed(c) /\ AtHome(c) /\ Told(c)
  BY DEF Inv
<1>2. OnTable(c.step, h) /\ cycle \in Cycles
  BY <1>1, StepIs
<1>3. h \in Halves /\ P \in Tracks /\ Tidy(Kind(cycle), P, h)
  BY <1>2 DEF OnTable
<1>4. /\ Q.lines = Driven(P.lines, h) \ (IF h.do \in Releasing THEN {"RFSH"} ELSE {})
      /\ Q.t = P.t + 1 /\ Q.r = P.r + (IF h.addr = "ir" THEN 1 ELSE 0) /\ Q.b = P.b + Byte(h.do)
  BY <1>3, TracksAre
<1>5. P.t \in Nat /\ P.r \in Nat
  BY <1>3 DEF Tracks
<1>6. P.b \in {0, 1}
  BY <1>1 DEF Told
<1>7. c.spent \in Spents /\ c.spent.halves \in Int /\ c.spent.refreshed \in Int
  BY <1>1 DEF Cpus, Spents
<1>8. /\ r.spent.what = c.spent.what /\ r.spent.halves = c.spent.halves + 1
      /\ r.spent.refreshed = c.spent.refreshed + (IF h.addr = "ir" THEN 1 ELSE 0)
  BY DEF Ran
<1>9. r.pins = Driven(P.lines, h)
  BY <1>1 DEF Ran, Placed
<1>10. c.pc = c.bytes /\ c.pushed = 0 /\ (cycle \in Interrupting => c.bytes = 0) /\ c.pc \in Int /\ c.bytes \in Int
  BY <1>1 DEF AtHome, Cpus
<1>11. r \in Cpus /\ r.pc \in Int /\ r.bytes \in Int /\ r.over = Nothing
  BY DEF Ran, Cpus
<1>12. r.pc = r.bytes
  <2>1. r.pc - r.bytes = c.pc - c.bytes
    BY DEF Ran
  <2> QED BY <1>10, <1>11, <2>1
<1>13. r.pushed = 0
  BY <1>10 DEF Ran, Keeps
<1>14. cycle \in Interrupting => r.bytes = 0
  <2>1. cycle \in Interrupting => h.addr # "pc"
    BY <1>3 DEF Tidy, Kind, Interrupting, Fetches
  <2>2. h.addr # "pc" => r.pc = c.pc
    BY DEF Ran
  <2> QED BY <1>10, <1>12, <2>1, <2>2
<1>15. r.spent.refreshed + P.r = c.spent.refreshed + Q.r /\ Q.r \in Nat
  BY <1>4, <1>5, <1>7, <1>8
<1>16. h.do \in Latching => P.b = 0
  BY <1>3 DEF Tidy
<1> HIDE DEF h, P, Q
<1>17. /\ r.pins \ (IF h.do \in Releasing THEN {"RFSH"} ELSE {}) = Q.lines
       /\ r.spent.what = c.spent.what
       /\ r.spent.halves = c.spent.halves + 1 /\ c.spent.halves \in Int /\ c.spent.refreshed \in Int
       /\ r.spent.refreshed + P.r = c.spent.refreshed + Q.r /\ P.r \in Nat /\ Q.r \in Nat
       /\ Q.t = P.t + 1 /\ P.t \in Nat /\ Q.b = P.b + Byte(h.do) /\ P.b \in {0, 1}
       /\ h.do \in Latching => P.b = 0
       /\ r.pc = r.bytes /\ r.pushed = 0 /\ r.over = Nothing /\ r \in Cpus
       /\ cycle \in Interrupting => r.bytes = 0
  BY <1>4, <1>5, <1>6, <1>7, <1>8, <1>9, <1>11, <1>12, <1>13, <1>14, <1>15, <1>16
<1> QED BY <1>17, Zenon DEF h, P, Q

\* A word is latched, or told by the acknowledge, or none is.
Latched(c, h, op, w) ==
  \/ h.do \notin Latching /\ op = c.opcode /\ w = c.spent.what
  \/ h.do \in {"latch", "suffix"} /\ Latches(c.step.cycle, op) /\ w = Append(c.spent.what, op)
  \/ h.do = "acknowledged" /\ c.im # 0 /\ op = c.opcode /\ w = <<"int", IF c.im = 1 THEN "im1" ELSE "im2">>

\* What is told of the words at the next half-clock.
LEMMA ToldOn ==
  ASSUME NEW c, Inv(c), NEW h, h = At(c.step), NEW op, NEW w, Latched(c, h, op, w)
  PROVE  LET b == Where(c.step).b + Byte(h.do)
             cycle == c.step.cycle
         IN /\ b \in {0, 1}
            /\ Fetching(cycle, b, w) /\ Working(cycle, w)
            /\ Answering(cycle, b, w, c.im, c.nmi_ack) /\ Running(cycle, w, op, c.hlx)
            /\ Since(cycle, b, w) = Since(cycle, Where(c.step).b, c.spent.what)
            /\ Before(cycle, b, w) = Before(cycle, Where(c.step).b, c.spent.what)
            /\ (c.spent.what = <<>> /\ cycle = "op" => w = <<>>)
<1> DEFINE cycle == c.step.cycle
           p == Where(c.step).b
           v == c.spent.what
<1>1. c \in Cpus /\ Placed(c) /\ Told(c)
  BY DEF Inv
<1>2. OnTable(c.step, h) /\ cycle \in Cycles
  BY <1>1, StepIs
<1>3. Does(Kind(cycle), h.do) /\ (h.do \in Latching => p = 0)
  BY <1>2 DEF OnTable, Tidy
<1>4. /\ p \in {0, 1} /\ Fetching(cycle, p, v) /\ Working(cycle, v)
      /\ Answering(cycle, p, v, c.im, c.nmi_ack) /\ Running(cycle, v, c.opcode, c.hlx)
  BY <1>1 DEF Told
<1>5. v \in Seq(Words)
  BY <1>1 DEF Cpus, Spents
<1> HIDE DEF p, v
<1>6. CASE h.do \notin Latching /\ op = c.opcode /\ w = v
  <2>1. p + Byte(h.do) = p
    BY <1>4, <1>6 DEF Byte
  <2> QED BY <1>4, <1>6, <2>1 DEF p, v
<1>7. CASE h.do \in {"latch", "suffix"} /\ Latches(cycle, op) /\ w = Append(v, op)
  <2>1. p = 0 /\ p + Byte(h.do) = 1
    BY <1>3, <1>7 DEF Byte, Latching
  <2>2. cycle \in Fetches \cup {"DdCb"}
    BY <1>7 DEF Latches
  <2>3. /\ Fetching(cycle, 1, w) /\ Running(cycle, w, op, c.hlx)
        /\ Since(cycle, 1, w) = Since(cycle, 0, v) /\ Before(cycle, 1, w) = Before(cycle, 0, v)
    BY <1>4, <1>5, <1>7, <2>1, LatchedIs
  <2>4. Working(cycle, w)
    BY <2>2 DEF Working, Fetches, Going
  <2>5. Answering(cycle, 1, w, c.im, c.nmi_ack)
    <3>1. ~c.nmi_ack
      BY <1>4, <2>2 DEF Answering, Fetches
    <3> QED BY <2>2, <3>1 DEF Answering, Fetches
  <2>6. cycle # "op"
    BY <2>2 DEF Fetches
  <2> QED BY <2>1, <2>3, <2>4, <2>5, <2>6 DEF p, v
<1>8. CASE h.do = "acknowledged" /\ c.im # 0 /\ op = c.opcode /\ w = <<"int", IF c.im = 1 THEN "im1" ELSE "im2">>
  <2>1. p = 0 /\ p + Byte(h.do) = 1
    BY <1>3, <1>8 DEF Byte, Latching
  <2>2. cycle = "Acknowledge"
    BY <1>2, <1>3, <1>8 DEF Does, Kind, Fetches, Interrupting
  <2>3. v = <<"int">> /\ ~c.nmi_ack
    BY <1>4, <2>1, <2>2 DEF Answering
  <2>4. Fetching(cycle, 1, w) /\ Working(cycle, w) /\ Running(cycle, w, op, c.hlx)
    <3>1. Fetching(cycle, 1, w) /\ Working(cycle, w)
      BY <2>2 DEF Fetching, Working, Going
    <3>2. cycle \in Interrupting /\ ~c.hlx
      BY <1>4, <2>2 DEF Running, Interrupting, Indexing, Going
    <3> QED BY <3>1, <3>2 DEF Running
  <2>5. Answering(cycle, 1, w, c.im, c.nmi_ack)
    <3>1. c.im = 1 \/ c.im = 2
      BY <1>1, <1>8 DEF Cpus
    <3> QED BY <1>8, <2>2, <2>3, <3>1 DEF Answering
  <2>6. Since(cycle, 1, w) = Since(cycle, 0, v) /\ Before(cycle, 1, w) = Before(cycle, 0, v)
    BY <2>2 DEF Since, Before
  <2> QED BY <2>1, <2>2, <2>4, <2>5, <2>6 DEF p, v
<1> QED BY <1>6, <1>7, <1>8 DEF Latched, v

\* A half-clock that goes on in its cycle keeps the invariant.
LEMMA KeptOn ==
  ASSUME NEW c, Inv(c), NEW r, Ran(c, r, At(c.step)), At(c.step).do \in Ongoing,
         NEW e, NEW op, NEW w, Latched(c, At(c.step), op, w), Carried(r, e, At(c.step).do, op, w)
  PROVE  Inv(e) /\ e.pins = Driven(Up(c), At(c.step)) /\ e.addr = r.addr /\ e.step.half # 1
<1> DEFINE h == At(c.step)
           P == Where(c.step)
           Q == Left(P, h)
           cycle == c.step.cycle
           v == c.spent.what
<1>1. c \in Cpus /\ Placed(c) /\ Told(c) /\ Counted(c)
  BY DEF Inv
<1>2. OnTable(c.step, h) /\ cycle \in Cycles /\ c.step.half \in Nat \ {0}
  BY <1>1, StepIs
<1>3. /\ r.pins \ (IF h.do \in Releasing THEN {"RFSH"} ELSE {}) = Q.lines
      /\ r.spent.what = c.spent.what
      /\ r.spent.halves = c.spent.halves + 1 /\ c.spent.halves \in Int /\ c.spent.refreshed \in Int
      /\ r.spent.refreshed + P.r = c.spent.refreshed + Q.r /\ P.r \in Nat /\ Q.r \in Nat
      /\ Q.t = P.t + 1 /\ P.t \in Nat /\ Q.b = P.b + Byte(h.do) /\ P.b \in {0, 1}
      /\ h.do \in Latching => P.b = 0
      /\ r.pc = r.bytes /\ r.pushed = 0 /\ r.over = Nothing /\ r \in Cpus
      /\ cycle \in Interrupting => r.bytes = 0
  BY RanIs
<1>4. r.step = c.step /\ r.im = c.im /\ r.nmi_ack = c.nmi_ack /\ r.hlx = c.hlx /\ r.rfsh_release = FALSE
  BY DEF Ran, Keeps
<1>5. /\ e \in Cpus /\ e.step = [cycle |-> cycle, half |-> c.step.half + 1] /\ e.pins = r.pins /\ e.addr = r.addr
      /\ e.over = Nothing /\ e.im = c.im /\ e.bytes = r.bytes
      /\ e.pc = (IF h.do = "jump" THEN 0 ELSE r.pc) /\ e.pushed = (IF h.do = "push_high" THEN r.pc ELSE r.pushed)
      /\ e.opcode = op /\ e.spent = [what |-> w, halves |-> r.spent.halves, refreshed |-> r.spent.refreshed]
  BY <1>3, <1>4 DEF Carried
<1>6. e.rfsh_release = (h.do \in Releasing) /\ e.nmi_ack = c.nmi_ack /\ e.hlx = c.hlx
  <2>1. e.rfsh_release = (r.rfsh_release \/ h.do \in Releasing) /\ e.nmi_ack = r.nmi_ack /\ e.hlx = r.hlx
    BY Zenon DEF Carried
  <2>2. (FALSE \/ h.do \in Releasing) = (h.do \in Releasing)
    BY DEF Releasing
  <2> QED BY <1>4, <2>1, <2>2, Zenon
<1>7. e.step.half \in 1..Len(Cycle(cycle)) /\ e.step.cycle = cycle /\ Where(e.step) = Q
  BY <1>2, <1>5 DEF OnTable
<1>8. Placed(e)
  <2>1. Up(e) = r.pins \ (IF h.do \in Releasing THEN {"RFSH"} ELSE {})
    BY <1>5, <1>6 DEF Up
  <2> QED BY <1>3, <1>7, <2>1 DEF Placed
<1>9. AtHome(e)
  <2>1. h.do \in {"push_high", "jump"} => cycle \in Interrupting
    BY <1>2 DEF OnTable, Tidy, Does, Kind, Fetches
  <2>2. e.pc = e.bytes
    BY <1>3, <1>5, <2>1
  <2>3. e.pushed = 0
    BY <1>3, <1>5, <2>1
  <2>4. cycle \in Interrupting => e.bytes = 0
    BY <1>3, <1>5
  <2>5. e.step.half # 1
    BY <1>2, <1>5
  <2> QED BY <1>7, <2>2, <2>3, <2>4, <2>5 DEF AtHome
<1>10. /\ Q.b \in {0, 1}
       /\ Fetching(cycle, Q.b, w) /\ Working(cycle, w)
       /\ Answering(cycle, Q.b, w, c.im, c.nmi_ack) /\ Running(cycle, w, op, c.hlx)
       /\ Since(cycle, Q.b, w) = Since(cycle, P.b, v)
       /\ Before(cycle, Q.b, w) = Before(cycle, P.b, v)
       /\ (v = <<>> /\ cycle = "op" => w = <<>>)
  <2> DEFINE b == P.b + Byte(h.do)
  <2>1. /\ b \in {0, 1}
        /\ Fetching(cycle, b, w) /\ Working(cycle, w)
        /\ Answering(cycle, b, w, c.im, c.nmi_ack) /\ Running(cycle, w, op, c.hlx)
        /\ Since(cycle, b, w) = Since(cycle, P.b, v)
        /\ Before(cycle, b, w) = Before(cycle, P.b, v)
        /\ (v = <<>> /\ cycle = "op" => w = <<>>)
    BY ToldOn, Zenon
  <2>2. Q.b = b
    BY <1>3
  <2> HIDE DEF b, P, Q, h, cycle, v
  <2> QED BY <2>1, <2>2, Zenon
<1>11. Told(e)
  <2> HIDE DEF Q
  <2>1. e.spent.what = w
    BY <1>5
  <2> QED BY <1>5, <1>6, <1>7, <1>10, <2>1 DEF Told
<1>12. Counted(e)
  <2> HIDE DEF Q, P
  <2>1. e.spent.what = w /\ e.spent.halves = r.spent.halves /\ e.spent.refreshed = r.spent.refreshed
    BY <1>5
  <2>2. CASE v = <<>> /\ cycle = "op"
    BY <1>7, <1>10, <2>1, <2>2 DEF Counted
  <2>3. CASE c.spent.halves = Since(cycle, P.b, v) + P.t /\ c.spent.refreshed = Before(cycle, P.b, v) + P.r
    <3> DEFINE S == Since(cycle, P.b, v)
               B == Before(cycle, P.b, v)
    <3>1. S \in Int /\ B \in Int
      <4>1. Opened(v) \in Int /\ Count(v) \in Int
        <5>1. Len(v) \in Nat
          BY <1>1 DEF Cpus, Spents
        <5> QED BY <5>1 DEF Opened, Count
      <4> QED BY <1>3, <4>1 DEF Since, Before
    <3> HIDE DEF S, B
    <3>2. r.spent.halves = S + Q.t
      <4>1. c.spent.halves = S + P.t
        BY <2>3 DEF S
      <4> QED BY <1>3, <3>1, <4>1
    <3>3. r.spent.refreshed = B + Q.r
      <4>1. c.spent.refreshed = B + P.r /\ r.spent.refreshed \in Int
        BY <1>3, <2>3 DEF B, Cpus, Spents
      <4> QED BY <1>3, <3>1, <4>1
    <3>4. e.spent.halves = Since(cycle, Q.b, w) + Q.t /\ e.spent.refreshed = Before(cycle, Q.b, w) + Q.r
      BY <1>10, <2>1, <3>2, <3>3 DEF S, B
    <3> QED BY <1>7, <2>1, <3>4 DEF Counted
  <2> QED BY <1>1, <2>2, <2>3 DEF Counted, P
<1>13. Comes(e.over)
  BY <1>5, NothingIs DEF Comes
<1>14. e.pins = Driven(Up(c), h) /\ e.step.half # 1
  BY <1>2, <1>5 DEF Ran
<1> QED BY <1>5, <1>8, <1>9, <1>11, <1>12, <1>13, <1>14 DEF Inv

-----------------------------------------------------------------------------
(* The invariant, kept from one cycle to the next.                         *)

\* What has to be told of the words for a cycle to begin with them.
Opens(cycle, w, op, im, ack, hlx) ==
  /\ cycle \in Cycles \ Refreshing
  /\ Fetching(cycle, 0, w) /\ Working(cycle, w) /\ Answering(cycle, 0, w, im, ack) /\ Running(cycle, w, op, hlx)

\* A cycle entered with what it is to begin with keeps it too.
LEMMA MovedTo ==
  ASSUME NEW c, Inv(c), NEW r, Ran(c, r, At(c.step)), Left(Where(c.step), At(c.step)).lines = {},
         NEW e, NEW cycle, NEW op, NEW w, Entered(r, e, At(c.step).do, cycle, op, w),
         Opens(cycle, w, op, c.im, c.nmi_ack, c.hlx), cycle \in Interrupting => c.step.cycle \in Interrupting,
         c.spent.halves + 1 = Since(cycle, 0, w), r.spent.refreshed = Before(cycle, 0, w)
  PROVE  Inv(e) /\ e.pins = Driven(Up(c), At(c.step)) /\ e.addr = r.addr /\ e.step.cycle \notin Refreshing
<1> DEFINE h == At(c.step)
           P == Where(c.step)
           Q == Left(P, h)
<1>1. c \in Cpus /\ Placed(c) /\ Told(c)
  BY DEF Inv
<1>2. /\ r.pins \ (IF h.do \in Releasing THEN {"RFSH"} ELSE {}) = Q.lines
      /\ r.spent.what = c.spent.what /\ r.spent.halves = c.spent.halves + 1
      /\ r.pc = r.bytes /\ r.pushed = 0 /\ r.over = Nothing /\ r \in Cpus
      /\ c.step.cycle \in Interrupting => r.bytes = 0
  BY RanIs
<1>3. r.im = c.im /\ r.nmi_ack = c.nmi_ack /\ r.hlx = c.hlx /\ r.rfsh_release = FALSE
  BY DEF Ran, Keeps
<1>4. /\ e \in Cpus /\ e.step = [cycle |-> cycle, half |-> 1] /\ e.pins = r.pins /\ e.addr = r.addr
      /\ e.over = Nothing /\ e.im = c.im /\ e.bytes = r.bytes
      /\ e.pc = (IF cycle = "Arrive" THEN 0 ELSE r.pc) /\ e.pushed = 0
      /\ e.opcode = op /\ e.spent = [what |-> w, halves |-> r.spent.halves, refreshed |-> r.spent.refreshed]
  BY <1>2, <1>3 DEF Entered
<1>5. e.rfsh_release = (h.do \in Releasing) /\ e.nmi_ack = c.nmi_ack /\ e.hlx = c.hlx
  <2>1. e.rfsh_release = (r.rfsh_release \/ h.do \in Releasing) /\ e.nmi_ack = r.nmi_ack /\ e.hlx = r.hlx
    BY Zenon DEF Entered
  <2>2. (FALSE \/ h.do \in Releasing) = (h.do \in Releasing)
    BY DEF Releasing
  <2> QED BY <1>3, <2>1, <2>2, Zenon
<1>6. /\ 1 \in 1..Len(Cycle(cycle)) /\ Where(e.step) = Begins(cycle) /\ e.step.cycle = cycle /\ e.step.half = 1
      /\ Begins(cycle).lines = {} /\ Begins(cycle).t = 0 /\ Begins(cycle).r = 0 /\ Begins(cycle).b = 0
  BY <1>4, Starts, TracksAre DEF Opens
<1>7. Placed(e)
  <2>1. Up(e) = r.pins \ (IF h.do \in Releasing THEN {"RFSH"} ELSE {})
    BY <1>4, <1>5 DEF Up
  <2>2. Up(e) = {}
    BY <1>2, <2>1
  <2> QED BY <1>6, <2>2 DEF Placed
<1>8. AtHome(e)
  <2>1. cycle \notin Fetches
    BY DEF Opens, Refreshing
  <2>2. e.pc = e.bytes /\ e.pushed = 0 /\ (cycle \in Interrupting => e.bytes = 0)
    BY <1>2, <1>4 DEF Interrupting
  <2> QED BY <1>6, <2>1, <2>2 DEF AtHome, Fetches
<1>9. Told(e)
  BY <1>4, <1>5, <1>6 DEF Told, Opens
<1>10. Counted(e)
  <2>1. e.spent.what = w /\ e.spent.halves = r.spent.halves /\ e.spent.refreshed = r.spent.refreshed
    BY <1>4
  <2>2. c.spent.halves \in Int /\ r.spent.refreshed \in Int
    BY <1>1, <1>2 DEF Cpus, Spents
  <2> DEFINE S == Since(cycle, 0, w)
             B == Before(cycle, 0, w)
  <2>3. r.spent.halves = S /\ r.spent.refreshed = B /\ S \in Int /\ B \in Int
    BY <1>2, <2>2
  <2> HIDE DEF S, B
  <2>4. e.spent.halves = S + 0 /\ e.spent.refreshed = B + 0
    BY <2>1, <2>3
  <2> QED BY <1>6, <2>1, <2>4 DEF Counted, S, B
<1>11. Comes(e.over)
  BY <1>4, NothingIs DEF Comes
<1>12. e.pins = Driven(Up(c), h)
  BY <1>4 DEF Ran
<1>13. e.step.cycle \notin Refreshing
  BY <1>6 DEF Opens
<1> QED BY <1>4, <1>7, <1>8, <1>9, <1>10, <1>11, <1>12, <1>13 DEF Inv

\* A cycle that ends, and the time it took with those before it.
LEMMA EndedIs ==
  ASSUME NEW c, Inv(c), NEW r, Ran(c, r, At(c.step)), At(c.step).do \notin Ongoing
  PROVE  LET cycle == c.step.cycle
             w == c.spent.what
             b == IF cycle \in Fetches \cup {"DdCb", "Acknowledge"} THEN 1 ELSE 0
         IN /\ cycle \in Cycles /\ At(c.step).do = Closing(cycle)
            /\ Left(Where(c.step), At(c.step)).lines = {} /\ Left(Where(c.step), At(c.step)) = Ends(cycle)
            /\ At(c.step).do \notin Latching => Where(c.step).b = b
            /\ At(c.step).do \notin Latching /\ ~(w = <<>> /\ cycle = "op") =>
                 /\ c.spent.halves + 1 = Since(cycle, b, w) + Lasting(cycle)
                 /\ r.spent.refreshed = Before(cycle, b, w) + (IF cycle \in Refreshing THEN 1 ELSE 0)
<1> DEFINE h == At(c.step)
           P == Where(c.step)
           Q == Left(P, h)
           cycle == c.step.cycle
           w == c.spent.what
           b == IF cycle \in Fetches \cup {"DdCb", "Acknowledge"} THEN 1 ELSE 0
           n == IF cycle \in Refreshing THEN 1 ELSE 0
<1>1. c \in Cpus /\ Placed(c) /\ Told(c) /\ Counted(c)
  BY DEF Inv
<1>2. cycle \in Cycles /\ h.do = Closing(cycle) /\ Q = Ends(cycle)
  BY <1>1, StepIs DEF OnTable
<1>3. Q.lines = {} /\ Q.t = Lasting(cycle) /\ Q.r = n /\ Q.b = b
  BY <1>2, TracksAre
<1>4. /\ r.spent.halves = c.spent.halves + 1 /\ c.spent.halves \in Int /\ c.spent.refreshed \in Int
      /\ r.spent.refreshed + P.r = c.spent.refreshed + Q.r /\ P.r \in Nat /\ Q.r \in Nat
      /\ Q.t = P.t + 1 /\ P.t \in Nat /\ Q.b = P.b + Byte(h.do) /\ P.b \in {0, 1} /\ r \in Cpus
  BY RanIs
<1>5. r.spent.refreshed \in Int
  BY <1>4 DEF Cpus, Spents
<1>6. ASSUME h.do \notin Latching PROVE P.b = b
  BY <1>3, <1>4, <1>6 DEF Byte
<1>7. ASSUME h.do \notin Latching, ~(w = <<>> /\ cycle = "op")
      PROVE  c.spent.halves + 1 = Since(cycle, b, w) + Lasting(cycle) /\ r.spent.refreshed = Before(cycle, b, w) + n
  <2> DEFINE S == Since(cycle, b, w)
             B == Before(cycle, b, w)
  <2>1. S \in Int /\ B \in Int
    <3>1. Opened(w) \in Int /\ Count(w) \in Int
      <4>1. Len(w) \in Nat
        BY <1>1 DEF Cpus, Spents
      <4> QED BY <4>1 DEF Opened, Count
    <3> QED BY <3>1 DEF Since, Before
  <2>2. c.spent.halves = S + P.t /\ c.spent.refreshed = B + P.r
    <3> HIDE DEF b, w, cycle, P
    <3>1. c.spent.halves = Since(cycle, P.b, w) + P.t /\ c.spent.refreshed = Before(cycle, P.b, w) + P.r
      BY <1>1, <1>7 DEF Counted, P, w, cycle
    <3>2. P.b = b
      BY <1>6, <1>7
    <3> QED BY <3>1, <3>2
  <2> HIDE DEF S, B
  <2>3. c.spent.halves + 1 = S + Q.t /\ r.spent.refreshed = B + Q.r
    BY <1>4, <1>5, <2>1, <2>2
  <2> QED BY <1>3, <2>3 DEF S, B
<1> QED BY <1>2, <1>3, <1>6, <1>7

\* What is counted of words are natural numbers.
LEMMA CountsAre ==
  ASSUME NEW w \in Seq(Words)
  PROVE  Len(w) \in Nat /\ Opened(w) \in Nat /\ Count(w) \in Nat
<1>1. Len(w) \in Nat
  OBVIOUS
<1>2. Count(w) \in Nat
  BY <1>1 DEF Count, Ints
<1> DEFINE n == Count(w)
<1>3. Opened(w) = 8 * n + (IF Ints(w) THEN 4 ELSE 0) /\ n \in Nat
  BY <1>2 DEF Opened
<1> HIDE DEF n
<1>4. Opened(w) \in Nat
  BY <1>3
<1> QED BY <1>1, <1>2, <1>4

\* An opcode's own cycles open.
LEMMA OpensGoing ==
  ASSUME NEW w \in Seq(Words), NEW op \in AllOps \ DdCbOpcodes, Len(w) # 0, op = w[Len(w)],
         ~(op = "storen" /\ Indexed(w)), NEW im, NEW ack, ~ack, NEW hlx, hlx => Indexed(w),
         w[1] # "nmi" /\ (w[1] = "int" => Len(w) > 1 /\ w[2] \notin {"im1", "im2"})
  PROVE  /\ Opens(Goes(op), w, op, im, ack, hlx) /\ Goes(op) \notin Interrupting
         /\ Since(Goes(op), 0, w) = Opened(w) + (IF op = "mem" /\ Indexed(w) THEN 16 ELSE 0)
         /\ Before(Goes(op), 0, w) = Count(w)
<1> DEFINE cycle == Goes(op)
<1>1. cycle \in Going /\ cycle \in Cycles
  BY GoesAre
<1>2. cycle \notin Interrupting /\ cycle \notin Refreshing /\ cycle \notin Fetches /\ cycle \notin Indexing
  BY <1>1 DEF Going, Interrupting, Refreshing, Fetches, Indexing
<1>3. cycle = "mem" <=> op = "mem"
  BY DEF Goes, PrefixBytes
<1>4. Len(w) \in Nat /\ Len(w) > 0 /\ Opened(w) \in Nat /\ Count(w) \in Nat
  BY CountsAre
<1>5. Fetching(cycle, 0, w) /\ Answering(cycle, 0, w, im, ack)
  BY <1>2 DEF Fetching, Answering, Fetches, Interrupting, Indexing
<1>6. Working(cycle, w)
  BY <1>1, <1>2, <1>4 DEF Working, Indexing
<1>7. Running(cycle, w, op, hlx)
  BY <1>1 DEF Running
<1>8. Since(cycle, 0, w) = IF cycle = "mem" THEN Opened(w) + (IF Indexed(w) THEN 16 ELSE 0) ELSE Opened(w)
  BY <1>2 DEF Since, Fetches, Interrupting, Indexing
<1>9. Before(cycle, 0, w) = Count(w)
  BY <1>2 DEF Before, Fetches, Interrupting, Indexing
<1> HIDE DEF cycle
<1>10. Since(cycle, 0, w) = Opened(w) + (IF op = "mem" /\ Indexed(w) THEN 16 ELSE 0)
  <2>1. CASE op = "mem"
    BY <1>3, <1>8, <2>1
  <2>2. CASE op # "mem"
    BY <1>3, <1>4, <1>8, <2>2
  <2> QED BY <2>1, <2>2
<1> QED BY <1>1, <1>2, <1>5, <1>6, <1>7, <1>9, <1>10 DEF Opens, cycle

\* After the fetch of an opcode that no DD is before.
LEMMA TurnsPlain ==
  ASSUME NEW cycle \in {"PlainFetch", "EdFetch", "CbFetch"}, NEW w \in Seq(Words), NEW op, NEW im, NEW ack, NEW hlx,
         Fetching(cycle, 1, w), Answering(cycle, 1, w, im, ack), Running(cycle, w, op, hlx)
  PROVE  /\ op \in AllOps \ DdCbOpcodes
         /\ Opens(Goes(op), w, op, im, ack, hlx) /\ Goes(op) \notin Interrupting
         /\ Since(Goes(op), 0, w) = Since(cycle, 1, w) + 7 /\ Before(Goes(op), 0, w) = Before(cycle, 1, w) + 1
<1>1. Len(w) \in Nat /\ Opened(w) \in Nat /\ Count(w) \in Nat
  BY CountsAre
<1>2. Len(w) # 0 /\ Len(w) > 0
  BY <1>1 DEF Fetching
<1>3. op = w[Len(w)] /\ w[1] # "nmi" /\ (w[1] = "int" => Len(w) > 1 /\ w[2] \notin {"im1", "im2"}) /\ ~hlx /\ ~ack
  BY <1>2 DEF Running, Answering, Interrupting, Indexing, Going
<1>4. op \in AllOps \ DdCbOpcodes /\ (op = "mem" \/ op = "storen" => ~Indexed(w))
  <2>1. CASE cycle = "PlainFetch"
    <3>1. Len(w) = 1 /\ op \in Opcodes
      BY <1>3, <2>1 DEF Fetching
    <3>2. ~Indexed(w)
      BY <3>1 DEF Indexed
    <3> QED BY <3>1, <3>2 DEF AllOps, Opcodes, DdCbOpcodes, PrefixBytes
  <2>2. CASE cycle = "EdFetch"
    BY <1>3, <2>2 DEF Fetching, AllOps, Opcodes, EdOpcodes, DdCbOpcodes, PrefixBytes
  <2>3. CASE cycle = "CbFetch"
    BY <1>3, <2>3 DEF Fetching, AllOps, Opcodes, CbOpcodes, DdCbOpcodes, PrefixBytes
  <2> QED BY <2>1, <2>2, <2>3
<1>5. /\ Opens(Goes(op), w, op, im, ack, hlx) /\ Goes(op) \notin Interrupting
      /\ Since(Goes(op), 0, w) = Opened(w) + (IF op = "mem" /\ Indexed(w) THEN 16 ELSE 0)
      /\ Before(Goes(op), 0, w) = Count(w)
  BY <1>2, <1>3, <1>4, OpensGoing
<1>6. Since(Goes(op), 0, w) = Opened(w)
  BY <1>1, <1>4, <1>5
<1>7. Since(cycle, 1, w) + 7 = Opened(w) /\ Before(cycle, 1, w) + 1 = Count(w)
  <2>1. CASE cycle = "PlainFetch"
    <3>1. Since(cycle, 1, w) = 1 /\ Before(cycle, 1, w) = 0
      BY <2>1 DEF Since, Before
    <3>2. Len(w) = 1 /\ w[1] # "int"
      BY <1>3, <2>1 DEF Fetching, Opcodes, PrefixBytes
    <3>3. Count(w) = 1 /\ Opened(w) = 8
      BY <3>2 DEF Count, Opened, Ints
    <3> QED BY <3>1, <3>3
  <2>2. CASE cycle \in {"EdFetch", "CbFetch"}
    <3>1. Since(cycle, 1, w) = Opened(w) - 8 * 1 + 1 /\ Before(cycle, 1, w) = Count(w) - 1
      BY <2>2 DEF Since, Before
    <3> QED BY <1>1, <3>1
  <2> QED BY <2>1, <2>2
<1> QED BY <1>4, <1>5, <1>6, <1>7

\* And after one that a DD is.
AfterDd(op) ==
  CASE op = "mem" -> "Displacement" [] op = "storen" -> "DisplacementN" [] OTHER -> Goes(op)
\* After DD or FD.
LEMMA TurnsDd ==
  ASSUME NEW w \in Seq(Words), NEW op, NEW im, NEW ack, NEW hlx,
         Fetching("DdFdFetch", 1, w), Answering("DdFdFetch", 1, w, im, ack), Running("DdFdFetch", w, op, hlx)
  PROVE  /\ op \in AllOps \ DdCbOpcodes
         /\ Opens(AfterDd(op), w, op, im, ack, hlx) /\ AfterDd(op) \notin Interrupting
         /\ Since(AfterDd(op), 0, w) = Since("DdFdFetch", 1, w) + 7
         /\ Before(AfterDd(op), 0, w) = Before("DdFdFetch", 1, w) + 1
<1>1. Len(w) \in Nat /\ Opened(w) \in Nat /\ Count(w) \in Nat
  BY CountsAre
<1>2. Len(w) > 1 /\ Indexed(w)
  BY <1>1 DEF Fetching, Indexed
<1>3. op = w[Len(w)] /\ w[1] # "nmi" /\ (w[1] = "int" => Len(w) > 1 /\ w[2] \notin {"im1", "im2"}) /\ ~ack
  BY <1>1, <1>2 DEF Running, Answering, Interrupting
<1>4. op \in AllOps \ DdCbOpcodes
  BY <1>3 DEF Fetching, AllOps, Opcodes, DdCbOpcodes, PrefixBytes
<1>5. Since("DdFdFetch", 1, w) + 7 = Opened(w) /\ Before("DdFdFetch", 1, w) + 1 = Count(w)
  <2>1. Since("DdFdFetch", 1, w) = Opened(w) - 8 * 1 + 1 /\ Before("DdFdFetch", 1, w) = Count(w) - 1
    BY DEF Since, Before
  <2> QED BY <1>1, <2>1
<1>6. CASE op \in {"mem", "storen"}
  <2>1. AfterDd(op) \in {"Displacement", "DisplacementN"}
        /\ (AfterDd(op) = "Displacement" => op = "mem") /\ (AfterDd(op) = "DisplacementN" => op = "storen")
    BY <1>6 DEF AfterDd
  <2> DEFINE cycle == AfterDd(op)
  <2> HIDE DEF cycle
  <2>2. cycle \in Cycles \ Refreshing /\ cycle \notin Interrupting
    BY <2>1 DEF cycle, Cycles, Refreshing, Fetches, Indexing, Interrupting
  <2>3. Fetching(cycle, 0, w) /\ Working(cycle, w) /\ Answering(cycle, 0, w, im, ack)
    BY <1>2, <1>3, <2>1 DEF cycle, Fetching, Working, Answering, Going
  <2>4. Running(cycle, w, op, hlx)
    BY <1>3, <2>1 DEF cycle, Running, Indexing
  <2>5. Since(cycle, 0, w) = Opened(w) /\ Before(cycle, 0, w) = Count(w)
    BY <2>1 DEF cycle, Since, Before
  <2> QED BY <1>4, <1>5, <2>2, <2>3, <2>4, <2>5 DEF Opens, cycle
<1>7. CASE op \notin {"mem", "storen"}
  <2>1. AfterDd(op) = Goes(op)
    BY <1>7 DEF AfterDd
  <2>2. /\ Opens(Goes(op), w, op, im, ack, hlx) /\ Goes(op) \notin Interrupting
        /\ Since(Goes(op), 0, w) = Opened(w) + (IF op = "mem" /\ Indexed(w) THEN 16 ELSE 0)
        /\ Before(Goes(op), 0, w) = Count(w)
    <3>1. Len(w) # 0 /\ ~(op = "storen" /\ Indexed(w)) /\ (hlx => Indexed(w))
      BY <1>1, <1>2, <1>7
    <3> QED BY <1>3, <1>4, <3>1, OpensGoing
  <2>3. Since(Goes(op), 0, w) = Opened(w)
    BY <1>1, <1>7, <2>2
  <2> QED BY <1>4, <1>5, <2>1, <2>2, <2>3
<1> QED BY <1>6, <1>7

\* The displacement is known: the operand, the store, or the rotation or BIT.
LEMMA TurnsIndexed ==
  ASSUME NEW w \in Seq(Words), NEW op, NEW im, NEW ack, NEW hlx, NEW b
  PROVE  /\ Working("Displacement", w) /\ Answering("Displacement", b, w, im, ack) /\ Running("Displacement", w, op, hlx) =>
              /\ op = "mem" /\ Opens(Goes(op), w, op, im, ack, hlx) /\ Goes(op) \notin Interrupting
              /\ Since(Goes(op), 0, w) = Since("Displacement", b, w) + 16
              /\ Before(Goes(op), 0, w) = Before("Displacement", b, w)
         /\ Working("DisplacementN", w) /\ Answering("DisplacementN", b, w, im, ack) /\ Running("DisplacementN", w, op, hlx) =>
              /\ Opens("IndexedStore", w, op, im, ack, hlx)
              /\ Since("IndexedStore", 0, w) = Since("DisplacementN", b, w) + 16
              /\ Before("IndexedStore", 0, w) = Before("DisplacementN", b, w)
<1>1. Len(w) \in Nat /\ Opened(w) \in Nat /\ Count(w) \in Nat
  BY CountsAre
<1>2. ASSUME Working("Displacement", w), Answering("Displacement", b, w, im, ack), Running("Displacement", w, op, hlx)
      PROVE  /\ op = "mem" /\ Opens(Goes(op), w, op, im, ack, hlx) /\ Goes(op) \notin Interrupting
             /\ Since(Goes(op), 0, w) = Since("Displacement", b, w) + 16
             /\ Before(Goes(op), 0, w) = Before("Displacement", b, w)
  <2>1. Indexed(w) /\ w[Len(w)] = "mem" /\ Len(w) > 1 /\ ~ack
    BY <1>2 DEF Working, Indexed, Answering
  <2>2. op = "mem" /\ w[1] # "nmi" /\ (w[1] = "int" => Len(w) > 1 /\ w[2] \notin {"im1", "im2"})
    BY <1>1, <1>2, <2>1 DEF Running, Interrupting
  <2>3. op \in AllOps \ DdCbOpcodes
    BY <2>2 DEF AllOps, Opcodes, DdCbOpcodes
  <2>4. /\ Opens(Goes(op), w, op, im, ack, hlx) /\ Goes(op) \notin Interrupting
        /\ Since(Goes(op), 0, w) = Opened(w) + (IF op = "mem" /\ Indexed(w) THEN 16 ELSE 0)
        /\ Before(Goes(op), 0, w) = Count(w)
    BY <1>1, <2>1, <2>2, <2>3, OpensGoing
  <2>5. Since("Displacement", b, w) = Opened(w) /\ Before("Displacement", b, w) = Count(w)
    BY DEF Since, Before
  <2> QED BY <2>1, <2>2, <2>4, <2>5
<1>3. ASSUME Working("DisplacementN", w), Answering("DisplacementN", b, w, im, ack), Running("DisplacementN", w, op, hlx)
      PROVE  /\ Opens("IndexedStore", w, op, im, ack, hlx)
             /\ Since("IndexedStore", 0, w) = Since("DisplacementN", b, w) + 16
             /\ Before("IndexedStore", 0, w) = Before("DisplacementN", b, w)
  <2> DEFINE cycle == "IndexedStore"
  <2>1. ~ack
    BY <1>3 DEF Answering
  <2>2. Fetching(cycle, 0, w) /\ Working(cycle, w) /\ Answering(cycle, 0, w, im, ack)
    BY <1>3, <2>1 DEF Fetching, Working, Answering, Going
  <2>3. Running(cycle, w, op, hlx)
    BY <1>3 DEF Running, Indexing, Interrupting
  <2>4. /\ Since(cycle, 0, w) = Opened(w) + 16 /\ Before(cycle, 0, w) = Count(w)
        /\ Since("DisplacementN", b, w) = Opened(w) /\ Before("DisplacementN", b, w) = Count(w)
    BY DEF Since, Before
  <2>5. cycle \in Cycles \ Refreshing
    BY DEF Cycles, Refreshing, Fetches, Indexing
  <2> QED BY <2>2, <2>3, <2>4, <2>5 DEF Opens
<1> QED BY <1>2, <1>3

\* The byte after DD CB d.
LEMMA TurnsDdCb ==
  ASSUME NEW w \in Seq(Words), NEW op, NEW im, NEW ack, NEW hlx,
         Fetching("DdCb", 1, w), Answering("DdCb", 1, w, im, ack), Running("DdCb", w, op, hlx)
  PROVE  LET cycle == IF op = "bit" THEN "DdCbBit" ELSE "DdCbWrite"
         IN /\ Opens(cycle, w, op, im, ack, hlx)
            /\ Since(cycle, 0, w) = Since("DdCb", 1, w) + 21 /\ Before(cycle, 0, w) = Before("DdCb", 1, w)
<1> DEFINE cycle == IF op = "bit" THEN "DdCbBit" ELSE "DdCbWrite"
<1>1. Len(w) \in Nat /\ Opened(w) \in Nat /\ Count(w) \in Nat
  BY CountsAre
<1>2. Len(w) > 2 /\ w[Len(w) - 1] = "CB" /\ w[Len(w) - 1 - 1] = "DD" /\ w[Len(w)] \in DdCbOpcodes /\ ~ack
  BY <1>1 DEF Fetching, Answering
<1>3. op = w[Len(w)] /\ w[1] # "nmi" /\ (w[1] = "int" => Len(w) > 1 /\ w[2] \notin {"im1", "im2"})
  BY <1>1, <1>2 DEF Running, Interrupting
<1>4. Count(w) > 2
  <2>1. CASE Len(w) = 3
    <3>1. w[1] = "DD"
      BY <1>2, <2>1
    <3> QED BY <2>1, <3>1 DEF Count, Ints
  <2>2. CASE Len(w) # 3
    <3> DEFINE n == Len(w)
    <3>1. n \in Nat /\ n > 2 /\ n # 3
      BY <1>1, <1>2, <2>2
    <3> HIDE DEF n
    <3>2. n - 1 > 2 /\ n > 2
      BY <3>1
    <3> QED BY <3>2 DEF Count, n
  <2> QED BY <2>1, <2>2
<1>5. /\ cycle \in {"DdCbBit", "DdCbWrite"}
      /\ (cycle = "DdCbBit" => op = "bit") /\ (cycle = "DdCbWrite" => op = "rot")
  BY <1>2, <1>3 DEF DdCbOpcodes
<1> HIDE DEF cycle
<1>6. Fetching(cycle, 0, w) /\ Working(cycle, w) /\ Answering(cycle, 0, w, im, ack)
  BY <1>2, <1>3, <1>4, <1>5 DEF Fetching, Working, Answering, Going
<1>7. Running(cycle, w, op, hlx)
  BY <1>3, <1>5 DEF Running, Indexing
<1>8. /\ Since(cycle, 0, w) = Opened(w) + 14 /\ Before(cycle, 0, w) = Count(w) - 1
      /\ Since("DdCb", 1, w) = Opened(w) - 8 * 1 + 1 /\ Before("DdCb", 1, w) = Count(w) - 1
  BY <1>5 DEF Since, Before
<1>9. Since(cycle, 0, w) = Since("DdCb", 1, w) + 21
  BY <1>1, <1>8
<1>10. cycle \in Cycles \ Refreshing
  BY <1>5 DEF Cycles, Refreshing, Fetches, Indexing
<1> QED BY <1>6, <1>7, <1>8, <1>9, <1>10 DEF Opens, cycle

\* An interrupt's pushes, and where they go on.
LEMMA TurnsPush ==
  ASSUME NEW cycle \in {"Acknowledge", "Nmi"}, NEW w \in Seq(Words), NEW op, NEW im, NEW ack, NEW hlx, NEW b,
         b = (IF cycle = "Acknowledge" THEN 1 ELSE 0), Answering(cycle, b, w, im, ack), Running(cycle, w, op, hlx)
  PROVE  /\ Opens("PushPc", w, op, im, ack, hlx)
         /\ Since("PushPc", 0, w) = Since(cycle, b, w) + (IF cycle = "Nmi" THEN 9 ELSE 13)
         /\ Before("PushPc", 0, w) = Before(cycle, b, w) + 1
<1> DEFINE push == "PushPc"
<1>1. \/ cycle = "Nmi" /\ w = <<"nmi">> /\ ack
      \/ cycle = "Acknowledge" /\ ~ack /\ ((im = 1 /\ w = <<"int", "im1">>) \/ (im = 2 /\ w = <<"int", "im2">>))
  BY DEF Answering
<1>2. Answering(push, 0, w, im, ack)
  BY <1>1 DEF Answering
<1>3. Fetching(push, 0, w) /\ Working(push, w)
  BY DEF Fetching, Working, Going
<1>4. Running(push, w, op, hlx)
  BY DEF Running, Interrupting, Indexing, Going
<1>5. Since(push, 0, w) = (IF cycle = "Nmi" THEN 10 ELSE 14) /\ Before(push, 0, w) = 1
  <2>1. Since(push, 0, w) = (IF w[1] = "nmi" THEN 10 ELSE 14) /\ Before(push, 0, w) = 1
    BY DEF Since, Before
  <2> QED BY <1>1, <2>1
<1>6. Since(cycle, b, w) = 1 /\ Before(cycle, b, w) = 0
  BY DEF Since, Before
<1>7. push \in Cycles \ Refreshing
  BY DEF Cycles, Refreshing, Fetches, Interrupting
<1> QED BY <1>2, <1>3, <1>4, <1>5, <1>6, <1>7 DEF Opens

\* After the pushes.
LEMMA TurnsVector ==
  ASSUME NEW w \in Seq(Words), NEW op, NEW im, NEW ack, NEW hlx, NEW b,
         Answering("PushPc", b, w, im, ack), Running("PushPc", w, op, hlx)
  PROVE  LET cycle == IF im = 2 /\ ~ack THEN "Vector" ELSE "Arrive"
         IN /\ Opens(cycle, w, op, im, ack, hlx)
            /\ Since(cycle, 0, w) = Since("PushPc", b, w) + 12 /\ Before(cycle, 0, w) = Before("PushPc", b, w)
<1> DEFINE cycle == IF im = 2 /\ ~ack THEN "Vector" ELSE "Arrive"
<1>1. \/ cycle = "Arrive" /\ w = <<"nmi">> /\ ack
      \/ cycle = "Arrive" /\ w = <<"int", "im1">> /\ ~ack
      \/ cycle = "Vector" /\ w = <<"int", "im2">> /\ ~ack
  BY DEF Answering
<1> HIDE DEF cycle
<1>2. Answering(cycle, 0, w, im, ack)
  BY <1>1 DEF Answering
<1>3. Fetching(cycle, 0, w) /\ Working(cycle, w)
  BY <1>1 DEF Fetching, Working, Going
<1>4. Running(cycle, w, op, hlx)
  BY <1>1 DEF Running, Interrupting, Indexing, Going
<1>5. Since(cycle, 0, w) = (IF w[1] = "nmi" THEN 22 ELSE 26) /\ Before(cycle, 0, w) = 1
  BY <1>1 DEF Since, Before
<1>6. Since("PushPc", b, w) = (IF w[1] = "nmi" THEN 10 ELSE 14) /\ Before("PushPc", b, w) = 1
  BY DEF Since, Before
<1>7. Since(cycle, 0, w) = Since("PushPc", b, w) + 12
  BY <1>5, <1>6
<1>8. cycle \in Cycles \ Refreshing
  BY <1>1 DEF Cycles, Refreshing, Fetches, Interrupting
<1> QED BY <1>2, <1>3, <1>4, <1>5, <1>6, <1>7, <1>8 DEF Opens, cycle

\* In IM 0 the byte acknowledged is the instruction.
LEMMA TurnsInstruction ==
  ASSUME NEW byte \in Opcodes, NEW op, NEW im, NEW ack, NEW hlx, NEW w,
         Answering("Acknowledge", 0, w, im, ack), Running("Acknowledge", w, op, hlx)
  PROVE  LET v == Append(w, byte)
         IN /\ Opens(Goes(byte), v, byte, im, ack, hlx) /\ Goes(byte) \notin Interrupting
            /\ Since(Goes(byte), 0, v) = 12 /\ Before(Goes(byte), 0, v) = 1
<1> DEFINE v == <<"int", byte>>
<1>1. w = <<"int">> /\ ~ack /\ ~hlx
  BY DEF Answering, Running, Interrupting, Indexing, Going
<1>2. Append(w, byte) = v
  <2>1. byte \in Words /\ "int" \in Words
    BY DEF Words, AllOps
  <2> DEFINE a == Append(<<"int">>, byte)
             b == <<"int", byte>>
  <2>2. a \in Seq(Words) /\ Len(a) = 2 /\ a[1] = "int" /\ a[2] = byte
    <3>1. <<"int">> \in Seq(Words) /\ Len(<<"int">>) = 1
      BY <2>1
    <3> QED BY <2>1, <3>1
  <2>3. b \in Seq(Words) /\ Len(b) = 2 /\ b[1] = "int" /\ b[2] = byte
    BY <2>1
  <2> HIDE DEF a, b
  <2>4. \A i \in 1..Len(a) : a[i] = b[i]
    BY <2>2, <2>3
  <2>5. a = b
    BY <2>2, <2>3, <2>4, SeqEqual
  <2> QED BY <1>1, <2>5 DEF a, b
<1>3. byte \in Words /\ "int" \in Words /\ byte \in AllOps \ DdCbOpcodes /\ byte \notin {"im1", "im2"}
  BY DEF Words, AllOps, Opcodes, DdCbOpcodes, PrefixBytes
<1>4. v \in Seq(Words) /\ Len(v) = 2 /\ v[1] = "int" /\ v[2] = byte /\ byte = v[Len(v)]
  BY <1>3
<1> HIDE DEF v
<1>5. ~Indexed(v) /\ Count(v) = 1 /\ Opened(v) = 12
  <2>1. ~Indexed(v)
    BY <1>4 DEF Indexed
  <2>2. Ints(v) /\ Count(v) = 1
    BY <1>4 DEF Ints, Count
  <2>3. Opened(v) = 8 * 1 + 4
    BY <2>2 DEF Opened
  <2> QED BY <2>1, <2>2, <2>3
<1>6. /\ Opens(Goes(byte), v, byte, im, ack, hlx) /\ Goes(byte) \notin Interrupting
      /\ Since(Goes(byte), 0, v) = Opened(v) + (IF byte = "mem" /\ Indexed(v) THEN 16 ELSE 0)
      /\ Before(Goes(byte), 0, v) = Count(v)
  <2>1. /\ Len(v) # 0 /\ byte = v[Len(v)] /\ ~(byte = "storen" /\ Indexed(v)) /\ ~ack /\ (hlx => Indexed(v))
        /\ v[1] # "nmi" /\ (v[1] = "int" => Len(v) > 1 /\ v[2] \notin {"im1", "im2"})
    BY <1>1, <1>3, <1>4, <1>5
  <2> QED BY <1>3, <1>4, <2>1, OpensGoing
<1> QED BY <1>2, <1>5, <1>6

-----------------------------------------------------------------------------
(* What an instruction has taken when it is over.                          *)

\* What is published, in terms of all the words.
Body(w) == IF Ints(w) THEN Tail(w) ELSE w
\* What opcodes cost beyond their fetch.
LEMMA BodyIs ==
  ASSUME NEW w \in Seq(Words), Len(w) # 0, Ints(w) => Len(w) > 1
  PROVE  LET u == Body(w)
         IN /\ u \in Seq(Words) /\ Len(u) = Count(w) /\ Count(w) \in Nat \ {0} /\ u[Len(u)] = w[Len(w)]
            /\ (Len(u) > 1 /\ u[Len(u) - 1] = "DD") <=> Indexed(w)
<1>1. Len(w) \in Nat
  OBVIOUS
<1>2. CASE ~Ints(w)
  <2>1. Body(w) = w /\ Count(w) = Len(w)
    BY <1>2 DEF Body, Count
  <2> QED BY <1>1, <2>1 DEF Indexed
<1>3. CASE Ints(w)
  <2> DEFINE u == Tail(w)
             n == Len(w)
  <2>1. Body(w) = u /\ Count(w) = n - 1 /\ w[1] = "int" /\ n > 1 /\ n \in Nat
    BY <1>1, <1>3 DEF Body, Count, Ints
  <2>2. u \in Seq(Words) /\ Len(u) = n - 1 /\ \A i \in 1..(n - 1) : u[i] = w[i + 1]
    BY <2>1
  <2> HIDE DEF u, n
  <2>3. n - 1 \in 1..(n - 1) /\ n - 1 + 1 = n /\ n - 1 \in Nat \ {0}
    BY <2>1
  <2>4. u[Len(u)] = w[n]
    BY <2>2, <2>3
  <2>5. (Len(u) > 1 /\ u[Len(u) - 1] = "DD") <=> (n > 1 /\ w[n - 1] = "DD")
    <3>1. CASE n = 2
      BY <2>1, <2>2, <3>1
    <3>2. CASE n # 2
      <4>1. n - 1 - 1 \in 1..(n - 1) /\ n - 1 - 1 + 1 = n - 1 /\ n - 1 > 1
        BY <2>1, <3>2
      <4> QED BY <2>1, <2>2, <4>1
    <3> QED BY <3>1, <3>2
  <2> QED BY <2>1, <2>2, <2>3, <2>4, <2>5 DEF Indexed, n
<1> QED BY <1>2, <1>3

\* T-states beyond those of the opcodes, and the opcodes fetched.
Extra(last, indexed) ==
  CASE last = "imm" -> 3
    [] last = "mem" -> IF indexed THEN 11 ELSE 3
    [] last = "storen" -> IF indexed THEN 11 ELSE 6
    [] last = "retn" -> 6 [] last = "cbhl" -> 7 [] last = "bithl" -> 4
    [] last = "rot" -> 15 [] last = "bit" -> 12
    [] OTHER -> 0

\* What is published, by the words.
LEMMA PublishedIs ==
  ASSUME NEW w \in Seq(Words), Len(w) # 0, w[1] # "nmi", w[1] = "int" => Len(w) > 1 /\ w[2] \notin {"im1", "im2"}
  PROVE  LET last == w[Len(w)]
             n == Count(w)
             opcodes == IF n > 2 /\ last \in DdCbOpcodes THEN n - 1 ELSE n
             t == 4 * opcodes + Extra(last, Indexed(w))
         IN /\ n \in Nat \ {0} /\ Published(w).r = opcodes
            /\ Published(w).t = IF Ints(w) THEN 2 + 4 * opcodes + Extra(last, Indexed(w))
                                ELSE 4 * opcodes + Extra(last, Indexed(w))
<1> DEFINE u == Body(w)
           last == w[Len(w)]
           n == Count(w)
           opcodes == IF n > 2 /\ last \in DdCbOpcodes THEN n - 1 ELSE n
           extra == Extra(last, Indexed(w))
<1>1. Ints(w) <=> w[1] = "int"
  BY DEF Ints
<1>2. /\ u \in Seq(Words) /\ Len(u) = n /\ n \in Nat \ {0} /\ u[Len(u)] = last
      /\ (Len(u) > 1 /\ u[Len(u) - 1] = "DD") <=> Indexed(w)
  BY <1>1, BodyIs
<1>3. Opcode(u) = opcodes
  BY <1>2 DEF Opcode, DdCbed
<1>4. Beyond(u) = Extra(u[Len(u)], Len(u) > 1 /\ u[Len(u) - 1] = "DD")
  BY DEF Beyond, Extra
<1>5. Extra(last, Len(u) > 1 /\ u[Len(u) - 1] = "DD") = extra
  BY <1>2 DEF Extra
<1>6. Beyond(u) = extra
  BY <1>2, <1>4, <1>5
<1>7. w # <<"int", "im1">> /\ w # <<"int", "im2">>
  OBVIOUS
<1> HIDE DEF opcodes, extra, n
<1>8. CASE Ints(w)
  <2>1. u = Tail(w)
    BY <1>8 DEF Body
  <2>2. Published(w) = [t |-> 2 + 4 * Opcode(Tail(w)) + Beyond(Tail(w)), r |-> Opcode(Tail(w))]
    BY <1>1, <1>7, <1>8 DEF Published
  <2>3. Published(w).t = 2 + 4 * opcodes + extra /\ Published(w).r = opcodes
    BY <1>3, <1>6, <2>1, <2>2
  <2> QED BY <1>2, <1>8, <2>3 DEF opcodes, extra, n
<1>9. CASE ~Ints(w)
  <2>1. u = w
    BY <1>9 DEF Body
  <2>2. Published(w) = [t |-> 4 * Opcode(w) + Beyond(w), r |-> Opcode(w)]
    BY <1>1, <1>7, <1>9 DEF Published
  <2>3. Published(w).t = 4 * opcodes + extra /\ Published(w).r = opcodes
    BY <1>3, <1>6, <2>1, <2>2
  <2> QED BY <1>2, <1>9, <2>3 DEF opcodes, extra, n
<1> QED BY <1>8, <1>9

\* An instruction or an interrupt that is over took what is published.
Boundaries == {"fetch", "ei", "di", "retn", "im", "halt"}
\* What an instruction has taken when its last cycle ends is what is published.
LEMMA Publishes ==
  ASSUME NEW cycle \in Cycles, Closing(cycle) \in Boundaries, NEW w \in Seq(Words), w # <<>>,
         NEW op, NEW im, NEW ack, NEW hlx,
         Working(cycle, w), Answering(cycle, 0, w, im, ack), Running(cycle, w, op, hlx)
  PROVE  /\ 2 * Published(w).t = Since(cycle, 0, w) + Lasting(cycle) - 1
         /\ Published(w).r = Before(cycle, 0, w)
<1>1. Len(w) \in Nat /\ Opened(w) \in Nat /\ Count(w) \in Nat
  BY CountsAre
<1>2. Len(w) # 0
  BY <1>1
<1>3. cycle \in {"IndexedStore", "DdCbWrite", "DdCbBit", "Vector", "Arrive"} \cup (Going \ {"prefix"})
  BY DEF Boundaries, Closing, Cycles, Fetches, Indexing, Interrupting
<1>4. CASE cycle = "Vector"
  <2>1. w = <<"int", "im2">>
    BY <1>4 DEF Answering
  <2>2. Published(w) = [t |-> 19, r |-> 1]
    BY <2>1 DEF Published
  <2>3. Since(cycle, 0, w) = 26 /\ Before(cycle, 0, w) = 1 /\ Lasting(cycle) = 13
    BY <1>4 DEF Since, Before, Lasting, Fetches
  <2> QED BY <2>2, <2>3
<1>5. CASE cycle = "Arrive"
  <2>1. w = <<"nmi">> \/ w = <<"int", "im1">>
    BY <1>5 DEF Answering
  <2>2. Published(w) = IF w[1] = "nmi" THEN [t |-> 11, r |-> 1] ELSE [t |-> 13, r |-> 1]
    BY <2>1 DEF Published
  <2>3. Since(cycle, 0, w) = (IF w[1] = "nmi" THEN 22 ELSE 26) /\ Before(cycle, 0, w) = 1 /\ Lasting(cycle) = 1
    BY <1>5 DEF Since, Before, Lasting, Fetches
  <2> QED BY <2>2, <2>3
<1>6. CASE cycle \notin Interrupting
  <2> DEFINE last == w[Len(w)]
             n == Count(w)
             i == IF Ints(w) THEN 4 ELSE 0
             x == Indexed(w)
             opcodes == IF n > 2 /\ last \in DdCbOpcodes THEN n - 1 ELSE n
             T == Published(w).t
             R == Published(w).r
  <2>1. w[1] # "nmi" /\ (w[1] = "int" => Len(w) > 1 /\ w[2] \notin {"im1", "im2"})
    BY <1>2, <1>6 DEF Running
  <2>2. /\ n \in Nat \ {0} /\ R = opcodes
        /\ T = IF Ints(w) THEN 2 + 4 * opcodes + Extra(last, x) ELSE 4 * opcodes + Extra(last, x)
    BY <1>2, <2>1, PublishedIs
  <2>3. Opened(w) = 8 * n + i
    BY DEF Opened
  <2>4. 2 * (4 * opcodes + Extra(last, x)) + i = 2 * T
    <3> DEFINE y == Extra(last, x)
    <3>1. y \in Nat /\ opcodes \in Nat
      BY <2>2 DEF Extra
    <3> HIDE DEF y, opcodes, T
    <3> QED BY <2>2, <3>1 DEF y
  <2>5. CASE cycle \in {"DdCbWrite", "DdCbBit"}
    <3>1. n > 2 /\ last \in DdCbOpcodes /\ last = IF cycle = "DdCbWrite" THEN "rot" ELSE "bit"
      BY <2>5 DEF Working, DdCbOpcodes
    <3>2. opcodes = n - 1 /\ Extra(last, x) = IF cycle = "DdCbWrite" THEN 15 ELSE 12
      BY <3>1 DEF Extra
    <3>3. Since(cycle, 0, w) = Opened(w) + 14 /\ Before(cycle, 0, w) = n - 1
          /\ Lasting(cycle) = IF cycle = "DdCbWrite" THEN 9 ELSE 3
      BY <2>5 DEF Since, Before, Lasting, Fetches
    <3> HIDE DEF n, i, T, R, opcodes, last, x
    <3>4. i \in Int
      BY DEF i
    <3>5. 2 * T = Since(cycle, 0, w) + Lasting(cycle) - 1 /\ R = Before(cycle, 0, w)
      BY <2>2, <2>3, <2>4, <2>5, <3>2, <3>3, <3>4
    <3> QED BY <3>5 DEF T, R
  <2>6. CASE cycle = "IndexedStore"
    <3>1. last = "storen" /\ x
      BY <2>6 DEF Working
    <3>2. opcodes = n /\ Extra(last, x) = 11
      BY <3>1 DEF Extra, DdCbOpcodes
    <3>3. Since(cycle, 0, w) = Opened(w) + 16 /\ Before(cycle, 0, w) = n /\ Lasting(cycle) = 7
      BY <2>6 DEF Since, Before, Lasting, Fetches
    <3> HIDE DEF n, i, T, R, opcodes, last, x
    <3>4. i \in Int
      BY DEF i
    <3>5. 2 * T = Since(cycle, 0, w) + Lasting(cycle) - 1 /\ R = Before(cycle, 0, w)
      BY <2>2, <2>3, <2>4, <3>2, <3>3, <3>4
    <3> QED BY <3>5 DEF T, R
  <2>7. CASE cycle \in Going \ {"prefix"}
    <3>1. last \in AllOps \ DdCbOpcodes /\ cycle = Goes(last) /\ ~(last = "storen" /\ x)
      BY <1>2, <2>7 DEF Working
    <3>2. opcodes = n
      BY <3>1
    <3>3. cycle \notin {"IndexedStore", "DdCbWrite", "DdCbBit"} \cup Fetches \cup Indexing \cup Interrupting
      BY <2>7 DEF Going, Fetches, Indexing, Interrupting
    <3>4. Before(cycle, 0, w) = n
      BY <3>3 DEF Before, Fetches, Indexing, Interrupting
    <3>5. Since(cycle, 0, w) = IF cycle = "mem" THEN Opened(w) + (IF x THEN 16 ELSE 0) ELSE Opened(w)
      BY <3>3 DEF Since, Fetches, Indexing, Interrupting
    <3>6. 2 * Extra(last, x) = Lasting(cycle) - 1 + (IF cycle = "mem" /\ x THEN 16 ELSE 0)
      <4>1. \/ last \in {"op", "imm", "mem", "retn", "storen", "cbhl", "bithl", "ei", "di", "halt"} /\ cycle = last
            \/ last \in {"im0", "im1", "im2"} /\ cycle = "im"
        BY <2>7, <3>1 DEF AllOps, Opcodes, EdOpcodes, CbOpcodes, PrefixBytes, Goes
      <4>2. CASE last \in {"im0", "im1", "im2"} /\ cycle = "im"
        BY <4>2 DEF Extra, Lasting, Fetches
      <4>3. CASE cycle = last /\ last \in {"op", "ei", "di", "halt"}
        BY <4>3 DEF Extra, Lasting, Fetches
      <4>4. CASE cycle = last /\ last \in {"imm", "mem"}
        BY <4>4 DEF Extra, Lasting, Fetches
      <4>5. CASE cycle = last /\ last \in {"retn", "storen", "cbhl", "bithl"}
        BY <3>1, <4>5 DEF Extra, Lasting, Fetches
      <4> QED BY <4>1, <4>2, <4>3, <4>4, <4>5
    <3> DEFINE y == Extra(last, x)
               m == IF cycle = "mem" /\ x THEN 16 ELSE 0
               k == Lasting(cycle)
               s == Since(cycle, 0, w)
    <3>7. y \in Int /\ i \in Int /\ m \in Int /\ k \in Int
      BY DEF Extra, Lasting
    <3>8. s = Opened(w) + m
      BY <1>1, <3>5
    <3>9. 2 * y = k - 1 + m
      BY <3>6
    <3>10. 2 * (4 * n + y) + i = 2 * T
      BY <2>4, <3>2
    <3> HIDE DEF n, i, T, R, opcodes, last, x, y, m, k, s
    <3>11. 2 * T = s + k - 1
      BY <2>2, <2>3, <3>7, <3>8, <3>9, <3>10
    <3> QED BY <2>2, <3>2, <3>4, <3>11 DEF k, s, T, R, n
  <2> QED BY <1>3, <1>6, <2>5, <2>6, <2>7 DEF Interrupting
<1> QED BY <1>3, <1>4, <1>5, <1>6 DEF Interrupting, Going

-----------------------------------------------------------------------------
(* The ends of cycles, and of instructions.                                *)

\* What every half-clock that does not begin a fetch of an opcode leaves.
Onto(c, e, r) ==
  Inv(e) /\ e.pins = Driven(Up(c), At(c.step)) /\ e.addr = r.addr /\ e.step.cycle \notin Refreshing

\* A cycle that ends within an instruction leads into the one it should.
LEMMA MovesIs ==
  ASSUME NEW c, Inv(c), NEW r, Ran(c, r, At(c.step)), NEW byte, NEW int,
         At(c.step).do \in {"plain", "ed", "cb", "ddfd", "run", "store", "act", "push", "vector"}
  PROVE  Onto(c, After(r, At(c.step).do, byte, int), r)
<1> DEFINE h == At(c.step)
           e == After(r, h.do, byte, int)
           cycle == c.step.cycle
           w == c.spent.what
           op == c.opcode
           im == c.im
           ack == c.nmi_ack
           hlx == c.hlx
           b == IF cycle \in Fetches \cup {"DdCb", "Acknowledge"} THEN 1 ELSE 0
           n == IF cycle \in Refreshing THEN 1 ELSE 0
<1>1. /\ h.do \in {"plain", "ed", "cb", "ddfd", "run", "store", "act", "push", "vector"}
      /\ h.do \notin Ongoing /\ h.do \notin Latching
  BY DEF Ongoing, Latching
<1>2. cycle \in Cycles /\ h.do = Closing(cycle) /\ Left(Where(c.step), h).lines = {} /\ Where(c.step).b = b
  BY <1>1, EndedIs
<1>3. c \in Cpus /\ Told(c) /\ w \in Seq(Words)
  BY DEF Inv, Cpus, Spents
<1>4. Fetching(cycle, b, w) /\ Working(cycle, w) /\ Answering(cycle, b, w, im, ack) /\ Running(cycle, w, op, hlx)
  <2> HIDE DEF b
  <2> QED BY <1>2, <1>3 DEF Told
<1>5. cycle # "op"
  BY <1>2 DEF Closing
<1>6. /\ c.spent.halves + 1 = Since(cycle, b, w) + Lasting(cycle)
      /\ r.spent.refreshed = Before(cycle, b, w) + n
  BY <1>1, <1>5, EndedIs
<1>7. r \in Cpus /\ r.opcode = op /\ r.im = im /\ r.nmi_ack = ack /\ r.spent.what = w
  BY DEF Ran, Keeps
<1>8. ASSUME NEW to, Entered(r, e, h.do, to, op, w), Opens(to, w, op, im, ack, hlx),
             to \in Interrupting => cycle \in Interrupting,
             Since(to, 0, w) = Since(cycle, b, w) + Lasting(cycle), Before(to, 0, w) = Before(cycle, b, w) + n
      PROVE  Onto(c, e, r)
  <2> HIDE DEF e
  <2>1. c.spent.halves + 1 = Since(to, 0, w) /\ r.spent.refreshed = Before(to, 0, w)
    BY <1>6, <1>8
  <2>2. Inv(e) /\ e.pins = Driven(Up(c), h) /\ e.addr = r.addr /\ e.step.cycle \notin Refreshing
    BY <1>2, <1>8, <2>1, MovedTo
  <2> QED BY <2>2 DEF Onto
<1> HIDE DEF e, h, cycle, w, op, im, ack, hlx
<1>9. ASSUME h.do \in {"plain", "ed", "cb"} PROVE Onto(c, e, r)
  <2>1. cycle \in {"PlainFetch", "EdFetch", "CbFetch"}
    BY <1>2, <1>9 DEF Closing, Cycles, Fetches, Indexing, Interrupting, Going
  <2>2. b = 1 /\ n = 1 /\ Lasting(cycle) = 7
    BY <2>1 DEF Fetches, Refreshing, Lasting
  <2>3. /\ op \in AllOps \ DdCbOpcodes
        /\ Opens(Goes(op), w, op, im, ack, hlx) /\ Goes(op) \notin Interrupting
        /\ Since(Goes(op), 0, w) = Since(cycle, 1, w) + 7 /\ Before(Goes(op), 0, w) = Before(cycle, 1, w) + 1
    <3>1. Fetching(cycle, 1, w) /\ Answering(cycle, 1, w, im, ack)
      BY <1>4, <2>2
    <3> QED BY <1>3, <1>4, <2>1, <3>1, TurnsPlain
  <2>4. Entered(r, e, h.do, Goes(op), op, w)
    BY <1>7, <1>9, <2>3, RunsAre DEF e
  <2> QED BY <1>8, <2>2, <2>3, <2>4
<1>10. ASSUME h.do = "ddfd" PROVE Onto(c, e, r)
  <2>1. cycle = "DdFdFetch"
    BY <1>2, <1>10 DEF Closing, Cycles, Fetches, Indexing, Interrupting, Going
  <2>2. b = 1 /\ n = 1 /\ Lasting(cycle) = 7
    BY <2>1 DEF Fetches, Refreshing, Lasting
  <2>3. /\ op \in AllOps \ DdCbOpcodes
        /\ Opens(AfterDd(op), w, op, im, ack, hlx) /\ AfterDd(op) \notin Interrupting
        /\ Since(AfterDd(op), 0, w) = Since(cycle, 1, w) + 7 /\ Before(AfterDd(op), 0, w) = Before(cycle, 1, w) + 1
    <3>1. Fetching("DdFdFetch", 1, w) /\ Answering("DdFdFetch", 1, w, im, ack) /\ Running("DdFdFetch", w, op, hlx)
      BY <1>4, <2>1, <2>2
    <3> QED BY <1>3, <2>1, <3>1, TurnsDd
  <2>4. Entered(r, e, h.do, AfterDd(op), op, w)
    BY <1>7, <1>10, <2>3, RunsAre DEF e, AfterDd
  <2> QED BY <1>8, <2>2, <2>3, <2>4
<1>11. ASSUME h.do = "run" PROVE Onto(c, e, r)
  <2>1. cycle = "Displacement"
    BY <1>2, <1>11 DEF Closing, Cycles, Fetches, Indexing, Interrupting, Going
  <2>2. b = 0 /\ n = 0 /\ Lasting(cycle) = 16
    BY <2>1 DEF Fetches, Refreshing, Lasting
  <2>3. /\ op = "mem" /\ Opens(Goes(op), w, op, im, ack, hlx) /\ Goes(op) \notin Interrupting
        /\ Since(Goes(op), 0, w) = Since(cycle, b, w) + 16 /\ Before(Goes(op), 0, w) = Before(cycle, b, w)
    <3>1. Working("Displacement", w) /\ Answering("Displacement", b, w, im, ack) /\ Running("Displacement", w, op, hlx)
      BY <1>4, <2>1
    <3> HIDE DEF b
    <3>2. /\ op = "mem" /\ Opens(Goes(op), w, op, im, ack, hlx) /\ Goes(op) \notin Interrupting
          /\ Since(Goes(op), 0, w) = Since("Displacement", b, w) + 16
          /\ Before(Goes(op), 0, w) = Before("Displacement", b, w)
      BY <1>3, <3>1, TurnsIndexed, Zenon
    <3> QED BY <2>1, <3>2
  <2>4. Entered(r, e, h.do, Goes(op), op, w)
    <3>1. op \in AllOps \ DdCbOpcodes
      BY <2>3 DEF AllOps, Opcodes, DdCbOpcodes
    <3> QED BY <1>7, <1>11, <3>1, RunsAre DEF e
  <2>5. Before(cycle, b, w) + 0 = Before(cycle, b, w)
    <3>1. Before(cycle, b, w) = Count(w)
      BY <2>1 DEF Before
    <3> QED BY <1>3, <3>1, CountsAre
  <2> QED BY <1>8, <2>2, <2>3, <2>4, <2>5
<1>12. ASSUME h.do = "store" PROVE Onto(c, e, r)
  <2>1. cycle = "DisplacementN"
    BY <1>2, <1>12 DEF Closing, Cycles, Fetches, Indexing, Interrupting, Going
  <2>2. b = 0 /\ n = 0 /\ Lasting(cycle) = 16
    BY <2>1 DEF Fetches, Refreshing, Lasting
  <2>3. /\ Opens("IndexedStore", w, op, im, ack, hlx)
        /\ Since("IndexedStore", 0, w) = Since(cycle, b, w) + 16 /\ Before("IndexedStore", 0, w) = Before(cycle, b, w)
    <3>1. Working("DisplacementN", w) /\ Answering("DisplacementN", b, w, im, ack) /\ Running("DisplacementN", w, op, hlx)
      BY <1>4, <2>1
    <3> HIDE DEF b
    <3> QED BY <1>3, <2>1, <3>1, TurnsIndexed
  <2>4. Entered(r, e, h.do, "IndexedStore", op, w)
    BY <1>7, <1>12, EndsAre DEF e
  <2>5. Before(cycle, b, w) + 0 = Before(cycle, b, w)
    <3>1. Before(cycle, b, w) = Count(w)
      BY <2>1 DEF Before
    <3> QED BY <1>3, <3>1, CountsAre
  <2>6. "IndexedStore" \notin Interrupting
    BY DEF Interrupting
  <2> QED BY <1>8, <2>2, <2>3, <2>4, <2>5, <2>6
<1>13. ASSUME h.do = "act" PROVE Onto(c, e, r)
  <2> DEFINE to == IF op = "bit" THEN "DdCbBit" ELSE "DdCbWrite"
  <2>1. cycle = "DdCb"
    BY <1>2, <1>13 DEF Closing, Cycles, Fetches, Indexing, Interrupting, Going
  <2>2. b = 1 /\ n = 0 /\ Lasting(cycle) = 21
    BY <2>1 DEF Fetches, Refreshing, Lasting
  <2>3. /\ Opens(to, w, op, im, ack, hlx)
        /\ Since(to, 0, w) = Since(cycle, 1, w) + 21 /\ Before(to, 0, w) = Before(cycle, 1, w)
    <3>1. Fetching("DdCb", 1, w) /\ Answering("DdCb", 1, w, im, ack) /\ Running("DdCb", w, op, hlx)
      BY <1>4, <2>1, <2>2
    <3> QED BY <1>3, <2>1, <3>1, TurnsDdCb
  <2>4. Entered(r, e, h.do, to, op, w)
    BY <1>7, <1>13, EndsAre DEF e
  <2>5. Before(cycle, 1, w) + 0 = Before(cycle, 1, w)
    <3>1. Before(cycle, 1, w) = Count(w) - 1
      BY <2>1 DEF Before
    <3> QED BY <1>3, <3>1, CountsAre
  <2>6. to \notin Interrupting
    BY DEF Interrupting
  <2> HIDE DEF to
  <2> QED BY <1>8, <2>2, <2>3, <2>4, <2>5, <2>6
<1>14. ASSUME h.do = "push" PROVE Onto(c, e, r)
  <2>1. cycle \in {"Acknowledge", "Nmi"}
    BY <1>2, <1>14 DEF Closing, Cycles, Fetches, Indexing, Interrupting, Going
  <2>2. /\ b = (IF cycle = "Acknowledge" THEN 1 ELSE 0) /\ n = 1 /\ Lasting(cycle) = (IF cycle = "Nmi" THEN 9 ELSE 13)
        /\ cycle \in Interrupting
    BY <2>1 DEF Fetches, Refreshing, Lasting, Interrupting
  <2>3. /\ Opens("PushPc", w, op, im, ack, hlx)
        /\ Since("PushPc", 0, w) = Since(cycle, b, w) + (IF cycle = "Nmi" THEN 9 ELSE 13)
        /\ Before("PushPc", 0, w) = Before(cycle, b, w) + 1
    <3> HIDE DEF b
    <3> QED BY <1>3, <1>4, <2>1, <2>2, TurnsPush
  <2>4. Entered(r, e, h.do, "PushPc", op, w)
    BY <1>7, <1>14, EndsAre DEF e
  <2> QED BY <1>8, <2>2, <2>3, <2>4
<1>15. ASSUME h.do = "vector" PROVE Onto(c, e, r)
  <2> DEFINE to == IF im = 2 /\ ~ack THEN "Vector" ELSE "Arrive"
  <2>1. cycle = "PushPc"
    BY <1>2, <1>15 DEF Closing, Cycles, Fetches, Indexing, Interrupting, Going
  <2>2. n = 0 /\ Lasting(cycle) = 12 /\ cycle \in Interrupting
    BY <2>1 DEF Fetches, Refreshing, Lasting, Interrupting
  <2>3. /\ Opens(to, w, op, im, ack, hlx)
        /\ Since(to, 0, w) = Since(cycle, b, w) + 12 /\ Before(to, 0, w) = Before(cycle, b, w)
    <3> HIDE DEF b
    <3> QED BY <1>3, <1>4, <2>1, TurnsVector
  <2>4. Entered(r, e, h.do, to, op, w)
    BY <1>7, <1>15, EndsAre DEF e
  <2>5. Before(cycle, b, w) + 0 = Before(cycle, b, w)
    <3>1. Before(cycle, b, w) = 1
      BY <2>1 DEF Before
    <3> QED BY <3>1
  <2> HIDE DEF to
  <2> QED BY <1>8, <2>2, <2>3, <2>4, <2>5
<1>16. Onto(c, e, r)
  BY <1>1, <1>9, <1>10, <1>11, <1>12, <1>13, <1>14, <1>15
<1> QED BY <1>16 DEF e, h

\* In IM 0 the acknowledge leads into the instruction it was given.
LEMMA InstructionIs ==
  ASSUME NEW c, Inv(c), NEW r, Ran(c, r, At(c.step)), At(c.step).do = "acknowledged", c.im = 0,
         NEW byte \in Opcodes, NEW int
  PROVE  Onto(c, After(r, "acknowledged", byte, int), r)
<1> DEFINE h == At(c.step)
           P == Where(c.step)
           e == After(r, "acknowledged", byte, int)
           w == c.spent.what
           v == Append(w, byte)
<1>1. c \in Cpus /\ Placed(c) /\ Told(c) /\ Counted(c)
  BY DEF Inv
<1>2. OnTable(c.step, h) /\ c.step.cycle \in Cycles
  BY <1>1, StepIs
<1>3. Left(P, h) = Acknowledged /\ P.b = 0 /\ c.step.cycle = "Acknowledge"
  BY <1>2 DEF OnTable, Tidy, Latching, Does, Kind, Fetches, Interrupting
<1>4. Answering("Acknowledge", 0, w, c.im, c.nmi_ack) /\ Running("Acknowledge", w, c.opcode, c.hlx)
  BY <1>1, <1>3 DEF Told
<1>5. /\ Opens(Goes(byte), v, byte, c.im, c.nmi_ack, c.hlx) /\ Goes(byte) \notin Interrupting
      /\ Since(Goes(byte), 0, v) = 12 /\ Before(Goes(byte), 0, v) = 1
  BY <1>4, TurnsInstruction
<1>6. c.spent.halves + 1 = 12 /\ r.spent.refreshed = 1
  <2>1. c.spent.halves = Since("Acknowledge", 0, w) + P.t /\ c.spent.refreshed = Before("Acknowledge", 0, w) + P.r
    BY <1>1, <1>3 DEF Counted
  <2>2. Since("Acknowledge", 0, w) = 1 /\ Before("Acknowledge", 0, w) = 0
    BY DEF Since, Before
  <2>3. P.t + 1 = 11 /\ P.t \in Nat /\ P.r \in Nat /\ r.spent.refreshed + P.r = c.spent.refreshed + 1 /\ r \in Cpus
    BY <1>3, RanIs, TracksAre
  <2>4. r.spent.refreshed \in Int
    BY <2>3 DEF Cpus, Spents
  <2> HIDE DEF P
  <2> QED BY <2>1, <2>2, <2>3, <2>4
<1>7. Entered(r, e, h.do, Goes(byte), byte, v)
  <2>1. byte \in AllOps \ DdCbOpcodes /\ r \in Cpus /\ r.im = 0 /\ r.spent.what = w
    BY DEF AllOps, Opcodes, DdCbOpcodes, PrefixBytes, Ran, Keeps
  <2> QED BY <2>1, AcknowledgedIs
<1>8. Left(P, h).lines = {}
  BY <1>3, TracksAre
<1> HIDE DEF e, v
<1>9. Inv(e) /\ e.pins = Driven(Up(c), h) /\ e.addr = r.addr /\ e.step.cycle \notin Refreshing
  BY <1>5, <1>6, <1>7, <1>8, MovedTo
<1> QED BY <1>9 DEF Onto, e

\* What a prefix or the beginning of a fetch leaves.
Quiet(e) ==
  /\ Inv(e) /\ e.pins \subseteq {"M1"}
  /\ e.step.cycle \in {"PlainFetch", "Acknowledge", "Nmi"} => e.pins = {"M1"}
  /\ e.step.cycle \in {"PlainFetch", "Acknowledge"} => ~e.nmi_pending

\* A prefix begins another fetch.
LEMMA PrefixIs ==
  ASSUME NEW c, Inv(c), NEW r, Ran(c, r, At(c.step)), At(c.step).do = "prefix", NEW byte, NEW int
  PROVE  Quiet(After(r, "prefix", byte, int))
<1> DEFINE h == At(c.step)
           e == After(r, "prefix", byte, int)
           w == c.spent.what
           n == Len(w)
           op == c.opcode
           to == IF op = "ED" THEN "EdFetch" ELSE IF op # "CB" THEN "DdFdFetch" ELSE IF r.hlx THEN "DdCb" ELSE "CbFetch"
           x == IF op = "ED" THEN FALSE ELSE IF op # "CB" THEN TRUE ELSE r.hlx
<1>1. c \in Cpus /\ Placed(c) /\ Told(c) /\ Counted(c) /\ w \in Seq(Words)
  BY DEF Inv, Cpus, Spents
<1>2. h.do \notin Ongoing /\ h.do \notin Latching /\ "prefix" \notin Releasing
  BY DEF Ongoing, Latching, Releasing
<1>3. c.step.cycle \in Cycles /\ c.step.cycle = "prefix" /\ Left(Where(c.step), h).lines = {} /\ Where(c.step).b = 0
  <2>1. c.step.cycle \in Cycles /\ "prefix" = Closing(c.step.cycle) /\ Left(Where(c.step), h).lines = {}
    BY <1>2, EndedIs
  <2>2. c.step.cycle = "prefix"
    BY <2>1 DEF Closing, Cycles, Fetches, Indexing, Interrupting, Going
  <2> QED BY <1>2, <2>1, <2>2, EndedIs DEF Fetches
<1>4. Working("prefix", w) /\ Answering("prefix", 0, w, c.im, c.nmi_ack) /\ Running("prefix", w, op, c.hlx)
  BY <1>1, <1>3 DEF Told
<1>5. n \in Nat /\ Opened(w) \in Nat /\ Count(w) \in Nat
  BY <1>1, CountsAre
<1>6. n > 0 /\ w[n] \in PrefixBytes
  <2>1. n > 0 /\ w[n] \in AllOps /\ "prefix" = Goes(w[n])
    BY <1>4 DEF Working, Going
  <2> QED BY <2>1 DEF Goes, AllOps, Opcodes, EdOpcodes, CbOpcodes, DdCbOpcodes
<1>7. /\ op = w[n] /\ w[1] # "nmi" /\ (w[1] = "int" => n > 1 /\ w[2] \notin {"im1", "im2"})
      /\ (c.hlx => Indexed(w)) /\ ~c.nmi_ack
  BY <1>4, <1>5, <1>6 DEF Running, Answering, Interrupting, Indexing
<1>8. c.spent.halves = Opened(w) /\ r.spent.refreshed = Count(w) /\ c.spent.halves \in Int
  <2>1. /\ c.spent.halves + 1 = Since("prefix", 0, w) + Lasting("prefix")
        /\ r.spent.refreshed = Before("prefix", 0, w) + 0
    BY <1>2, <1>3, EndedIs DEF Fetches, Refreshing
  <2>2. Since("prefix", 0, w) = Opened(w) /\ Lasting("prefix") = 1 /\ Before("prefix", 0, w) = Count(w)
    BY DEF Since, Lasting, Before, Fetches
  <2>3. c.spent.halves \in Int
    BY <1>1 DEF Cpus, Spents
  <2> QED BY <1>5, <2>1, <2>2, <2>3
<1>9. /\ r \in Cpus /\ r.pins = {} /\ r.spent.what = w /\ r.spent.halves = Opened(w) + 1
      /\ r.pc = r.bytes /\ r.pushed = 0 /\ r.over = Nothing
  <2>1. r.pins \ (IF h.do \in Releasing THEN {"RFSH"} ELSE {}) = {}
    BY <1>3, RanIs
  <2>2. r.pins = {}
    BY <1>2, <2>1
  <2> QED BY <1>8, <2>2, RanIs
<1>10. r.opcode = op /\ r.im = c.im /\ r.nmi_ack = c.nmi_ack /\ r.hlx = c.hlx /\ r.rfsh_release = FALSE
  BY DEF Ran, Keeps
<1>11. Prefixed(r, e, to, x)
  <2>1. e = CASE op = "ED" -> BeginFetchEd(r) [] op = "CB" -> BeginFetchCb(r) [] OTHER -> BeginFetchDd(r)
    BY <1>10 DEF After
  <2>2. CASE op = "ED"
    BY <1>9, <2>1, <2>2, EdIs
  <2>3. CASE op = "CB"
    <3>1. e = BeginFetchCb(r)
      BY <2>1, <2>3
    <3>2. CASE r.hlx
      BY <1>9, <2>3, <3>1, <3>2, CbIs
    <3>3. CASE ~r.hlx
      BY <1>9, <2>3, <3>1, <3>3, CbIs
    <3> QED BY <3>2, <3>3
  <2>4. CASE op \notin {"ED", "CB"}
    BY <1>9, <2>1, <2>4, DdIs
  <2> QED BY <2>2, <2>3, <2>4
<1>12. /\ to \in {"EdFetch", "DdFdFetch", "DdCb", "CbFetch"} /\ (to = "EdFetch" => op = "ED") /\ (to = "DdFdFetch" => op = "DD")
       /\ (to = "CbFetch" => op = "CB") /\ (to = "DdCb" => op = "CB" /\ Indexed(w))
       /\ (x => to = "DdFdFetch" \/ to = "DdCb")
  BY <1>6, <1>7, <1>10 DEF PrefixBytes
<1> HIDE DEF e, to, x
<1>13. /\ e \in Cpus /\ e.step = [cycle |-> to, half |-> 1]
       /\ e.pins = (IF to = "DdCb" THEN {} ELSE {"M1"})
       /\ e.over = Nothing /\ e.im = c.im /\ e.pushed = 0 /\ e.opcode = op
       /\ e.spent.what = w /\ e.spent.halves = Opened(w) + 1 /\ e.spent.refreshed = Count(w)
  BY <1>8, <1>9, <1>10, <1>11 DEF Prefixed
<1>14. e.rfsh_release = FALSE /\ e.nmi_ack = c.nmi_ack /\ e.hlx = x
  BY <1>10, <1>11, Zenon DEF Prefixed
<1>15. e.pc = e.bytes
  <2>1. e.pc - e.bytes = r.pc - r.bytes
    BY <1>11 DEF Prefixed
  <2>2. e.pc \in Int /\ e.bytes \in Int /\ r.pc \in Int
    BY <1>9, <1>13 DEF Cpus
  <2> QED BY <1>9, <2>1, <2>2
<1>16. to \in Cycles /\ to \notin Interrupting /\ to \notin Going /\ to # "PlainFetch" /\ (to \in Refreshing <=> to # "DdCb")
  BY <1>12 DEF Cycles, Fetches, Indexing, Interrupting, Going, Refreshing
<1>17. /\ 1 \in 1..Len(Cycle(to)) /\ Where(e.step) = Begins(to) /\ e.step.cycle = to /\ e.step.half = 1
       /\ Begins(to).lines = (IF to = "DdCb" THEN {} ELSE {"M1"})
       /\ Begins(to).t = 0 /\ Begins(to).r = 0 /\ Begins(to).b = 0
  BY <1>13, <1>16, Starts, TracksAre
<1>18. Placed(e)
  <2>1. Up(e) = e.pins
    BY <1>14 DEF Up
  <2> QED BY <1>13, <1>17, <2>1 DEF Placed
<1>19. AtHome(e)
  BY <1>13, <1>15, <1>16, <1>17 DEF AtHome
<1>20. Told(e)
  <2>1. Fetching(to, 0, w)
    BY <1>5, <1>6, <1>7, <1>12 DEF Fetching, Indexed
  <2>2. Working(to, w) /\ Answering(to, 0, w, c.im, c.nmi_ack)
    BY <1>7, <1>12, <1>16 DEF Working, Answering
  <2>3. Running(to, w, op, x)
    BY <1>7, <1>12 DEF Running, Indexing
  <2> QED BY <1>13, <1>14, <1>17, <2>1, <2>2, <2>3 DEF Told
<1>21. Counted(e)
  <2>1. Since(to, 0, w) = Opened(w) - 8 * 0 + 1 /\ Before(to, 0, w) = Count(w) - 0
    BY <1>12 DEF Since, Before
  <2>2. Since(to, 0, w) + 0 = Opened(w) + 1 /\ Before(to, 0, w) + 0 = Count(w)
    BY <1>5, <2>1
  <2> QED BY <1>13, <1>17, <2>2 DEF Counted
<1>22. Comes(e.over)
  BY <1>13, NothingIs DEF Comes
<1>23. Quiet(e)
  BY <1>12, <1>13, <1>17, <1>18, <1>19, <1>20, <1>21, <1>22 DEF Quiet, Inv
<1> QED BY <1>23 DEF e

\* A CPU whose instruction is over.
Finished(d) ==
  /\ d \in Cpus /\ d.pins = {} /\ d.rfsh_release = FALSE /\ d.pc = d.bytes /\ d.pushed = 0 /\ d.nmi_ack = FALSE
  /\ Comes([what |-> d.spent.what, halves |-> d.spent.halves - 1, refreshed |-> d.spent.refreshed])

\* The fetch after an instruction that is over begins as the invariant says.
LEMMA BegunIs == ASSUME NEW d, Finished(d), NEW e, Begun(d, e) PROVE Quiet(e)
<1> DEFINE cycle == e.step.cycle
           w == e.spent.what
<1>1. /\ e \in Cpus /\ e.pins = {"M1"} /\ e.rfsh_release = FALSE /\ e.hlx = FALSE /\ e.pushed = 0
      /\ Comes(e.over)
  BY DEF Begun, Finished
<1>2. d.pc - d.bytes = 0 /\ e.pc = e.bytes
  <2>1. d.pc \in Int /\ d.bytes \in Int /\ e.pc \in Int /\ e.bytes \in Int
    BY <1>1 DEF Finished, Cpus
  <2>2. d.pc - d.bytes = 0
    BY <2>1 DEF Finished
  <2>3. e.pc - e.bytes = d.pc - d.bytes
    BY DEF Begun
  <2>4. \A x, y \in Int : x - y = 0 => x = y
    OBVIOUS
  <2>5. e.pc - e.bytes = 0
    BY <2>2, <2>3, Zenon
  <2>6. e.pc = e.bytes
    BY <2>1, <2>4, <2>5, Zenon
  <2> QED BY <2>2, <2>6, Zenon
<1>3. /\ cycle \in {"PlainFetch", "Acknowledge", "Nmi"} /\ e.step = [cycle |-> cycle, half |-> 1]
      /\ e.spent.halves = 1 /\ e.spent.refreshed = 0
      /\ w = (IF cycle = "PlainFetch" THEN <<>> ELSE IF cycle = "Nmi" THEN <<"nmi">> ELSE <<"int">>)
      /\ e.pc = IF cycle = "PlainFetch" /\ ~e.halted THEN 1 ELSE 0
  <2>1. Began(d, e)
    BY DEF Begun
  <2>2. CASE cycle = "Nmi"
    BY <1>2, <2>1, <2>2 DEF Began, Afresh
  <2>3. CASE cycle = "Acknowledge"
    BY <1>2, <2>1, <2>3 DEF Began, Afresh
  <2>4. CASE cycle = "PlainFetch"
    <3>1. e.step = [cycle |-> "PlainFetch", half |-> 1] /\ e.spent = Afresh /\ e.pc = 0 + (IF e.halted THEN 0 ELSE 1)
      BY <1>2, <2>1, <2>4 DEF Began
    <3> QED BY <2>4, <3>1 DEF Afresh
  <2> QED BY <2>1, <2>2, <2>3, <2>4 DEF Began
<1>4. (cycle = "Nmi" => e.nmi_ack = TRUE) /\ (cycle # "Nmi" => e.nmi_ack = FALSE /\ e.nmi_pending = FALSE)
  <2>1. Began(d, e) /\ d.nmi_ack = FALSE
    BY DEF Begun, Finished
  <2> QED BY <2>1 DEF Began
<1>5. cycle \in Cycles /\ cycle \in Refreshing /\ cycle \notin Indexing /\ cycle \notin Going
      /\ (cycle \in Interrupting <=> cycle # "PlainFetch") /\ cycle \notin {"EdFetch", "CbFetch", "DdFdFetch", "DdCb"}
  BY <1>3 DEF Cycles, Fetches, Indexing, Interrupting, Going, Refreshing
<1>6. /\ 1 \in 1..Len(Cycle(cycle)) /\ Where(e.step) = Begins(cycle) /\ e.step.half = 1
      /\ Begins(cycle).lines = {"M1"} /\ Begins(cycle).t = 0 /\ Begins(cycle).r = 0 /\ Begins(cycle).b = 0
  BY <1>3, <1>5, Starts, TracksAre
<1>7. Placed(e)
  <2>1. Up(e) = e.pins
    BY <1>1 DEF Up
  <2> QED BY <1>1, <1>6, <2>1 DEF Placed
<1>8. AtHome(e)
  BY <1>1, <1>2, <1>3, <1>5 DEF AtHome
<1>9. Told(e)
  <2>1. Fetching(cycle, 0, w) /\ Working(cycle, w)
    BY <1>3, <1>5 DEF Fetching, Working, Indexing
  <2>2. Answering(cycle, 0, w, e.im, e.nmi_ack)
    BY <1>3, <1>4 DEF Answering
  <2>3. Running(cycle, w, e.opcode, e.hlx)
    BY <1>1, <1>3, <1>5 DEF Running
  <2> QED BY <1>6, <2>1, <2>2, <2>3 DEF Told
<1>10. Counted(e)
  BY <1>3, <1>6 DEF Counted, Since, Before
<1> QED BY <1>1, <1>3, <1>4, <1>7, <1>8, <1>9, <1>10 DEF Quiet, Inv

\* The interrupt flip-flops, set when the next fetch has begun.
LEMMA FlopsAre ==
  ASSUME NEW g \in Cpus, NEW d, Begun(d, g)
  PROVE  Begun(d, [g EXCEPT !.iff1 = TRUE, !.iff2 = TRUE]) /\ Begun(d, [g EXCEPT !.iff1 = g.iff2])
<1>1. ASSUME NEW e \in Cpus, e.step = g.step, e.pins = g.pins, e.addr = g.addr, e.opcode = g.opcode, e.im = g.im,
             e.pc = g.pc, e.bytes = g.bytes, e.pushed = g.pushed, e.spent = g.spent, e.over = g.over,
             e.hlx = g.hlx, e.halted = g.halted, e.nmi_pending = g.nmi_pending, e.nmi_ack = g.nmi_ack,
             e.rfsh_release = g.rfsh_release
      PROVE  Begun(d, e)
  <2>1. Began(d, g)
    BY DEF Begun
  <2>2. Began(d, e)
    BY <1>1, <2>1, Zenon DEF Began
  <2>3. e.pins = d.pins \cup {"M1"} /\ e.addr = "pc" /\ e.rfsh_release = d.rfsh_release /\ e.hlx = FALSE
    BY <1>1, Zenon DEF Begun
  <2>4. e.opcode = d.opcode /\ e.im = d.im /\ e.pushed = d.pushed /\ e.pc - e.bytes = d.pc - d.bytes
        /\ e.over = [what |-> d.spent.what, halves |-> d.spent.halves - 1, refreshed |-> d.spent.refreshed]
    BY <1>1, Zenon DEF Begun
  <2> QED BY <2>2, <2>3, <2>4, Zenon DEF Begun
<1>2. Begun(d, [g EXCEPT !.iff1 = TRUE, !.iff2 = TRUE])
  <2> DEFINE e == [g EXCEPT !.iff1 = TRUE, !.iff2 = TRUE]
  <2>1. e \in Cpus
    BY DEF Cpus
  <2>2. e.step = g.step /\ e.pins = g.pins /\ e.addr = g.addr /\ e.opcode = g.opcode /\ e.im = g.im
    BY DEF Cpus
  <2>3. e.pc = g.pc /\ e.bytes = g.bytes /\ e.pushed = g.pushed /\ e.spent = g.spent /\ e.over = g.over
    BY DEF Cpus
  <2>4. e.hlx = g.hlx /\ e.halted = g.halted /\ e.nmi_pending = g.nmi_pending
    BY DEF Cpus
  <2>5. e.nmi_ack = g.nmi_ack /\ e.rfsh_release = g.rfsh_release
    BY DEF Cpus
  <2> HIDE DEF e
  <2>6. Begun(d, e)
    BY <1>1, <2>1, <2>2, <2>3, <2>4, <2>5, Zenon
  <2> QED BY <2>6 DEF e
<1>3. Begun(d, [g EXCEPT !.iff1 = g.iff2])
  <2> DEFINE e == [g EXCEPT !.iff1 = g.iff2]
  <2>1. e \in Cpus
    BY DEF Cpus
  <2>2. e.step = g.step /\ e.pins = g.pins /\ e.addr = g.addr /\ e.opcode = g.opcode /\ e.im = g.im
    BY DEF Cpus
  <2>3. e.pc = g.pc /\ e.bytes = g.bytes /\ e.pushed = g.pushed /\ e.spent = g.spent /\ e.over = g.over
    BY DEF Cpus
  <2>4. e.hlx = g.hlx /\ e.halted = g.halted /\ e.nmi_pending = g.nmi_pending
    BY DEF Cpus
  <2>5. e.nmi_ack = g.nmi_ack /\ e.rfsh_release = g.rfsh_release
    BY DEF Cpus
  <2> HIDE DEF e
  <2>6. Begun(d, e)
    BY <1>1, <2>1, <2>2, <2>3, <2>4, <2>5, Zenon
  <2> QED BY <2>6 DEF e
<1> QED BY <1>2, <1>3

\* What the last half-clock of an instruction sets before the fetch begins.
LEMMA ReadyAre ==
  ASSUME NEW r \in Cpus, r.pins = {}, r.rfsh_release = FALSE, r.pc = r.bytes, r.pushed = 0,
         Comes([what |-> r.spent.what, halves |-> r.spent.halves - 1, refreshed |-> r.spent.refreshed])
  PROVE  /\ \A x \in BOOLEAN : (r.nmi_ack => ~x) => Finished([r EXCEPT !.nmi_ack = r.nmi_ack /\ x])
         /\ ~r.nmi_ack =>
              /\ Finished(r) /\ Finished([r EXCEPT !.iff1 = FALSE, !.iff2 = FALSE])
              /\ Finished([r EXCEPT !.halted = TRUE]) /\ \A m \in 0..2 : Finished([r EXCEPT !.im = m])
<1>1. ASSUME NEW d \in Cpus, d.pins = r.pins, d.rfsh_release = r.rfsh_release, d.pc = r.pc, d.bytes = r.bytes,
             d.pushed = r.pushed, d.spent = r.spent, d.nmi_ack = FALSE
      PROVE  Finished(d)
  BY <1>1 DEF Finished
<1>2. ASSUME NEW x \in BOOLEAN, r.nmi_ack => ~x
      PROVE  Finished([r EXCEPT !.nmi_ack = r.nmi_ack /\ x])
  <2> DEFINE d == [r EXCEPT !.nmi_ack = FALSE]
  <2>1. (r.nmi_ack /\ x) = FALSE
    BY <1>2 DEF Cpus
  <2>2. [r EXCEPT !.nmi_ack = r.nmi_ack /\ x] = d
    BY <2>1
  <2>3. d \in Cpus
    BY DEF Cpus
  <2>4. d.pins = r.pins /\ d.pc = r.pc /\ d.bytes = r.bytes /\ d.pushed = r.pushed /\ d.spent = r.spent
    BY DEF Cpus
  <2>5. d.rfsh_release = r.rfsh_release /\ d.nmi_ack = FALSE
    BY DEF Cpus
  <2> HIDE DEF d
  <2>6. Finished(d)
    BY <1>1, <2>3, <2>4, <2>5
  <2> QED BY <2>2, <2>6
<1>3. ASSUME ~r.nmi_ack
      PROVE  Finished(r) /\ Finished([r EXCEPT !.iff1 = FALSE, !.iff2 = FALSE]) /\ Finished([r EXCEPT !.halted = TRUE])
  <2>1. r.nmi_ack = FALSE
    BY <1>3 DEF Cpus
  <2>2. Finished(r)
    BY <1>1, <2>1
  <2>3. Finished([r EXCEPT !.iff1 = FALSE, !.iff2 = FALSE])
    <3> DEFINE d == [r EXCEPT !.iff1 = FALSE, !.iff2 = FALSE]
    <3>1. d \in Cpus
      BY DEF Cpus
    <3>2. d.pins = r.pins /\ d.pc = r.pc /\ d.bytes = r.bytes /\ d.pushed = r.pushed /\ d.spent = r.spent
      BY DEF Cpus
    <3>3. d.rfsh_release = r.rfsh_release /\ d.nmi_ack = r.nmi_ack
      BY DEF Cpus
    <3> HIDE DEF d
    <3>4. Finished(d)
      BY <1>1, <2>1, <3>1, <3>2, <3>3
    <3> QED BY <3>4 DEF d
  <2>4. Finished([r EXCEPT !.halted = TRUE])
    <3> DEFINE d == [r EXCEPT !.halted = TRUE]
    <3>1. d \in Cpus
      BY DEF Cpus
    <3>2. d.pins = r.pins /\ d.pc = r.pc /\ d.bytes = r.bytes /\ d.pushed = r.pushed /\ d.spent = r.spent
      BY DEF Cpus
    <3>3. d.rfsh_release = r.rfsh_release /\ d.nmi_ack = r.nmi_ack
      BY DEF Cpus
    <3> HIDE DEF d
    <3>4. Finished(d)
      BY <1>1, <2>1, <3>1, <3>2, <3>3
    <3> QED BY <3>4 DEF d
  <2> QED BY <2>2, <2>3, <2>4
<1>4. ASSUME ~r.nmi_ack, NEW m \in 0..2 PROVE Finished([r EXCEPT !.im = m])
  <2> DEFINE d == [r EXCEPT !.im = m]
  <2>1. d \in Cpus
    BY DEF Cpus
  <2>2. d.pins = r.pins /\ d.pc = r.pc /\ d.bytes = r.bytes /\ d.pushed = r.pushed /\ d.spent = r.spent
    BY DEF Cpus
  <2>3. d.rfsh_release = r.rfsh_release /\ d.nmi_ack = r.nmi_ack
    BY DEF Cpus
  <2>4. r.nmi_ack = FALSE
    BY <1>4 DEF Cpus
  <2> HIDE DEF d
  <2>5. Finished(d)
    BY <1>1, <2>1, <2>2, <2>3, <2>4
  <2> QED BY <2>5 DEF d
<1> QED BY <1>2, <1>3, <1>4

\* The last half-clock of an instruction, whichever it is.
LEMMA BoundaryIs ==
  ASSUME NEW c, Inv(c), NEW r, Ran(c, r, At(c.step)), At(c.step).do \in Boundaries, NEW byte, NEW int \in BOOLEAN
  PROVE  Quiet(After(r, At(c.step).do, byte, int))
<1> DEFINE h == At(c.step)
           e == After(r, h.do, byte, int)
           cycle == c.step.cycle
           w == c.spent.what
           o == [what |-> r.spent.what, halves |-> r.spent.halves - 1, refreshed |-> r.spent.refreshed]
<1>1. c \in Cpus /\ Placed(c) /\ Told(c) /\ Counted(c) /\ w \in Seq(Words)
  BY DEF Inv, Cpus, Spents
<1>2. h.do \notin Ongoing /\ h.do \notin Latching /\ h.do \notin Releasing
  BY DEF Ongoing, Latching, Releasing, Boundaries
<1>3. cycle \in Cycles /\ h.do = Closing(cycle) /\ Left(Where(c.step), h).lines = {}
  BY <1>2, EndedIs
<1>4. cycle \notin Fetches \cup {"DdCb", "Acknowledge"} /\ cycle \notin Refreshing
  BY <1>3 DEF Closing, Boundaries, Fetches, Refreshing
<1>5. Where(c.step).b = 0
  BY <1>2, <1>4, EndedIs
<1>6. Working(cycle, w) /\ Answering(cycle, 0, w, c.im, c.nmi_ack) /\ Running(cycle, w, c.opcode, c.hlx)
  BY <1>1, <1>5 DEF Told
<1>7. /\ r \in Cpus /\ r.pins = {} /\ r.spent.what = w
      /\ r.spent.halves = c.spent.halves + 1 /\ c.spent.halves \in Int
      /\ r.pc = r.bytes /\ r.pushed = 0 /\ r.over = Nothing
  <2>1. r.pins \ (IF h.do \in Releasing THEN {"RFSH"} ELSE {}) = {}
    BY <1>3, RanIs
  <2>2. r.pins = {}
    BY <1>2, <2>1
  <2> QED BY <2>2, RanIs
<1>8. r.step = c.step /\ r.nmi_ack = c.nmi_ack /\ r.rfsh_release = FALSE
  BY DEF Ran, Keeps
<1>9. Comes(o)
  <2>1. CASE w = <<>>
    BY <1>7, <2>1 DEF Comes
  <2>2. CASE w # <<>>
    <3> DEFINE S == Since(cycle, 0, w)
               k == Lasting(cycle)
    <3>1. 2 * Published(w).t = S + k - 1 /\ Published(w).r = Before(cycle, 0, w)
      BY <1>1, <1>3, <1>6, <2>2, Publishes
    <3>2. c.spent.halves + 1 = S + k /\ r.spent.refreshed = Before(cycle, 0, w) + 0
      BY <1>2, <1>4, <2>2, EndedIs
    <3>3. S \in Int /\ k \in Int /\ Before(cycle, 0, w) \in Int
      <4>1. Opened(w) \in Int /\ Count(w) \in Int
        BY <1>1, CountsAre
      <4> QED BY <4>1 DEF Since, Lasting, Before
    <3> HIDE DEF S, k
    <3>4. r.spent.halves - 1 = S + k - 1
      BY <1>7, <3>2, <3>3
    <3>5. r.spent.refreshed = Before(cycle, 0, w)
      BY <3>2, <3>3
    <3>6. r.spent.halves - 1 = 2 * Published(w).t /\ r.spent.refreshed = Published(w).r
      BY <3>1, <3>4, <3>5
    <3> QED BY <1>7, <3>6 DEF Comes
  <2> QED BY <2>1, <2>2
<1>10. /\ \A x \in BOOLEAN : (r.nmi_ack => ~x) => Finished([r EXCEPT !.nmi_ack = r.nmi_ack /\ x])
       /\ ~r.nmi_ack =>
            /\ Finished(r) /\ Finished([r EXCEPT !.iff1 = FALSE, !.iff2 = FALSE])
            /\ Finished([r EXCEPT !.halted = TRUE]) /\ \A m \in 0..2 : Finished([r EXCEPT !.im = m])
  BY <1>7, <1>8, <1>9, ReadyAre
<1>11. ASSUME NEW d, Finished(d) PROVE Begun(d, BeginFetch(d, int)) /\ Quiet(BeginFetch(d, int)) /\ BeginFetch(d, int) \in Cpus
  <2>1. Begun(d, BeginFetch(d, int))
    BY <1>11, BeginFetchIs DEF Finished
  <2>2. Quiet(BeginFetch(d, int))
    BY <1>11, <2>1, BegunIs
  <2> QED BY <2>1, <2>2 DEF Begun
<1>12. ASSUME h.do = "fetch" PROVE Quiet(e)
  <2> DEFINE x == r.step.cycle # "Arrive"
  <2>1. e = BeginFetch([r EXCEPT !.nmi_ack = r.nmi_ack /\ x], int)
    BY <1>12 DEF After
  <2>2. r.nmi_ack => ~x
    <3>1. r.nmi_ack => cycle \in {"Nmi", "PushPc", "Arrive"}
      BY <1>6, <1>8 DEF Answering
    <3>2. cycle # "Nmi" /\ cycle # "PushPc"
      BY <1>3, <1>12 DEF Closing
    <3> QED BY <1>8, <3>1, <3>2
  <2>3. Finished([r EXCEPT !.nmi_ack = r.nmi_ack /\ x])
    <3>1. x \in BOOLEAN
      OBVIOUS
    <3> HIDE DEF x
    <3> QED BY <1>10, <2>2, <3>1
  <2> HIDE DEF x, e
  <2> QED BY <1>11, <2>1, <2>3
<1>13. ASSUME h.do # "fetch" PROVE ~r.nmi_ack
  <2>1. cycle \notin {"Nmi", "PushPc", "Arrive"}
    BY <1>3, <1>13 DEF Closing, Boundaries
  <2> QED BY <1>6, <1>8, <2>1 DEF Answering
<1>14. ASSUME h.do = "ei" PROVE Quiet(e)
  <2> DEFINE d == [r EXCEPT !.iff1 = FALSE, !.iff2 = FALSE]
             g == BeginFetch(d, int)
  <2>1. e = [g EXCEPT !.iff1 = TRUE, !.iff2 = TRUE]
    BY <1>14 DEF After
  <2>2. Finished(d)
    BY <1>10, <1>13, <1>14
  <2> HIDE DEF d, e
  <2>3. Begun(d, g) /\ g \in Cpus
    BY <1>11, <2>2
  <2> HIDE DEF g
  <2>4. Begun(d, e)
    BY <2>1, <2>3, FlopsAre
  <2> QED BY <2>2, <2>4, BegunIs
<1>15. ASSUME h.do = "retn" PROVE Quiet(e)
  <2> DEFINE g == BeginFetch(r, int)
  <2>1. e = [g EXCEPT !.iff1 = g.iff2]
    BY <1>15 DEF After
  <2>2. Finished(r)
    BY <1>10, <1>13, <1>15
  <2> HIDE DEF e
  <2>3. Begun(r, g) /\ g \in Cpus
    BY <1>11, <2>2
  <2> HIDE DEF g
  <2>4. Begun(r, e)
    BY <2>1, <2>3, FlopsAre
  <2> QED BY <2>2, <2>4, BegunIs
<1>16. ASSUME h.do \in {"di", "im", "halt"} PROVE Quiet(e)
  <2>1. CASE h.do = "di"
    <3>1. e = BeginFetch([r EXCEPT !.iff1 = FALSE, !.iff2 = FALSE], int)
      BY <2>1 DEF After
    <3> QED BY <1>10, <1>11, <1>13, <2>1, <3>1
  <2>2. CASE h.do = "im"
    <3> DEFINE m == CASE r.opcode = "im0" -> 0 [] r.opcode = "im1" -> 1 [] OTHER -> 2
    <3>1. e = BeginFetch([r EXCEPT !.im = m], int)
      BY <2>2 DEF After
    <3>2. m \in 0..2
      OBVIOUS
    <3> HIDE DEF m
    <3> QED BY <1>10, <1>11, <1>13, <2>2, <3>1, <3>2
  <2>3. CASE h.do = "halt"
    <3>1. e = BeginFetch([r EXCEPT !.halted = TRUE], int)
      BY <2>3 DEF After, OpHalt
    <3> QED BY <1>10, <1>11, <1>13, <2>3, <3>1
  <2> QED BY <1>16, <2>1, <2>2, <2>3
<1>17. h.do \in {"fetch", "ei", "di", "retn", "im", "halt"}
  BY DEF Boundaries
<1>18. Quiet(e)
  BY <1>12, <1>14, <1>15, <1>16, <1>17
<1> QED BY <1>18

-----------------------------------------------------------------------------
(* The bus, and the theorems.                                              *)

\* What BusKept says of the CPU after a half-clock, and of the half-clock.
Rests(e) ==
  /\ Free(e.pins)
  /\ e.step.cycle \in {"PlainFetch", "Acknowledge", "Nmi"} /\ e.step.half = 1 => e.pins = {"M1"}
  /\ e.step.cycle \in {"PlainFetch", "Acknowledge"} /\ e.step.half = 1 => ~e.nmi_pending
LetsGo(c, e) == e.addr # c.addr => e.pins \cap c.pins \cap Strobes = {}

\* The table has no two devices on the bus, and moves no address under a strobe.
LEMMA OntoRests ==
  ASSUME NEW c, Inv(c), NEW r, Ran(c, r, At(c.step)), NEW e, e.pins = Driven(Up(c), At(c.step)), e.addr = r.addr,
         e.step.cycle \notin Refreshing \/ e.step.half # 1
  PROVE  Rests(e) /\ LetsGo(c, e)
<1> DEFINE h == At(c.step)
           P == Where(c.step)
<1>1. c \in Cpus /\ Placed(c)
  BY DEF Inv
<1>2. Tidy(Kind(c.step.cycle), P, h) /\ Up(c) = P.lines
  BY <1>1, StepIs DEF OnTable, Placed
<1> HIDE DEF h, P
<1>3. Free(e.pins) /\ (h.addr # "same" => e.pins \cap Up(c) \cap Strobes = {})
  BY <1>2 DEF Tidy, h
<1>4. c.pins \cap Strobes = Up(c) \cap Strobes
  BY DEF Up, Strobes
<1>5. h.addr = "same" => e.addr = c.addr
  BY DEF Ran, h
<1>6. e.step.cycle \in {"PlainFetch", "Acknowledge", "Nmi"} => e.step.half # 1
  BY DEF Refreshing, Fetches
<1> QED BY <1>3, <1>4, <1>5, <1>6 DEF Rests, LetsGo

\* Nor does the beginning of a fetch: no strobe is up.
LEMMA QuietRests == ASSUME NEW c, NEW e, Quiet(e) PROVE Rests(e) /\ LetsGo(c, e)
  BY DEF Quiet, Rests, LetsGo, Free, Strobes

\* A wait state leaves the CPU where it was.
LEMMA WaitIs ==
  ASSUME NEW c, Inv(c), NEW nmi \in BOOLEAN, At(c.step).wait
  PROVE  LET e == Sampled(c, nmi) IN Inv(e) /\ Rests(e) /\ LetsGo(c, e)
<1> DEFINE e == Sampled(c, nmi)
<1>1. c \in Cpus /\ Placed(c) /\ AtHome(c) /\ Told(c) /\ Counted(c) /\ Comes(c.over)
  BY DEF Inv
<1>2. /\ e \in Cpus /\ e.pins = Up(c) /\ e.rfsh_release = FALSE /\ e.addr = c.addr
      /\ e.pc = c.pc /\ e.bytes = c.bytes /\ e.spent = c.spent /\ e.over = c.over
      /\ e.step = c.step /\ e.opcode = c.opcode /\ e.hlx = c.hlx /\ e.halted = c.halted
      /\ e.im = c.im /\ e.nmi_ack = c.nmi_ack /\ e.pushed = c.pushed
  <2>1. e \in Cpus /\ Keeps(e, c) /\ e.pins = Up(c) /\ e.rfsh_release = FALSE /\ e.addr = c.addr
        /\ e.pc = c.pc /\ e.bytes = c.bytes /\ e.spent = c.spent /\ e.over = c.over
    BY <1>1, SampledIs
  <2> HIDE DEF e
  <2> QED BY <2>1 DEF Keeps
<1> HIDE DEF e
<1>3. Placed(e)
  <2>1. Up(e) = e.pins
    BY <1>2 DEF Up
  <2> QED BY <1>1, <1>2, <2>1 DEF Placed
<1>4. AtHome(e) /\ Comes(e.over)
  BY <1>1, <1>2 DEF AtHome
<1>5. Told(e)
  BY <1>1, <1>2, Zenon DEF Told
<1>6. Counted(e)
  BY <1>1, <1>2, Zenon DEF Counted
<1>7. Inv(e)
  BY <1>2, <1>3, <1>4, <1>5, <1>6 DEF Inv
<1>8. Free(e.pins)
  <2>1. Tidy(Kind(c.step.cycle), Where(c.step), At(c.step)) /\ Up(c) = Where(c.step).lines
    BY <1>1, StepIs DEF OnTable, Placed
  <2> QED BY <1>2, <2>1 DEF Tidy
<1>9. ~(e.step.cycle \in {"PlainFetch", "Acknowledge", "Nmi"} /\ e.step.half = 1)
  <2> SUFFICES ASSUME c.step.cycle \in {"PlainFetch", "Acknowledge", "Nmi"}, c.step.half = 1
               PROVE  FALSE
    BY <1>2
  <2>1. At(c.step) = Cycle(c.step.cycle)[1]
    BY DEF At, Cycle
  <2> QED BY <2>1, FirstWaitsNot
<1>10. Inv(e) /\ Rests(e) /\ LetsGo(c, e)
  BY <1>2, <1>7, <1>8, <1>9 DEF Rests, LetsGo
<1> QED BY <1>10 DEF e

\* A half-clock that ends no cycle.
LEMMA OngoingIs ==
  ASSUME NEW c, Inv(c), NEW r, Ran(c, r, At(c.step)), At(c.step).do \in Ongoing,
         NEW byte, NEW int, NEW d, d.step = c.step,
         At(c.step).do \in {"latch", "suffix", "acknowledged"} => byte \in Fetched(d)
  PROVE  LET e == After(r, At(c.step).do, byte, int) IN Inv(e) /\ Rests(e) /\ LetsGo(c, e)
<1> DEFINE h == At(c.step)
           e == After(r, h.do, byte, int)
           cycle == c.step.cycle
<1>1. c \in Cpus /\ Placed(c)
  BY DEF Inv
<1>2. OnTable(c.step, h) /\ cycle \in Cycles
  BY <1>1, StepIs
<1>3. Does(Kind(cycle), h.do)
  BY <1>2 DEF OnTable, Tidy
<1>4. r \in Cpus /\ r.opcode = c.opcode /\ r.spent.what = c.spent.what /\ r.im = c.im
  BY DEF Ran, Keeps
<1>5. ASSUME NEW op, NEW w, Latched(c, h, op, w), Carried(r, e, h.do, op, w)
      PROVE  Inv(e) /\ Rests(e) /\ LetsGo(c, e)
  <2> HIDE DEF e
  <2>1. Inv(e) /\ e.pins = Driven(Up(c), h) /\ e.addr = r.addr /\ e.step.half # 1
    BY <1>5, KeptOn
  <2>2. Rests(e) /\ LetsGo(c, e)
    BY <2>1, OntoRests
  <2> QED BY <2>1, <2>2
<1>6. byte \in Fetched(d) =>
        /\ byte \in AllOps
        /\ cycle \in Fetches => Latches(cycle, byte) /\ Latches(cycle, "halt")
        /\ cycle = "DdCb" => Latches(cycle, byte)
        /\ cycle = "Acknowledge" => byte \in Opcodes
  BY FetchedAre
<1>7. ASSUME h.do \in {"next", "index", "refreshed", "accept", "push_high", "jump"} PROVE Inv(e) /\ Rests(e) /\ LetsGo(c, e)
  <2>1. Latched(c, h, c.opcode, c.spent.what)
    BY <1>7 DEF Latched, Latching
  <2>2. Carried(r, e, h.do, r.opcode, r.spent.what)
    BY <1>4, <1>7, OnwardsAre
  <2> HIDE DEF e
  <2> QED BY <1>4, <1>5, <2>1, <2>2
<1>8. ASSUME h.do = "latch" PROVE Inv(e) /\ Rests(e) /\ LetsGo(c, e)
  <2>1. cycle \in Fetches
    BY <1>2, <1>3, <1>8 DEF Does, Kind, Interrupting
  <2>2. byte \in AllOps /\ Latches(cycle, byte) /\ Latches(cycle, "halt")
    BY <1>6, <1>8, <2>1
  <2>3. PICK x \in {byte, "halt"} : Carried(r, After(r, "latch", byte, int), "latch", x, Append(r.spent.what, x))
    BY <1>4, <2>2, OnwardsAre
  <2>4. Latched(c, h, x, Append(c.spent.what, x))
    BY <1>8, <2>2 DEF Latched
  <2>5. Carried(r, e, h.do, x, Append(c.spent.what, x))
    BY <1>4, <1>8, <2>3
  <2> HIDE DEF e
  <2> QED BY <1>5, <2>4, <2>5
<1>9. ASSUME h.do = "suffix" PROVE Inv(e) /\ Rests(e) /\ LetsGo(c, e)
  <2>1. cycle = "DdCb"
    BY <1>2, <1>3, <1>9 DEF Does, Kind, Fetches, Interrupting
  <2>2. byte \in AllOps /\ Latches(cycle, byte)
    BY <1>6, <1>9, <2>1
  <2>3. Carried(r, After(r, "suffix", byte, int), "suffix", byte, Append(r.spent.what, byte))
    BY <1>4, <2>2, OnwardsAre
  <2>4. Latched(c, h, byte, Append(c.spent.what, byte))
    BY <1>9, <2>2 DEF Latched
  <2>5. Carried(r, e, h.do, byte, Append(c.spent.what, byte))
    BY <1>4, <1>9, <2>3
  <2> HIDE DEF e
  <2> QED BY <1>5, <2>4, <2>5
<1>10. ASSUME h.do = "acknowledged" PROVE Inv(e) /\ Rests(e) /\ LetsGo(c, e)
  <2>1. cycle = "Acknowledge"
    BY <1>2, <1>3, <1>10 DEF Does, Kind, Fetches, Interrupting
  <2>2. byte \in Opcodes /\ byte \in AllOps \ DdCbOpcodes
    <3>1. byte \in Opcodes
      BY <1>6, <1>10, <2>1
    <3> QED BY <3>1 DEF AllOps, Opcodes, PrefixBytes, DdCbOpcodes
  <2>3. ASSUME c.im = 0 PROVE Inv(e) /\ Rests(e) /\ LetsGo(c, e)
    <3>1. Onto(c, After(r, "acknowledged", byte, int), r)
      BY <1>10, <2>2, <2>3, InstructionIs
    <3>2. Onto(c, e, r)
      BY <1>10, <3>1
    <3> HIDE DEF e
    <3>3. Inv(e) /\ e.pins = Driven(Up(c), h) /\ e.addr = r.addr /\ e.step.cycle \notin Refreshing
      BY <3>2 DEF Onto
    <3> QED BY <3>3, OntoRests
  <2>4. ASSUME c.im # 0 PROVE Inv(e) /\ Rests(e) /\ LetsGo(c, e)
    <3> DEFINE w == <<"int", IF c.im = 1 THEN "im1" ELSE "im2">>
    <3>1. Carried(r, After(r, "acknowledged", byte, int), "acknowledged", r.opcode,
                  <<"int", IF r.im = 1 THEN "im1" ELSE "im2">>)
      BY <1>4, <2>2, <2>4, AcknowledgedIs
    <3>2. Carried(r, e, h.do, c.opcode, w)
      BY <1>4, <1>10, <3>1
    <3>3. Latched(c, h, c.opcode, w)
      BY <1>10, <2>4 DEF Latched
    <3> HIDE DEF e, w
    <3> QED BY <1>5, <3>2, <3>3
  <2> QED BY <2>3, <2>4
<1>11. h.do \in {"next", "refreshed", "latch", "index", "suffix", "accept", "acknowledged", "push_high", "jump"}
  BY DEF Ongoing
<1>12. Inv(e) /\ Rests(e) /\ LetsGo(c, e)
  <2> HIDE DEF e, h
  <2> QED BY <1>7, <1>8, <1>9, <1>10, <1>11
<1> QED BY <1>12 DEF e, h

\* Whatever a half-clock does, the CPU is where it should be after it.
LEMMA RunsOn ==
  ASSUME NEW c, Inv(c), NEW r, Ran(c, r, At(c.step)), NEW byte, NEW int \in BOOLEAN, NEW d, d.step = c.step,
         At(c.step).do \in {"latch", "suffix", "acknowledged"} => byte \in Fetched(d)
  PROVE  LET e == After(r, At(c.step).do, byte, int) IN Inv(e) /\ Rests(e) /\ LetsGo(c, e)
<1> DEFINE h == At(c.step)
           e == After(r, h.do, byte, int)
<1>1. c \in Cpus /\ Placed(c)
  BY DEF Inv
<1>2. h.do \in Dos
  <2>1. h \in Halves
    BY <1>1, StepIs DEF OnTable
  <2> HIDE DEF h
  <2> QED BY <2>1 DEF Halves
<1>3. CASE h.do \in Ongoing
  BY <1>3, OngoingIs
<1>4. CASE h.do \in {"plain", "ed", "cb", "ddfd", "run", "store", "act", "push", "vector"}
  <2>1. Onto(c, e, r)
    BY <1>4, MovesIs
  <2> HIDE DEF e
  <2>2. Inv(e) /\ e.pins = Driven(Up(c), h) /\ e.addr = r.addr /\ e.step.cycle \notin Refreshing
    BY <2>1 DEF Onto
  <2> QED BY <2>2, OntoRests DEF e
<1>5. CASE h.do = "prefix"
  <2>1. Quiet(After(r, "prefix", byte, int))
    BY <1>5, PrefixIs
  <2>2. Quiet(e)
    BY <1>5, <2>1
  <2> HIDE DEF e
  <2>3. Inv(e) /\ Rests(e) /\ LetsGo(c, e)
    BY <2>2, QuietRests DEF Quiet
  <2> QED BY <2>3 DEF e
<1>6. CASE h.do \in Boundaries
  <2>1. Quiet(e)
    BY <1>6, BoundaryIs
  <2> HIDE DEF e
  <2>2. Inv(e) /\ Rests(e) /\ LetsGo(c, e)
    BY <2>1, QuietRests DEF Quiet
  <2> QED BY <2>2 DEF e
<1> HIDE DEF h
<1> QED BY <1>2, <1>3, <1>4, <1>5, <1>6 DEF Dos, Ending, Boundaries, h

\* The invariant at power-on.
LEMMA PowerOnIs == Inv(PowerOn)
<1> DEFINE e == PowerOn
<1>1. /\ e.step = [cycle |-> "op", half |-> 1] /\ e.step.cycle = "op" /\ e.step.half = 1 /\ e.pins = {} /\ e.pc = 0 /\ e.bytes = 0
      /\ e.pushed = 0 /\ e.spent = Nothing /\ e.over = Nothing
  BY DEF PowerOn
<1>2. e.rfsh_release = FALSE /\ e.nmi_ack = FALSE /\ e.hlx = FALSE
  BY DEF PowerOn
<1>3. "op" \in Cycles /\ "op" \in AllOps /\ "op" \notin Refreshing /\ "op" \notin Interrupting
  BY DEF Cycles, Going, AllOps, Opcodes, Refreshing, Fetches, Interrupting
<1>4. e \in Cpus
  <2>1. Nothing \in Spents /\ {} \in SUBSET Lines
    BY NothingIs
  <2> QED BY <1>3, <2>1 DEF PowerOn, Cpus
<1> HIDE DEF e
<1>5. 1 \in 1..Len(Cycle("op")) /\ Where(e.step) = Begins("op") /\ Begins("op").lines = {} /\ Begins("op").b = 0
  BY <1>1, <1>3, Starts, TracksAre
<1>6. Placed(e)
  BY <1>1, <1>5 DEF Placed, Up
<1>7. AtHome(e)
  BY <1>1, <1>3 DEF AtHome
<1>8. Told(e)
  <2>1. e.spent.what = <<>> /\ Len(e.spent.what) = 0
    BY <1>1, NothingIs
  <2>2. Fetching("op", 0, <<>>) /\ Working("op", <<>>)
    BY DEF Fetching, Working
  <2>3. Answering("op", 0, <<>>, e.im, e.nmi_ack) /\ Running("op", <<>>, e.opcode, e.hlx)
    BY <1>2 DEF Answering, Running
  <2> QED BY <1>1, <1>5, <2>1, <2>2, <2>3 DEF Told
<1>9. Counted(e) /\ Comes(e.over)
  BY <1>1, NothingIs DEF Counted, Comes
<1>10. Inv(e)
  BY <1>4, <1>6, <1>7, <1>8, <1>9 DEF Inv
<1> QED BY <1>10 DEF e

\* The fetch that a debugger's new registers begin.
LEMMA SetIs ==
  ASSUME NEW c \in Cpus
  PROVE  LET e == BeginFetch([PowerOn EXCEPT !.iff1 = c.iff1, !.iff2 = c.iff2, !.im = c.im, !.nmi_level = FALSE], FALSE)
         IN Inv(e) /\ Rests(e) /\ LetsGo(c, e)
<1> DEFINE d == [PowerOn EXCEPT !.iff1 = c.iff1, !.iff2 = c.iff2, !.im = c.im, !.nmi_level = FALSE]
           e == BeginFetch(d, FALSE)
<1>1. PowerOn \in Cpus /\ c.iff1 \in BOOLEAN /\ c.iff2 \in BOOLEAN /\ c.im \in 0..2
  BY PowerOnIs DEF Inv, Cpus
<1>2. d \in Cpus
  <2> DEFINE p == PowerOn
  <2>1. p \in Cpus
    BY <1>1
  <2> HIDE DEF p
  <2>2. [p EXCEPT !.iff1 = c.iff1, !.iff2 = c.iff2, !.im = c.im, !.nmi_level = FALSE] \in Cpus
    BY <1>1, <2>1 DEF Cpus
  <2> QED BY <2>2 DEF p
<1>3. d.pins = {} /\ d.pc = 0 /\ d.bytes = 0 /\ d.pushed = 0 /\ d.spent = Nothing
  BY DEF PowerOn
<1>4. d.rfsh_release = FALSE /\ d.nmi_ack = FALSE
  BY DEF PowerOn
<1> HIDE DEF d
<1>5. Comes([what |-> d.spent.what, halves |-> d.spent.halves - 1, refreshed |-> d.spent.refreshed])
  BY <1>3, NothingIs DEF Comes
<1>6. Finished(d)
  BY <1>2, <1>3, <1>4, <1>5 DEF Finished
<1>7. Begun(d, e)
  BY <1>2, BeginFetchIs
<1> HIDE DEF e
<1>8. Quiet(e)
  BY <1>6, <1>7, BegunIs
<1>9. Inv(e) /\ Rests(e) /\ LetsGo(c, e)
  BY <1>8, QuietRests DEF Quiet
<1> QED BY <1>9 DEF e, d

\* One half-clock.
LEMMA ClockIs ==
  ASSUME Inv(cpu), NEW nmi \in BOOLEAN, NEW int \in BOOLEAN, NEW wait \in BOOLEAN, Clock(nmi, int, wait)
  PROVE  Inv(cpu') /\ Rests(cpu') /\ LetsGo(cpu, cpu')
<1> DEFINE c == Sampled(cpu, nmi)
           h == At(c.step)
           r == Drives([c EXCEPT !.spent.halves = @ + 1, !.over = Nothing], h)
<1>1. cpu \in Cpus /\ Placed(cpu)
  BY DEF Inv
<1>2. c.step = cpu.step /\ h = At(cpu.step)
  <2>1. c.step = cpu.step
    BY <1>1, SampledIs DEF Keeps
  <2> QED BY <2>1
<1>3. Ran(cpu, r, h)
  <2>1. At(cpu.step) \in Halves
    BY <1>1, StepIs DEF OnTable
  <2>2. h \in Halves
    BY <1>2, <2>1
  <2> HIDE DEF h
  <2> QED BY <1>1, <2>2, RunIs
<1>4. \/ h.wait /\ cpu' = c
      \/ \E byte \in IF h.do \in {"latch", "suffix", "acknowledged"} THEN Fetched(c) ELSE {"op"} :
           cpu' = After(r, h.do, byte, int)
  BY DEF Clock
<1>5. ASSUME h.wait, cpu' = c PROVE Inv(cpu') /\ Rests(cpu') /\ LetsGo(cpu, cpu')
  <2>1. At(cpu.step).wait
    BY <1>2, <1>5
  <2>2. Inv(c) /\ Rests(c) /\ LetsGo(cpu, c)
    BY <2>1, WaitIs
  <2> HIDE DEF c
  <2> QED BY <1>5, <2>2
<1>6. ASSUME NEW byte \in IF h.do \in {"latch", "suffix", "acknowledged"} THEN Fetched(c) ELSE {"op"},
             cpu' = After(r, h.do, byte, int)
      PROVE  Inv(cpu') /\ Rests(cpu') /\ LetsGo(cpu, cpu')
  <2> HIDE DEF c, h, r
  <2>1. Ran(cpu, r, At(cpu.step))
    BY <1>2, <1>3
  <2>2. At(cpu.step).do \in {"latch", "suffix", "acknowledged"} => byte \in Fetched(c)
    BY <1>2, <1>6
  <2>3. LET e == After(r, At(cpu.step).do, byte, int) IN Inv(e) /\ Rests(e) /\ LetsGo(cpu, e)
    BY <1>2, <2>1, <2>2, RunsOn
  <2>4. cpu' = After(r, At(cpu.step).do, byte, int)
    BY <1>2, <1>6
  <2> QED BY <2>3, <2>4
<1> HIDE DEF c, h, r
<1> QED BY <1>4, <1>5, <1>6

\* Whatever comes next, the CPU is where it should be.
LEMMA Z80Step ==
  ASSUME Inv(cpu), Z80Next
  PROVE  Inv(cpu') /\ Rests(cpu') /\ LetsGo(cpu, cpu')
<1>1. CASE \E nmi, int, wait \in BOOLEAN : Clock(nmi, int, wait)
  BY <1>1, ClockIs
<1>2. CASE SetRegisters
  <2> DEFINE e == BeginFetch([PowerOn EXCEPT !.iff1 = cpu.iff1, !.iff2 = cpu.iff2, !.im = cpu.im, !.nmi_level = FALSE], FALSE)
  <2>1. Inv(e) /\ Rests(e) /\ LetsGo(cpu, e)
    <3>1. cpu \in Cpus
      BY DEF Inv
    <3> QED BY <3>1, SetIs
  <2>2. cpu' = e
    BY <1>2 DEF SetRegisters
  <2> HIDE DEF e
  <2> QED BY <2>1, <2>2
<1> QED BY <1>1, <1>2 DEF Z80Next

\* Between any two half-clocks the CPU is where its table says, with the lines
\* and the count of half-clocks the table gives, and PC past the bytes used.
THEOREM Z80Placed == Z80Spec => []Inv(cpu)
<1>1. Z80Init => Inv(cpu)
  BY PowerOnIs DEF Z80Init
<1>2. Inv(cpu) /\ [Z80Next]_z80Vars => Inv(cpu)'
  <2> SUFFICES ASSUME Inv(cpu), [Z80Next]_z80Vars PROVE Inv(cpu')
    OBVIOUS
  <2>1. CASE Z80Next
    BY <2>1, Z80Step
  <2>2. CASE UNCHANGED z80Vars
    BY <2>2 DEF z80Vars
  <2> QED BY <2>1, <2>2
<1> QED BY <1>1, <1>2, PTL DEF Z80Spec

\* An interrupt pushes the byte the next instruction begins with, and registers()
\* reports it between two instructions, however many prefixes came before.
THEOREM Z80GoesBackThere == Z80Spec => []GoesBackThere
<1>1. Inv(cpu) => GoesBackThere
  BY DEF Inv, AtHome, GoesBackThere, IsInstructionBoundary
<1> QED BY <1>1, Z80Placed, PTL

\* Every instruction takes the T-states and refreshes published for it, whatever
\* prefixes it has and whether a program or an acknowledge gave it.
THEOREM Z80TakesItsTime == Z80Spec => []TakesItsTime
<1>1. Inv(cpu) => TakesItsTime
  BY DEF Inv, Comes, TakesItsTime
<1> QED BY <1>1, Z80Placed, PTL

\* Two devices never have the bus at once, and the address moves only with
\* every strobe let go.
THEOREM Z80BusKept == Z80Spec => BusKept
<1> DEFINE Kept == BusFree' /\ (cpu'.addr # cpu.addr => cpu'.pins \cap cpu.pins \cap Strobes = {})
<1>1. Inv(cpu) /\ [Z80Next]_z80Vars => [Kept]_z80Vars
  <2> SUFFICES ASSUME Inv(cpu), Z80Next PROVE Kept
    OBVIOUS
  <2>1. Rests(cpu') /\ LetsGo(cpu, cpu')
    BY Z80Step
  <2> QED BY <2>1 DEF Rests, LetsGo, Free, BusFree
<1> QED BY <1>1, Z80Placed, PTL DEF Z80Spec, BusKept

=============================================================================
