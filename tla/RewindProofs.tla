---------------------------- MODULE RewindProofs ----------------------------
(***************************************************************************)
(* Proofs about the history.                                               *)
(*                                                                         *)
(* A replay follows the one path a machine can take through a log, turn by *)
(* turn: Leads(b, x, s) says that it leads from x to s, reading the log b. *)
(* The paths are induced over as the least sets closed under a turn.  Once *)
(* a path leaves a place where nothing more is due, its clock has moved    *)
(* on, so the replay that is stopped by a time stops at one place only     *)
(* (RunStops).                                                             *)
(*                                                                         *)
(* The invariant: every checkpoint leads to each later one and to the end  *)
(* of the timeline, and the oldest leads there past where the machine is   *)
(* (Kept).  The operations change the log only where no path still to be   *)
(* taken reads it (LeadsIn).                                               *)
(***************************************************************************)
EXTENDS RewindInputs, SequenceTheorems, WellFoundedInduction, TLAPS

Deeds == Inputs \cup {"i", "c"}
Worlds == [from : Nat, hc : Nat, did : Seq(Deeds)]
Places == [m : Worlds, cursor : Nat]
Entries == [hc : Nat, input : Inputs \cup {"raw"}, clocks : Nat]
IsBook(b) == DOMAIN b \subseteq Nat /\ \A i \in DOMAIN b : b[i] \in Entries

\* How far along a place is: a turn takes a half-clock or something of the log.
Far(s) == s.m.hc + s.cursor

-----------------------------------------------------------------------------
(* Numbers.                                                                *)

\* What fails of a number fails of a least one.
LEMMA Least ==
  ASSUME NEW T, T \subseteq Nat, T # {}
  PROVE  \E n \in T : \A m \in T : n <= m
<1> DEFINE R == OpToRel(<, Nat)
<1>1. IsWellFoundedOn(R, Nat)
  BY NatLessThanWellFounded
<1>2. PICK n \in T : \A m \in T : ~(<<m, n>> \in R)
  BY <1>1, WFMin
<1>3. \A m \in T : ~(m < n)
  BY <1>2 DEF OpToRel
<1> QED BY <1>3

\* Induction, up to a bound.
LEMMA Inductive ==
  ASSUME NEW N \in Nat, NEW T, 0 \in T, \A n \in 0..(N - 1) : n \in T => n + 1 \in T
  PROVE  \A n \in 0..N : n \in T
<1> DEFINE U == {n \in 0..N : n \notin T}
<1>1. CASE U = {}
  BY <1>1
<1>2. CASE U # {}
  <2>1. PICK n \in U : \A m \in U : n <= m
    <3>1. U \subseteq Nat
      OBVIOUS
    <3> HIDE DEF U
    <3> QED BY <1>2, <3>1, Least
  <2>2. n - 1 \in 0..(N - 1) /\ n - 1 \in 0..N /\ ~(n <= n - 1) /\ (n - 1) + 1 = n
    BY <2>1
  <2>3. n - 1 \in T
    BY <2>1, <2>2
  <2> QED BY <2>1, <2>2, <2>3
<1> QED BY <1>1, <1>2

\* A set of numbers with a bound has a largest.
LEMMA LargestIn ==
  ASSUME NEW N \in Nat, NEW T, T \subseteq 0..N, T # {}
  PROVE  Largest(T) \in T /\ \A j \in T : j <= Largest(T)
<1> DEFINE U == {N - k : k \in T}
<1>1. U \subseteq Nat /\ U # {}
  OBVIOUS
<1>2. PICK n \in U : \A m \in U : n <= m
  <2> HIDE DEF U
  <2> QED BY <1>1, Least
<1>3. PICK k \in T : n = N - k
  BY <1>2
<1>4. \A j \in T : j <= k
  <2> TAKE j \in T
  <2>1. N - j \in U
    OBVIOUS
  <2>2. N - k <= N - j
    <3> HIDE DEF U
    <3> QED BY <1>2, <1>3, <2>1
  <2> QED BY <2>2
<1>5. \E l \in T : \A j \in T : j <= l
  BY <1>3, <1>4
<1> QED BY <1>5 DEF Largest

\* What is done over and over.
Iterate(g, S, F, x, n) == g \in [0..n -> S] /\ g[0] = x /\ \A i \in 1..n : g[i] = F[g[i - 1]]

LEMMA Iterates ==
  ASSUME NEW S, NEW F \in [S -> S], NEW x \in S, NEW N \in Nat
  PROVE  \E g : Iterate(g, S, F, x, N)
<1> DEFINE T == {n \in Nat : \E g : Iterate(g, S, F, x, n)}
<1>1. 0 \in T
  <2>1. Iterate([i \in 0..0 |-> x], S, F, x, 0)
    BY DEF Iterate
  <2> QED BY <2>1
<1>2. ASSUME NEW n \in 0..(N - 1), n \in T PROVE n + 1 \in T
  <2>1. PICK g : Iterate(g, S, F, x, n)
    BY <1>2
  <2> DEFINE h == [i \in 0..(n + 1) |-> IF i = n + 1 THEN F[g[n]] ELSE g[i]]
  <2>2. g \in [0..n -> S] /\ g[0] = x /\ \A i \in 1..n : g[i] = F[g[i - 1]]
    BY <2>1 DEF Iterate
  <2>3. h \in [0..(n + 1) -> S] /\ h[0] = x
    BY <2>2
  <2>4. ASSUME NEW i \in 1..(n + 1) PROVE h[i] = F[h[i - 1]]
    <3>1. CASE i = n + 1
      <4>1. h[i] = F[g[n]] /\ i - 1 = n /\ h[n] = g[n]
        BY <3>1
      <4> HIDE DEF h
      <4> QED BY <4>1
    <3>2. CASE i # n + 1
      <4>1. i \in 1..n /\ h[i] = g[i] /\ h[i - 1] = g[i - 1]
        BY <3>2
      <4> HIDE DEF h
      <4> QED BY <2>2, <4>1
    <3> QED BY <3>1, <3>2
  <2>5. Iterate(h, S, F, x, n + 1)
    <3> HIDE DEF h
    <3> QED BY <2>3, <2>4 DEF Iterate
  <2> QED BY <2>5
<1>3. N \in T
  <2> HIDE DEF T
  <2>1. \A n \in 0..N : n \in T
    BY <1>1, <1>2, Inductive
  <2> QED BY <2>1
<1> QED BY <1>3

-----------------------------------------------------------------------------
(* Turns.                                                                  *)

\* The next multiple.
LEMMA Multiple ==
  ASSUME NEW a \in Nat, NEW c \in Nat, c > 0
  PROVE  c * (a \div c) + c \in Nat /\ c * (a \div c) + c > a
<1>1. a \div c \in Nat
  OBVIOUS
<1>2. c * (a \div c) \in Nat
  BY <1>1
<1>3. c * (a \div c) + c > a
  OBVIOUS
<1> QED BY <1>2, <1>3

LEMMA FarIs ==
  ASSUME NEW s \in Places
  PROVE  Far(s) \in Nat
<1>1. s.m.hc \in Nat /\ s.cursor \in Nat
  BY DEF Places, Worlds
<1> QED BY <1>1 DEF Far

\* Clocking on.
LEMMA Clocks ==
  ASSUME NEW m \in Worlds, NEW n \in Nat
  PROVE  /\ Clock(m, n) \in Worlds
         /\ Clock(m, n).from = m.from /\ Clock(m, n).hc = m.hc + n
         /\ Clock(m, n).did = m.did \o [k \in 1..n |-> "c"]
<1>1. [k \in 1..n |-> "c"] \in Seq(Deeds)
  BY IsASeq DEF Deeds
<1>2. m.did \o [k \in 1..n |-> "c"] \in Seq(Deeds)
  BY <1>1, ConcatProperties DEF Worlds
<1>3. m.hc + n \in Nat
  BY DEF Worlds
<1> DEFINE d == m.did \o [k \in 1..n |-> "c"]
           h == m.hc + n
<1>4. Clock(m, n) = [m EXCEPT !.hc = h, !.did = d] /\ d \in Seq(Deeds) /\ h \in Nat
  BY <1>2, <1>3 DEF Clock
<1> DEFINE D == Seq(Deeds)
<1>5. m \in [from : Nat, hc : Nat, did : D] /\ d \in D
  BY <1>4 DEF Worlds
<1> HIDE DEF d, h, D
<1>6. Clock(m, n) \in [from : Nat, hc : Nat, did : D] /\ Clock(m, n).from = m.from
      /\ Clock(m, n).hc = h /\ Clock(m, n).did = d
  BY <1>4, <1>5
<1> QED BY <1>6 DEF d, h, D, Worlds

\* The next instruction boundary is ahead.
LEMMA Steps ==
  ASSUME NEW m \in Worlds
  PROVE  /\ StepInstruction(m) \in Worlds
         /\ StepInstruction(m).from = m.from /\ StepInstruction(m).hc > m.hc
         /\ StepInstruction(m).did = Append(m.did, "i")
<1>1. InstrHc \in Nat /\ InstrHc > 0 /\ m.hc \in Nat
  BY RewindAssumption DEF Worlds
<1>4. Append(m.did, "i") \in Seq(Deeds)
  BY AppendProperties DEF Worlds, Deeds
<1> DEFINE h == InstrHc * (m.hc \div InstrHc) + InstrHc
           d == Append(m.did, "i")
<1>5. h \in Nat /\ h > m.hc
  BY <1>1, Multiple
<1>6. StepInstruction(m) = [m EXCEPT !.hc = h, !.did = d] /\ d \in Seq(Deeds)
  BY <1>4 DEF StepInstruction
<1> DEFINE D == Seq(Deeds)
<1>7. m \in [from : Nat, hc : Nat, did : D] /\ d \in D
  BY <1>6 DEF Worlds
<1> HIDE DEF d, h, D
<1>8. StepInstruction(m) \in [from : Nat, hc : Nat, did : D] /\ StepInstruction(m).from = m.from
      /\ StepInstruction(m).hc = h /\ StepInstruction(m).did = d
  BY <1>5, <1>6, <1>7
<1> QED BY <1>5, <1>8 DEF d, D, Worlds

\* What an input does takes no time.
LEMMA Applies ==
  ASSUME NEW m \in Worlds, NEW input \in Inputs
  PROVE  /\ Apply(m, input) \in Worlds
         /\ Apply(m, input).from = m.from /\ Apply(m, input).hc = m.hc
         /\ Apply(m, input).did = Append(m.did, input)
<1>1. Append(m.did, input) \in Seq(Deeds)
  BY AppendProperties DEF Worlds, Deeds
<1> QED BY <1>1 DEF Worlds, Apply

\* What a turn leads to is a place further on.
LEMMA Turns1 ==
  ASSUME NEW b, IsBook(b), NEW s \in Places
  PROVE  /\ Turn(b, s) \in Places
         /\ Turn(b, s).m.from = s.m.from
         /\ Turn(b, s).m.hc >= s.m.hc /\ Turn(b, s).cursor >= s.cursor
         /\ Far(Turn(b, s)) > Far(s)
         /\ Settled(b, s) => /\ Turn(b, s).m.hc > s.m.hc
                             /\ \E x \in {"i", "c"} : Turn(b, s).m.did = Append(s.m.did, x)
         /\ ~Due(b, s) => Turn(b, s) = Stepped(s)
         /\ \/ Turn(b, s).m.did = s.m.did
            \/ \E x \in Deeds : Turn(b, s).m.did = Append(s.m.did, x)
<1>0. s.m \in Worlds /\ s.cursor \in Nat /\ s.m.hc \in Nat /\ s.m.did \in Seq(Deeds)
  BY DEF Places, Worlds
<1>1. CASE InSpan(b, s)
  <2>1. Turn(b, s) = Clocked(b, s)
    BY <1>1 DEF Turn
  <2>2. /\ Clock(s.m, 1) \in Worlds
        /\ Clock(s.m, 1).from = s.m.from /\ Clock(s.m, 1).hc = s.m.hc + 1
        /\ Clock(s.m, 1).did = s.m.did \o [k \in 1..1 |-> "c"]
    BY <1>0, Clocks
  <2>3. s.m.did \o [k \in 1..1 |-> "c"] = Append(s.m.did, "c")
    <3>1. [k \in 1..1 |-> "c"] = <<"c">>
      OBVIOUS
    <3> QED BY <1>0, <3>1 DEF Deeds
  <2>4. /\ Clocked(b, s).m = Clock(s.m, 1) /\ Clocked(b, s).cursor \in {s.cursor, s.cursor + 1}
        /\ Clocked(b, s) \in Places
    BY <1>0, <2>2 DEF Clocked, Places
  <2>5. Due(b, s) /\ "c" \in Deeds
    BY <1>1 DEF InSpan, Deeds
  <2>6. /\ Turn(b, s).m.from = s.m.from /\ Turn(b, s).m.hc = s.m.hc + 1
        /\ Turn(b, s).m.did = Append(s.m.did, "c")
        /\ Turn(b, s).cursor \in {s.cursor, s.cursor + 1} /\ Turn(b, s) \in Places
    BY <2>1, <2>2, <2>3, <2>4
  <2>7. Turn(b, s).cursor = s.cursor \/ Turn(b, s).cursor = s.cursor + 1
    BY <2>6
  <2>8. Far(Turn(b, s)) > Far(s) /\ Turn(b, s).m.hc > s.m.hc /\ Turn(b, s).cursor >= s.cursor
    <3> DEFINE t == Turn(b, s)
    <3>1. t.m.hc = s.m.hc + 1 /\ (t.cursor = s.cursor \/ t.cursor = s.cursor + 1)
      BY <2>6, <2>7
    <3> HIDE DEF t
    <3>2. t.m.hc > s.m.hc /\ t.cursor >= s.cursor /\ t.m.hc + t.cursor > s.m.hc + s.cursor
      BY <1>0, <3>1
    <3> QED BY <3>2 DEF Far, t
  <2> QED BY <2>5, <2>6, <2>8, <1>0
<1>2. CASE Due(b, s) /\ ~InSpan(b, s)
  <2>1. Turn(b, s) = Applied(b, s)
    BY <1>2 DEF Turn
  <2>2. b[s.cursor].input \in Inputs \cup {"raw"}
    BY <1>2 DEF Due, IsBook, Entries
  <2>3. CASE b[s.cursor].input = "raw"
    <3>1. Applied(b, s).m = s.m /\ Applied(b, s).cursor = s.cursor + 1 /\ Applied(b, s) \in Places
      BY <1>0, <2>3 DEF Applied, Places
    <3> QED BY <1>0, <1>2, <2>1, <3>1 DEF Far, Settled
  <2>4. CASE b[s.cursor].input # "raw"
    <3>1. /\ Applied(b, s).m = Apply(s.m, b[s.cursor].input) /\ Applied(b, s).cursor = s.cursor + 1
          /\ b[s.cursor].input \in Inputs /\ b[s.cursor].input \in Deeds
      BY <2>2, <2>4 DEF Applied, Deeds
    <3>2. Applied(b, s) \in Places
      BY <1>0, <3>1, Applies DEF Applied, Places
    <3>3. /\ Applied(b, s).m.from = s.m.from /\ Applied(b, s).m.hc = s.m.hc
          /\ Applied(b, s).m.did = Append(s.m.did, b[s.cursor].input)
      BY <1>0, <3>1, Applies
    <3> QED BY <1>0, <1>2, <2>1, <3>1, <3>2, <3>3 DEF Far, Settled
  <2> QED BY <2>3, <2>4
<1>3. CASE ~Due(b, s)
  <2>1. Turn(b, s) = Stepped(s)
    BY <1>3 DEF Turn, InSpan
  <2>2. Stepped(s).m = StepInstruction(s.m) /\ Stepped(s).cursor = s.cursor /\ "i" \in Deeds
    BY DEF Stepped, Deeds
  <2>3. Stepped(s) \in Places
    BY <1>0, Steps DEF Stepped, Places
  <2>4. StepInstruction(s.m).hc \in Nat
    BY <1>0, Steps DEF Worlds
  <2> QED BY <1>0, <2>1, <2>2, <2>3, <2>4, Steps DEF Far
<1> QED BY <1>1, <1>2, <1>3

-----------------------------------------------------------------------------
(* Paths.                                                                  *)

Closed(b, Q) == Q \subseteq Places /\ \A q \in Q : Turn(b, q) \in Q

Leads(b, x, s) == \A Q : Closed(b, Q) /\ x \in Q => s \in Q

\* A path stays among the places, and can be taken in pieces.
LEMMA Path ==
  ASSUME NEW b, IsBook(b), NEW x \in Places
  PROVE  /\ Leads(b, x, x) /\ Leads(b, x, Turn(b, x))
         /\ \A s : Leads(b, x, s) => s \in Places
         /\ \A s, r : Leads(b, x, s) /\ Leads(b, s, r) => Leads(b, x, r)
         /\ \A s : Leads(b, x, s) => Leads(b, x, Turn(b, s))
<1>1. Closed(b, Places)
  BY Turns1 DEF Closed
<1>2. \A s : Leads(b, x, s) => s \in Places
  BY <1>1 DEF Leads
<1>3. \A s, r : Leads(b, x, s) /\ Leads(b, s, r) => Leads(b, x, r)
  BY DEF Leads
<1>4. \A s : Leads(b, x, s) => Leads(b, x, Turn(b, s))
  BY DEF Leads, Closed
<1>5. Leads(b, x, x)
  BY DEF Leads
<1> QED BY <1>2, <1>3, <1>4, <1>5

\* A path goes on.
LEMMA Onward ==
  ASSUME NEW b, IsBook(b), NEW x \in Places, NEW s, Leads(b, x, s)
  PROVE  /\ s \in Places
         /\ s.m.from = x.m.from
         /\ s.m.hc >= x.m.hc /\ s.cursor >= x.cursor
         /\ s = x \/ Far(s) > Far(x)
         /\ s = x \/ Leads(b, Turn(b, x), s)
         /\ s # x /\ Settled(b, x) => s.m.hc > x.m.hc
<1> DEFINE Beyond(y, q) == q.m.from = y.m.from /\ q.m.hc >= y.m.hc /\ q.cursor >= y.cursor
<1>1. ASSUME NEW y \in Places, NEW q \in Places
      PROVE  y.m.hc \in Nat /\ y.cursor \in Nat /\ (Beyond(y, q) => Beyond(y, Turn(b, q)))
  <2>1. /\ Turn(b, q) \in Places
        /\ Turn(b, q).m.from = q.m.from
        /\ Turn(b, q).m.hc >= q.m.hc /\ Turn(b, q).cursor >= q.cursor
    BY Turns1
  <2>2. /\ y.m.hc \in Nat /\ y.cursor \in Nat /\ q.m.hc \in Nat /\ q.cursor \in Nat
        /\ Turn(b, q).m.hc \in Nat /\ Turn(b, q).cursor \in Nat
    BY <2>1 DEF Places, Worlds
  <2> DEFINE t == Turn(b, q)
  <2> HIDE DEF t
  <2>3. Beyond(y, q) => Beyond(y, t)
    BY <2>1, <2>2 DEF t
  <2> QED BY <2>2, <2>3 DEF t
<1>2. ASSUME NEW y \in Places, NEW r, Leads(b, y, r) PROVE Beyond(y, r)
  <2> DEFINE Q == {q \in Places : Beyond(y, q)}
  <2>1. Closed(b, Q)
    BY <1>1, Turns1 DEF Closed
  <2>2. y \in Q
    BY <1>1
  <2> HIDE DEF Q
  <2>3. r \in Q
    BY <1>2, <2>1, <2>2 DEF Leads
  <2> QED BY <2>3 DEF Q
<1>3. s = x \/ Leads(b, Turn(b, x), s)
  <2> DEFINE Q == {q \in Places : q = x \/ Leads(b, Turn(b, x), q)}
  <2>1. Turn(b, x) \in Places
    BY Turns1
  <2>2. Closed(b, Q)
    BY <2>1, Turns1, Path DEF Closed
  <2> HIDE DEF Q
  <2>3. s \in Q
    <3>1. x \in Q
      BY DEF Q
    <3> QED BY <2>2, <3>1 DEF Leads
  <2> QED BY <2>3 DEF Q
<1>4. s \in Places
  BY Path
<1>5. ASSUME s # x PROVE Far(s) > Far(x) /\ (Settled(b, x) => s.m.hc > x.m.hc)
  <2> DEFINE t == Turn(b, x)
  <2>1. t \in Places /\ Far(t) > Far(x) /\ (Settled(b, x) => t.m.hc > x.m.hc)
    BY Turns1
  <2>2. Leads(b, t, s)
    BY <1>3, <1>5
  <2> HIDE DEF t
  <2>3. s.m.hc >= t.m.hc /\ s.cursor >= t.cursor
    BY <1>2, <2>1, <2>2
  <2>4. /\ s.m.hc \in Nat /\ s.cursor \in Nat /\ t.m.hc \in Nat /\ t.cursor \in Nat
        /\ x.m.hc \in Nat /\ x.cursor \in Nat
    BY <1>1, <1>4, <2>1
  <2> QED BY <2>1, <2>3, <2>4 DEF Far
<1> QED BY <1>2, <1>3, <1>4, <1>5

\* Two places on one path: it leads from one to the other.
LEMMA Order ==
  ASSUME NEW b, IsBook(b), NEW x \in Places, NEW s, NEW r, Leads(b, x, s), Leads(b, x, r)
  PROVE  Leads(b, s, r) \/ Leads(b, r, s)
<1> DEFINE Q == {q \in Places : Leads(b, q, s) \/ Leads(b, s, q)}
<1>1. s \in Places
  BY Path
<1>2. ASSUME NEW q \in Q PROVE Turn(b, q) \in Q
  <2>1. q \in Places /\ Turn(b, q) \in Places
    BY Turns1
  <2>2. CASE Leads(b, s, q)
    BY <1>1, <2>1, <2>2, Path
  <2>3. CASE Leads(b, q, s)
    <3>1. s = q \/ Leads(b, Turn(b, q), s)
      BY <2>1, <2>3, Onward
    <3> QED BY <1>1, <2>1, <3>1, Path
  <2> QED BY <2>2, <2>3
<1>3. Closed(b, Q) /\ x \in Q
  BY <1>2 DEF Closed
<1> HIDE DEF Q
<1>4. r \in Q
  BY <1>3 DEF Leads
<1> QED BY <1>4 DEF Q

\* A place where nothing more is due comes before all that is later.
LEMMA Settles ==
  ASSUME NEW b, IsBook(b), NEW x \in Places, NEW s, NEW r, Leads(b, x, s), Leads(b, x, r),
         Settled(b, s), s.m.hc >= r.m.hc
  PROVE  Leads(b, r, s)
<1>1. s \in Places /\ r \in Places
  BY Path
<1>2. s.m.hc \in Nat /\ r.m.hc \in Nat
  BY <1>1 DEF Places, Worlds
<1>3. CASE Leads(b, s, r)
  <2>1. s = r
    BY <1>1, <1>2, <1>3, Onward
  <2> QED BY <1>1, <2>1, Path
<1> QED BY <1>3, Order

\* Another log that reads the same along the path leads along it too.
LEMMA LeadsIn ==
  ASSUME NEW b, IsBook(b), NEW c, IsBook(c), NEW x \in Places, NEW s, Leads(b, x, s),
         \A q \in Places : Leads(b, x, q) /\ Leads(b, q, s) /\ q # s => Turn(c, q) = Turn(b, q)
  PROVE  Leads(c, x, s)
<1> DEFINE Q == {q \in Places : Leads(b, x, q) /\ (Leads(b, q, s) => Leads(c, x, q))}
<1>1. ASSUME NEW q \in Q PROVE Turn(b, q) \in Q
  <2>1. q \in Places /\ Leads(b, x, q) /\ Turn(b, q) \in Places /\ Far(Turn(b, q)) > Far(q)
    BY Turns1
  <2>2. Leads(b, x, Turn(b, q))
    BY <2>1, Path
  <2>3. ASSUME Leads(b, Turn(b, q), s) PROVE Leads(c, x, Turn(b, q))
    <3>1. Leads(b, q, s)
      BY <2>1, <2>3, Path
    <3>2. q # s
      <4>1. s = Turn(b, q) \/ Far(s) > Far(Turn(b, q))
        BY <2>1, <2>3, Onward
      <4>2. s \in Places
        BY Path
      <4>3. Far(s) \in Nat /\ Far(q) \in Nat /\ Far(Turn(b, q)) \in Nat
        BY <2>1, <4>2, FarIs
      <4> QED BY <2>1, <4>1, <4>3
    <3>3. Turn(c, q) = Turn(b, q)
      BY <2>1, <3>1, <3>2
    <3>4. Leads(c, x, q)
      BY <3>1
    <3> QED BY <3>3, <3>4, Path
  <2> QED BY <2>1, <2>2, <2>3
<1>2. Closed(b, Q) /\ x \in Q
  BY <1>1, Path DEF Closed
<1> HIDE DEF Q
<1>3. s \in Q
  BY <1>2 DEF Leads
<1> QED BY <1>3, Path DEF Q

\* What was done stays done.
Begun(d, e) == Len(d) <= Len(e) /\ \A k \in 1..Len(d) : e[k] = d[k]

LEMMA Doings ==
  ASSUME NEW b, IsBook(b), NEW x \in Places, NEW s, Leads(b, x, s)
  PROVE  Begun(x.m.did, s.m.did)
<1> DEFINE Q == {q \in Places : Begun(x.m.did, q.m.did)}
<1>1. ASSUME NEW q \in Q PROVE Turn(b, q) \in Q
  <2> DEFINE t == Turn(b, q)
  <2>1. t \in Places /\ (t.m.did = q.m.did \/ \E y \in Deeds : t.m.did = Append(q.m.did, y))
    BY Turns1
  <2>2. x.m.did \in Seq(Deeds) /\ q.m.did \in Seq(Deeds)
    BY DEF Places, Worlds
  <2> HIDE DEF t
  <2>3. CASE t.m.did = q.m.did
    BY <2>1, <2>3 DEF t
  <2>4. ASSUME NEW y \in Deeds, t.m.did = Append(q.m.did, y) PROVE Begun(x.m.did, t.m.did)
    <3>1. /\ Len(t.m.did) = Len(q.m.did) + 1
          /\ \A k \in 1..Len(q.m.did) : t.m.did[k] = q.m.did[k]
      BY <2>2, <2>4, AppendProperties
    <3>2. Len(x.m.did) \in Nat /\ Len(q.m.did) \in Nat
      BY <2>2, LenProperties
    <3>3. Begun(x.m.did, q.m.did)
      OBVIOUS
    <3> QED BY <3>1, <3>2, <3>3 DEF Begun
  <2> QED BY <2>1, <2>3, <2>4 DEF t
<1>2. Closed(b, Q) /\ x \in Q
  <2>1. Len(x.m.did) \in Nat
    BY LenProperties DEF Places, Worlds
  <2> QED BY <1>1, <2>1 DEF Closed, Begun
<1> HIDE DEF Q
<1>3. s \in Q
  BY <1>2 DEF Leads
<1> QED BY <1>3 DEF Q

-----------------------------------------------------------------------------
(* Replays.                                                                *)

Runs == [at : Places, noted : SUBSET Nat]

RunOn(b, l, target) ==
  IF Stopped(b, l.at, target) THEN l
  ELSE [at |-> Turn(b, l.at), noted |-> l.noted \cup Note(b, l.at)]

Ran(g, b, x, target) ==
  /\ g \in [0..Turns -> Runs]
  /\ g[0] = [at |-> x, noted |-> {}]
  /\ \A n \in 1..Turns : g[n] = RunOn(b, g[n - 1], target)

\* Run is what its turns make it.
LEMMA RunIs ==
  ASSUME Turns \in Nat, NEW b, IsBook(b), NEW x \in Places, NEW target \in Nat
  PROVE  \E g : Ran(g, b, x, target) /\ Run(b, x, target) = g[Turns]
<1> DEFINE F == [l \in Runs |-> RunOn(b, l, target)]
           z == [at |-> x, noted |-> {}]
<1>1. F \in [Runs -> Runs]
  <2> SUFFICES ASSUME NEW l \in Runs PROVE RunOn(b, l, target) \in Runs
    OBVIOUS
  <2>1. l.at \in Places /\ l.noted \subseteq Nat /\ Turn(b, l.at) \in Places
    BY Turns1 DEF Runs
  <2>2. Note(b, l.at) \subseteq Nat
    BY <2>1 DEF Note, Places, Worlds
  <2> QED BY <2>1, <2>2 DEF RunOn, Runs
<1>2. z \in Runs
  BY DEF Runs
<1>3. PICK g \in [0..Turns -> Runs] : g[0] = z /\ \A n \in 1..Turns : g[n] = F[g[n - 1]]
  <2> HIDE DEF F, z
  <2>1. \E g : Iterate(g, Runs, F, z, Turns)
    BY <1>1, <1>2, Iterates
  <2> QED BY <2>1 DEF Iterate
<1>4. \A n \in 1..Turns : g[n - 1] \in Runs
  BY <1>3
<1>5. Ran(g, b, x, target)
  BY <1>3, <1>4 DEF Ran
<1>6. g = [n \in 0..Turns |-> IF n = 0 THEN z ELSE RunOn(b, g[n - 1], target)]
  <2> DEFINE h == [n \in 0..Turns |-> IF n = 0 THEN z ELSE RunOn(b, g[n - 1], target)]
  <2>1. ASSUME NEW n \in 0..Turns PROVE g[n] = h[n]
    BY <1>5 DEF Ran
  <2>2. DOMAIN g = 0..Turns /\ DOMAIN h = 0..Turns /\ g = [n \in 0..Turns |-> g[n]]
    BY <1>3
  <2> QED BY <2>1, <2>2
<1> DEFINE run[n \in 0..Turns] == IF n = 0 THEN z ELSE RunOn(b, run[n - 1], target)
<1>7. run = [n \in 0..Turns |-> IF n = 0 THEN z ELSE RunOn(b, run[n - 1], target)]
  BY <1>6
<1>8. Run(b, x, target) = run[Turns]
  BY DEF Run, RunOn
<1> HIDE DEF run
<1>9. Ran(run, b, x, target)
  <2> DEFINE T == {n \in 0..Turns : run[n] = g[n]}
  <2>1. 0 \in T
    BY <1>5, <1>7 DEF Ran
  <2>2. ASSUME NEW n \in 0..(Turns - 1), n \in T PROVE n + 1 \in T
    <3>1. n + 1 \in 1..Turns /\ n + 1 \in 0..Turns /\ n + 1 # 0 /\ (n + 1) - 1 = n
      OBVIOUS
    <3>2. run[n + 1] = RunOn(b, run[n], target) /\ g[n + 1] = RunOn(b, g[n], target)
      BY <1>5, <1>7, <3>1 DEF Ran
    <3> QED BY <2>2, <3>1, <3>2
  <2> HIDE DEF T
  <2>3. \A n \in 0..Turns : n \in T
    BY <2>1, <2>2, Inductive
  <2>4. \A n \in 0..Turns : run[n] = g[n]
    BY <2>3 DEF T
  <2>5. run = g
    BY <1>7, <1>3, <2>4
  <2> QED BY <1>5, <2>5
<1> QED BY <1>8, <1>9

\* A replay follows the path.
LEMMA RunLeads ==
  ASSUME Turns \in Nat, NEW b, IsBook(b), NEW x \in Places, NEW target \in Nat,
         NEW g, Ran(g, b, x, target)
  PROVE  \A n \in 0..Turns : Leads(b, x, g[n].at)
<1> DEFINE T == {n \in 0..Turns : Leads(b, x, g[n].at)}
<1>1. 0 \in T
  <2>1. g[0].at = x
    BY DEF Ran
  <2> QED BY <2>1, Path
<1>2. ASSUME NEW n \in 0..(Turns - 1), n \in T PROVE n + 1 \in T
  <2>1. n + 1 \in 1..Turns /\ n + 1 \in 0..Turns /\ (n + 1) - 1 = n
    OBVIOUS
  <2>2. g[n + 1] = RunOn(b, g[n], target)
    BY <2>1 DEF Ran
  <2>3. g[n + 1].at = g[n].at \/ g[n + 1].at = Turn(b, g[n].at)
    BY <2>2 DEF RunOn
  <2>4. Leads(b, x, g[n].at)
    BY <1>2
  <2>5. Leads(b, x, g[n + 1].at)
    BY <2>3, <2>4, Path
  <2> QED BY <2>1, <2>5
<1> HIDE DEF T
<1>3. \A n \in 0..Turns : n \in T
  BY <1>1, <1>2, Inductive
<1> QED BY <1>3 DEF T

\* And stops before any place where it would, if it has the turns to reach it.
LEMMA RunStops ==
  ASSUME Turns \in Nat, NEW b, IsBook(b), NEW x \in Places, NEW target \in Nat
  PROVE  LET r == Run(b, x, target).at
         IN /\ r \in Places /\ Leads(b, x, r)
            /\ \A h : Leads(b, x, h) /\ Stopped(b, h, target) /\ Far(h) <= Turns =>
                        Leads(b, r, h) /\ Stopped(b, r, target)
<1>1. PICK g : Ran(g, b, x, target) /\ Run(b, x, target) = g[Turns]
  BY RunIs
<1>2. Leads(b, x, g[Turns].at) /\ g[Turns].at \in Places
  <2>1. Turns \in 0..Turns
    OBVIOUS
  <2>2. Leads(b, x, g[Turns].at)
    BY <1>1, <2>1, RunLeads
  <2> QED BY <2>2, Path
<1>3. ASSUME NEW h, Leads(b, x, h), Stopped(b, h, target), Far(h) <= Turns
      PROVE  Leads(b, g[Turns].at, h) /\ Stopped(b, g[Turns].at, target)
  <2> DEFINE T == {n \in 0..Turns : /\ Leads(b, g[n].at, h)
                                    /\ Stopped(b, g[n].at, target) \/ Far(g[n].at) >= n}
  <2>0. h \in Places /\ Far(h) \in Nat
    <3>1. h \in Places
      BY <1>3, Path
    <3> QED BY <3>1, FarIs
  <2>1. 0 \in T
    <3>1. g[0].at = x
      BY <1>1 DEF Ran
    <3>2. Far(x) \in Nat
      BY FarIs
    <3> QED BY <1>3, <3>1, <3>2
  <2>2. ASSUME NEW n \in 0..(Turns - 1), n \in T PROVE n + 1 \in T
    <3>1. n + 1 \in 1..Turns /\ n + 1 \in 0..Turns /\ (n + 1) - 1 = n /\ n \in 0..Turns
      OBVIOUS
    <3>2. g[n + 1] = RunOn(b, g[n], target)
      BY <1>1, <3>1 DEF Ran
    <3>3. Leads(b, g[n].at, h) /\ (Stopped(b, g[n].at, target) \/ Far(g[n].at) >= n)
      BY <2>2
    <3>4. g[n].at \in Places
      <4>1. Leads(b, x, g[n].at)
        BY <1>1, <3>1, RunLeads
      <4> QED BY <4>1, Path
    <3>5. CASE Stopped(b, g[n].at, target)
      <4>1. g[n + 1] = g[n]
        BY <3>2, <3>5 DEF RunOn
      <4> QED BY <3>1, <3>3, <3>5, <4>1
    <3>6. CASE ~Stopped(b, g[n].at, target)
      <4> DEFINE q == g[n].at
                 t == g[n + 1].at
      <4>1. t = Turn(b, q)
        BY <3>2, <3>6 DEF RunOn
      <4>2. t \in Places /\ Far(t) > Far(q) /\ Far(q) \in Nat /\ Far(t) \in Nat
        <5>1. t \in Places /\ Far(t) > Far(q)
          BY <3>4, <4>1, Turns1
        <5> QED BY <3>4, <5>1, FarIs
      <4>3. Leads(b, t, h)
        <5>1. h # q
          BY <1>3, <3>6
        <5> QED BY <3>3, <3>4, <4>1, <5>1, Onward
      <4>4. Far(t) >= n + 1
        <5>1. Far(q) >= n
          BY <3>3, <3>6
        <5> HIDE DEF q, t
        <5> QED BY <4>2, <5>1
      <4> QED BY <3>1, <4>3, <4>4
    <3> QED BY <3>5, <3>6
  <2>3. Turns \in T
    <3> HIDE DEF T
    <3>1. \A n \in 0..Turns : n \in T
      BY <2>1, <2>2, Inductive
    <3> QED BY <3>1
  <2>4. CASE Far(g[Turns].at) >= Turns
    <3>1. Leads(b, g[Turns].at, h) /\ Far(g[Turns].at) \in Nat
      <4>1. Far(g[Turns].at) \in Nat
        BY <1>2, FarIs
      <4> QED BY <2>3, <4>1
    <3>2. h = g[Turns].at \/ Far(h) > Far(g[Turns].at)
      BY <1>2, <3>1, Onward
    <3>3. h = g[Turns].at
      BY <1>3, <2>0, <2>4, <3>1, <3>2
    <3> QED BY <1>3, <3>1, <3>3
  <2> QED BY <2>3, <2>4
<1> QED BY <1>1, <1>2, <1>3

CatchOn(b, q) == IF Due(b, q) THEN Turn(b, q) ELSE q

\* Catching up leads to the first place where nothing is due.
LEMMA Catches ==
  ASSUME Turns \in Nat, NEW b, IsBook(b), NEW x \in Places
  PROVE  LET r == CaughtUp(b, x)
         IN /\ r \in Places /\ Leads(b, x, r)
            /\ \A h : Leads(b, x, h) /\ ~Due(b, h) /\ Far(h) <= Turns =>
                        Leads(b, r, h) /\ ~Due(b, r)
<1> DEFINE F == [q \in Places |-> CatchOn(b, q)]
<1>1. F \in [Places -> Places]
  BY Turns1 DEF CatchOn
<1>2. PICK g : Iterate(g, Places, F, x, Turns)
  <2> HIDE DEF F
  <2> QED BY <1>1, Iterates
<1>3. /\ g \in [0..Turns -> Places] /\ g[0] = x
      /\ \A n \in 1..Turns : g[n] = CatchOn(b, g[n - 1]) /\ n - 1 \in 0..Turns
  <2>1. /\ g \in [0..Turns -> Places] /\ g[0] = x
        /\ \A n \in 1..Turns : g[n] = F[g[n - 1]]
    BY <1>2 DEF Iterate
  <2>2. \A n \in 1..Turns : n - 1 \in 0..Turns
    OBVIOUS
  <2>3. \A n \in 1..Turns : g[n - 1] \in Places
    BY <2>1, <2>2
  <2> QED BY <2>1, <2>2, <2>3
<1>4. g = [n \in 0..Turns |-> IF n = 0 THEN x ELSE CatchOn(b, g[n - 1])]
  <2> DEFINE h == [n \in 0..Turns |-> IF n = 0 THEN x ELSE CatchOn(b, g[n - 1])]
  <2>1. ASSUME NEW n \in 0..Turns PROVE g[n] = h[n]
    BY <1>3
  <2>2. DOMAIN g = 0..Turns /\ DOMAIN h = 0..Turns /\ g = [n \in 0..Turns |-> g[n]]
    BY <1>3
  <2> QED BY <2>1, <2>2
<1> DEFINE run[n \in 0..Turns] == IF n = 0 THEN x ELSE CatchOn(b, run[n - 1])
<1>5. run = [n \in 0..Turns |-> IF n = 0 THEN x ELSE CatchOn(b, run[n - 1])]
  BY <1>4
<1>6. CaughtUp(b, x) = run[Turns]
  BY DEF CaughtUp, CatchOn
<1> HIDE DEF run
<1>7. ASSUME NEW n \in 0..(Turns - 1)
      PROVE  n + 1 \in 1..Turns /\ n + 1 \in 0..Turns /\ n \in 0..Turns /\ run[n + 1] = CatchOn(b, run[n])
  <2>1. n + 1 \in 1..Turns /\ n + 1 \in 0..Turns /\ n + 1 # 0 /\ (n + 1) - 1 = n
    OBVIOUS
  <2> QED BY <1>5, <2>1
<1>8. run[0] = x /\ Turns \in 0..Turns
  BY <1>5
<1>9. \A n \in 0..Turns : run[n] \in Places /\ Leads(b, x, run[n])
  <2> DEFINE T == {n \in 0..Turns : run[n] \in Places /\ Leads(b, x, run[n])}
  <2>1. 0 \in T
    BY <1>8, Path
  <2>2. ASSUME NEW n \in 0..(Turns - 1), n \in T PROVE n + 1 \in T
    <3>1. run[n + 1] \in {run[n], Turn(b, run[n])} /\ n + 1 \in 0..Turns
      BY <1>7 DEF CatchOn
    <3> QED BY <2>2, <3>1, Path, Turns1
  <2> HIDE DEF T
  <2>3. \A n \in 0..Turns : n \in T
    BY <2>1, <2>2, Inductive
  <2> QED BY <2>3 DEF T
<1>10. ASSUME NEW h, Leads(b, x, h), ~Due(b, h), Far(h) <= Turns
       PROVE  Leads(b, run[Turns], h) /\ ~Due(b, run[Turns])
  <2> DEFINE T == {n \in 0..Turns : Leads(b, run[n], h) /\ (~Due(b, run[n]) \/ Far(run[n]) >= n)}
  <2>0. h \in Places /\ Far(h) \in Nat
    <3>1. h \in Places
      BY <1>10, Path
    <3> QED BY <3>1, FarIs
  <2>1. 0 \in T
    <3>1. Far(x) \in Nat
      BY FarIs
    <3> QED BY <1>8, <1>10, <3>1
  <2>2. ASSUME NEW n \in 0..(Turns - 1), n \in T PROVE n + 1 \in T
    <3>1. run[n + 1] = CatchOn(b, run[n]) /\ n + 1 \in 0..Turns /\ run[n] \in Places
      BY <1>7, <1>9
    <3>2. Leads(b, run[n], h) /\ (~Due(b, run[n]) \/ Far(run[n]) >= n)
      BY <2>2
    <3>3. CASE ~Due(b, run[n])
      BY <3>1, <3>2, <3>3 DEF CatchOn
    <3>4. CASE Due(b, run[n])
      <4> DEFINE q == run[n]
                 t == run[n + 1]
      <4>1. t = Turn(b, q)
        BY <3>1, <3>4 DEF CatchOn
      <4>2. t \in Places /\ Far(t) > Far(q) /\ Far(q) \in Nat /\ Far(t) \in Nat
        <5>1. t \in Places /\ Far(t) > Far(q)
          BY <3>1, <4>1, Turns1
        <5> QED BY <3>1, <5>1, FarIs
      <4>3. Leads(b, t, h)
        <5>1. h # q
          BY <1>10, <3>4
        <5> QED BY <3>1, <3>2, <4>1, <5>1, Onward
      <4>4. Far(t) >= n + 1
        <5>1. Far(q) >= n
          BY <3>2, <3>4
        <5> HIDE DEF q, t
        <5> QED BY <4>2, <5>1
      <4> QED BY <3>1, <4>3, <4>4
    <3> QED BY <3>3, <3>4
  <2>3. Turns \in T
    <3> HIDE DEF T
    <3>1. \A n \in 0..Turns : n \in T
      BY <2>1, <2>2, Inductive
    <3> QED BY <3>1
  <2>4. CASE Far(run[Turns]) >= Turns
    <3>1. Leads(b, run[Turns], h) /\ Far(run[Turns]) \in Nat /\ run[Turns] \in Places
      <4>1. run[Turns] \in Places
        BY <1>8, <1>9
      <4>2. Far(run[Turns]) \in Nat
        BY <4>1, FarIs
      <4> QED BY <2>3, <4>1, <4>2
    <3>2. h = run[Turns] \/ Far(h) > Far(run[Turns])
      BY <3>1, Onward
    <3>3. h = run[Turns]
      BY <1>10, <2>0, <2>4, <3>1, <3>2
    <3> QED BY <1>10, <3>1, <3>3
  <2> QED BY <2>3, <2>4
<1> QED BY <1>6, <1>8, <1>9, <1>10

-----------------------------------------------------------------------------
(* The invariant.                                                          *)

Points == [hc : Nat, log_index : Nat, state : Worlds]

HTypes ==
  /\ machine \in Worlds /\ timeline \in Worlds
  /\ checkpoints \in Seq(Points) /\ Len(checkpoints) > 0
  /\ log \in Seq(Entries)
  /\ log_base \in Nat /\ last_frame \in Nat /\ head_hc \in Nat /\ cursor \in Nat
  /\ live \in BOOLEAN /\ midspan \in BOOLEAN

End == [m |-> timeline, cursor |-> LogEnd]
FromIn(cps, i) == [m |-> cps[i].state, cursor |-> cps[i].log_index]
BookOf(lg, base) == [i \in base..((base + Len(lg)) - 1) |-> lg[i - base + 1]]

\* The checkpoints are on one path, in order, that ends at h.
Chain(b, base, cps, h) ==
  /\ \A i, j \in 1..Len(cps) : i < j => Leads(b, FromIn(cps, i), FromIn(cps, j))
  /\ \A i \in 1..Len(cps) : Leads(b, FromIn(cps, i), h) /\ cps[i].hc = cps[i].state.hc
  /\ base <= cps[1].log_index

\* The machine is somewhere on it, with nothing more due.
Standing(b, cps, h, p) == Leads(b, FromIn(cps, 1), p) /\ Settled(b, p) /\ Leads(b, p, h)

Kept ==
  /\ Chain(Book, log_base, checkpoints, End)
  /\ Standing(Book, checkpoints, End, Here)
  /\ live => machine = timeline
  /\ ~live => head_hc = timeline.hc /\ ~(machine.hc >= head_hc /\ cursor >= LogEnd)

HInv == HTypes /\ (midspan \/ Kept)

\* The log, by index.
LEMMA BookIs ==
  ASSUME NEW lg \in Seq(Entries), NEW base \in Nat
  PROVE  /\ IsBook(BookOf(lg, base))
         /\ DOMAIN BookOf(lg, base) = base..((base + Len(lg)) - 1)
         /\ \A i \in base..((base + Len(lg)) - 1) : i - base + 1 \in 1..Len(lg) /\ BookOf(lg, base)[i] = lg[i - base + 1]
         /\ base + Len(lg) \in Nat
<1>1. Len(lg) \in Nat /\ \A k \in 1..Len(lg) : lg[k] \in Entries
  BY LenProperties, ElementOfSeq
<1>2. \A i \in base..((base + Len(lg)) - 1) : i - base + 1 \in 1..Len(lg)
  BY <1>1
<1>3. base..((base + Len(lg)) - 1) \subseteq Nat
  BY <1>1
<1> QED BY <1>1, <1>2, <1>3 DEF BookOf, IsBook

LEMMA TypesGive ==
  ASSUME HTypes
  PROVE  /\ Book = BookOf(log, log_base) /\ IsBook(Book)
         /\ LogEnd \in Nat /\ LogEnd = log_base + Len(log) /\ DOMAIN Book = log_base..(LogEnd - 1)
         /\ HeadHc \in Nat /\ Turns \in Nat
         /\ Here \in Places /\ End \in Places
         /\ Len(checkpoints) \in Nat
         /\ \A i \in 1..Len(checkpoints) : /\ checkpoints[i] \in Points
                                           /\ From(i) = FromIn(checkpoints, i) /\ From(i) \in Places
<1>1. Book = BookOf(log, log_base)
  BY DEF Book, BookOf, LogEnd
<1>2. IsBook(Book) /\ LogEnd \in Nat /\ LogEnd = log_base + Len(log) /\ DOMAIN Book = log_base..(LogEnd - 1)
  <2>1. IsBook(BookOf(log, log_base)) /\ DOMAIN BookOf(log, log_base) = log_base..((log_base + Len(log)) - 1)
        /\ log_base + Len(log) \in Nat
    BY BookIs DEF HTypes
  <2> QED BY <1>1, <2>1 DEF LogEnd
<1>3. HeadHc \in Nat
  BY DEF HTypes, HeadHc, Worlds
<1>4. Turns \in Nat
  <2>1. InstrHc \in Nat
    BY RewindAssumption
  <2> QED BY <1>2, <1>3, <2>1 DEF Turns
<1>5. Here \in Places /\ End \in Places
  BY <1>2 DEF HTypes, Here, End, Places
<1>6. Len(checkpoints) \in Nat
  BY LenProperties DEF HTypes
<1>7. ASSUME NEW i \in 1..Len(checkpoints)
      PROVE  /\ checkpoints[i] \in Points
             /\ From(i) = FromIn(checkpoints, i) /\ From(i) \in Places
  <2>1. checkpoints[i] \in Points
    BY ElementOfSeq DEF HTypes
  <2>2. From(i) = FromIn(checkpoints, i)
    BY DEF From, FromIn
  <2> QED BY <2>1, <2>2 DEF From, Points, Places
<1> QED BY <1>1, <1>2, <1>3, <1>4, <1>5, <1>6, <1>7

LEMMA FrameIs ==
  ASSUME NEW m \in Worlds
  PROVE  Frame(m) \in Nat
<1>1. FrameHc \in Nat /\ FrameHc > 0 /\ m.hc \in Nat
  BY RewindAssumption DEF Worlds
<1>2. \A a, c \in Nat : c > 0 => a \div c \in Nat
  OBVIOUS
<1> QED BY <1>1, <1>2 DEF Frame

\* Where a replay from a checkpoint lands is a place.
LEMMA ReplayIs ==
  ASSUME HTypes, NEW i \in 1..Len(checkpoints), NEW target \in Nat
  PROVE  Replay(i, target) \in Places /\ Replayed(i, target).noted \subseteq Nat
<1>1. PICK g : Ran(g, Book, From(i), target) /\ Run(Book, From(i), target) = g[Turns]
  BY TypesGive, RunIs
<1>2. g[Turns] \in Runs
  <2>1. Turns \in 0..Turns
    BY TypesGive
  <2> QED BY <1>1, <2>1 DEF Ran
<1> QED BY <1>1, <1>2 DEF Replay, Replayed, Runs

\* The checkpoint landed from is one of those there are.
LEMMA BeforeIs ==
  ASSUME HTypes, NEW hc \in Nat
  PROVE  (IF CheckpointBefore(hc) = {} THEN 1 ELSE Largest(CheckpointBefore(hc))) \in 1..Len(checkpoints)
<1>1. Len(checkpoints) \in Nat /\ Len(checkpoints) > 0 /\ DOMAIN checkpoints = 1..Len(checkpoints)
  BY LenProperties DEF HTypes
<1>2. CheckpointBefore(hc) \subseteq 1..Len(checkpoints)
  BY <1>1 DEF CheckpointBefore
<1>3. ASSUME CheckpointBefore(hc) # {} PROVE Largest(CheckpointBefore(hc)) \in CheckpointBefore(hc)
  <2>1. CheckpointBefore(hc) \subseteq 0..Len(checkpoints)
    BY <1>1, <1>2
  <2> QED BY <1>1, <1>3, <2>1, LargestIn
<1> QED BY <1>1, <1>2, <1>3

LEMMA LandIs ==
  ASSUME HTypes, NEW target \in Nat
  PROVE  \E i \in 1..Len(checkpoints) : Land(target) = Replay(i, target)
<1> DEFINE from == IF target > FrameHc THEN target - FrameHc ELSE 0
<1>1. from + 1 \in Nat
  BY RewindAssumption
<1> DEFINE i == IF CheckpointBefore(from + 1) = {} THEN 1 ELSE Largest(CheckpointBefore(from + 1))
<1>2. i \in 1..Len(checkpoints)
  <2> HIDE DEF from
  <2> QED BY <1>1, BeforeIs
<1>3. Land(target) = Replay(i, target)
  BY DEF Land
<1> HIDE DEF i
<1> QED BY <1>2, <1>3

-----------------------------------------------------------------------------
(* What the operations leave of the history.                               *)

\* A piece of a sequence.
LEMMA Piece ==
  ASSUME NEW S, NEW s \in Seq(S), NEW m \in Nat \ {0}, NEW n \in 0..Len(s)
  PROVE  /\ SubSeq(s, m, n) \in Seq(S)
         /\ Len(SubSeq(s, m, n)) = IF m <= n THEN (n - m) + 1 ELSE 0
         /\ \A i \in 1..((n - m) + 1) : SubSeq(s, m, n)[i] = s[(m + i) - 1]
<1>1. \A i \in m..n : s[i] \in S
  <2>1. Len(s) \in Nat
    BY LenProperties
  <2> QED BY <2>1, ElementOfSeq
<1>2. m \in Int /\ n \in Int
  BY LenProperties
<1> QED BY <1>1, <1>2, SubSeqProperties

\* A branch keeps the checkpoints up to one, none of them after the present
\* unless it is the first, and the log up to the cursor.
LEMMA KeptIs ==
  ASSUME HTypes
  PROVE  /\ \E k \in 1..Len(checkpoints) :
              /\ KeptCheckpoints = SubSeq(checkpoints, 1, k)
              /\ live => k = Len(checkpoints)
              /\ ~live => k = 1 \/ checkpoints[k].hc <= machine.hc
         /\ \E k \in 0..Len(log) :
              /\ KeptLog = SubSeq(log, 1, k)
              /\ live => k = Len(log)
              /\ ~live => \A j \in 0..Len(log) : log_base + j <= cursor => j <= k
              /\ ~live => k = 0 \/ log_base + k <= cursor
         /\ KeptFrame \in Nat
<1>1. Len(checkpoints) \in Nat /\ Len(checkpoints) > 0 /\ DOMAIN checkpoints = 1..Len(checkpoints)
      /\ Len(log) \in Nat
  BY LenProperties DEF HTypes
<1>2. KeptFrame \in Nat
  BY FrameIs DEF HTypes, KeptFrame
<1>3. CASE live
  <2>1. KeptCheckpoints = SubSeq(checkpoints, 1, Len(checkpoints))
    BY <1>3, SubSeqFull DEF KeptCheckpoints, HTypes
  <2>2. KeptLog = SubSeq(log, 1, Len(log))
    BY <1>3, SubSeqFull DEF KeptLog, HTypes
  <2>3. Len(checkpoints) \in 1..Len(checkpoints) /\ Len(log) \in 0..Len(log)
    BY <1>1
  <2> QED BY <1>2, <1>3, <2>1, <2>2, <2>3
<1>4. CASE ~live
  <2> DEFINE C == {k \in DOMAIN checkpoints : k = 1 \/ checkpoints[k].hc <= machine.hc}
             L == {k \in 0..Len(log) : k = 0 \/ log_base + k <= cursor}
  <2>1. Largest(C) \in C
    <3>1. C \subseteq 0..Len(checkpoints) /\ C # {}
      <4>1. 1 \in C
        BY <1>1
      <4> QED BY <1>1, <4>1
    <3> HIDE DEF C
    <3> QED BY <1>1, <3>1, LargestIn
  <2>2. Largest(L) \in L /\ \A j \in L : j <= Largest(L)
    <3>1. L \subseteq 0..Len(log) /\ L # {}
      <4>1. 0 \in L
        BY <1>1
      <4> QED BY <4>1
    <3> HIDE DEF L
    <3> QED BY <1>1, <3>1, LargestIn
  <2>3. KeptCheckpoints = SubSeq(checkpoints, 1, Largest(C))
    BY <1>4 DEF KeptCheckpoints
  <2>4. KeptLog = SubSeq(log, 1, Largest(L))
    BY <1>4 DEF KeptLog
  <2> DEFINE kc == Largest(C)
             kl == Largest(L)
  <2>5. kc \in 1..Len(checkpoints) /\ (kc = 1 \/ checkpoints[kc].hc <= machine.hc)
    BY <1>1, <2>1
  <2>6. kl \in 0..Len(log) /\ (kl = 0 \/ log_base + kl <= cursor)
    BY <2>2
  <2>7. \A j \in 0..Len(log) : log_base + j <= cursor => j <= kl
    BY <2>2
  <2> HIDE DEF kc, kl
  <2> QED BY <1>2, <1>4, <2>3, <2>4, <2>5, <2>6, <2>7 DEF kc, kl
<1> QED BY <1>3, <1>4

\* Trimming drops the oldest checkpoints, never all, and the log before what
\* is left of them.
LEMMA TrimIs ==
  ASSUME NEW cps \in Seq(Points), Len(cps) > 0, NEW lg \in Seq(Entries), NEW now \in Nat,
         log_base \in Nat, Trim(cps, lg, now)
  PROVE  /\ \E d \in 0..(Len(cps) - 1) :
              /\ checkpoints' = SubSeq(cps, d + 1, Len(cps))
              /\ log_base' \in {log_base, cps[d + 1].log_index}
              /\ log_base' >= cps[d + 1].log_index
         /\ log_base' \in Nat /\ log_base' >= log_base
         /\ log' = SubSeq(lg, (log_base' - log_base) + 1, Len(lg))
<1> DEFINE D == {k \in 0..(Len(cps) - 1) : Droppable(cps, now, k)}
           d == Largest(D)
<1>1. Len(cps) \in Nat
  BY LenProperties
<1>2. d \in D
  <2>1. 0 \in D
    BY <1>1 DEF Droppable
  <2>2. D \subseteq 0..Len(cps) /\ D # {}
    BY <1>1, <2>1
  <2> HIDE DEF D
  <2> QED BY <1>1, <2>2, LargestIn
<1>3. d = DroppedBy(cps, now)
  BY DEF DroppedBy
<1>4. d \in 0..(Len(cps) - 1)
  BY <1>2
<1> HIDE DEF d, D
<1> DEFINE needed == cps[d + 1].log_index
<1>5. needed \in Nat
  <2>1. d + 1 \in 1..Len(cps)
    BY <1>1, <1>4
  <2>2. cps[d + 1] \in Points
    BY <2>1, ElementOfSeq
  <2> QED BY <2>2 DEF Points
<1>6. /\ checkpoints' = SubSeq(cps, d + 1, Len(cps))
      /\ log_base' = Largest({log_base, needed})
      /\ log' = SubSeq(lg, (log_base' - log_base) + 1, Len(lg))
  BY <1>3 DEF Trim
<1> HIDE DEF needed
<1>7. Largest({log_base, needed}) \in {log_base, needed}
      /\ \A j \in {log_base, needed} : j <= Largest({log_base, needed})
  <2>1. {log_base, needed} \subseteq 0..(log_base + needed) /\ log_base + needed \in Nat
        /\ {log_base, needed} # {}
    BY <1>5
  <2> DEFINE P == {log_base, needed}
             N == log_base + needed
  <2>2. P \subseteq 0..N /\ N \in Nat /\ P # {}
    BY <2>1
  <2> HIDE DEF P, N
  <2>3. Largest(P) \in P /\ \A j \in P : j <= Largest(P)
    BY <2>2, LargestIn
  <2> QED BY <2>3 DEF P
<1>8. log_base' \in {log_base, needed} /\ log_base' >= needed /\ log_base' >= log_base /\ log_base' \in Nat
  BY <1>5, <1>6, <1>7
<1> QED BY <1>4, <1>6, <1>8 DEF needed

LEMMA OnLiveTypes ==
  ASSUME NEW w \in Worlds, NEW cps \in Seq(Points), Len(cps) > 0, NEW lg \in Seq(Entries), NEW seen,
         log_base \in Nat, OnLiveInstruction(w, cps, lg, seen)
  PROVE  /\ checkpoints' \in Seq(Points) /\ Len(checkpoints') > 0
         /\ log' \in Seq(Entries) /\ log_base' \in Nat /\ last_frame' \in Nat
<1>1. last_frame' \in Nat
  BY FrameIs DEF OnLiveInstruction
<1>2. CASE Frame(w) # seen /\ Frame(w) % CheckpointFrames = 0
  <2> DEFINE cp == Checkpoint(w, log_base + Len(lg))
             cps2 == Append(cps, cp)
  <2>1. w.hc \in Nat /\ Len(lg) \in Nat /\ Len(cps) \in Nat
    BY LenProperties DEF Worlds
  <2>2. cp \in Points
    BY <2>1 DEF Checkpoint, Points
  <2>3. Trim(cps2, lg, w.hc)
    BY <1>2 DEF OnLiveInstruction
  <2> HIDE DEF cp
  <2>4. cps2 \in Seq(Points) /\ Len(cps2) = Len(cps) + 1
    BY <2>2, AppendProperties
  <2> HIDE DEF cps2
  <2>5. Len(cps2) \in Nat /\ Len(cps2) > 0
    BY <2>1, <2>4
  <2>6. PICK d \in 0..(Len(cps2) - 1) : checkpoints' = SubSeq(cps2, d + 1, Len(cps2))
    BY <2>1, <2>3, <2>4, <2>5, TrimIs
  <2>7. log_base' \in Nat /\ log_base' >= log_base
    BY <2>1, <2>3, <2>4, <2>5, TrimIs
  <2>12. log' = SubSeq(lg, (log_base' - log_base) + 1, Len(lg))
    BY <2>1, <2>3, <2>4, <2>5, TrimIs
  <2>8. d + 1 \in Nat \ {0} /\ Len(cps2) \in 0..Len(cps2) /\ d + 1 <= Len(cps2)
    BY <2>5
  <2>9. checkpoints' \in Seq(Points) /\ Len(checkpoints') = (Len(cps2) - (d + 1)) + 1
    BY <2>4, <2>6, <2>8, Piece
  <2>10. (log_base' - log_base) + 1 \in Nat \ {0} /\ Len(lg) \in 0..Len(lg)
    <3>1. \A n \in Nat : n >= log_base => (n - log_base) + 1 \in Nat \ {0}
      OBVIOUS
    <3>2. (log_base' - log_base) + 1 \in Nat \ {0}
      BY <2>7, <3>1
    <3>3. Len(lg) \in 0..Len(lg)
      BY <2>1
    <3> QED BY <3>2, <3>3
  <2>11. log' \in Seq(Entries)
    BY <2>10, <2>12, Piece
  <2>13. Len(checkpoints') > 0
    BY <2>5, <2>8, <2>9
  <2> QED BY <1>1, <2>7, <2>9, <2>11, <2>13
<1>3. CASE ~(Frame(w) # seen /\ Frame(w) % CheckpointFrames = 0)
  BY <1>1, <1>3 DEF OnLiveInstruction
<1> QED BY <1>2, <1>3

\* What a search sees is in the past.
LEMMA SeenIs ==
  ASSUME HTypes, NEW h \in Boundaries(machine.hc)
  PROVE  h \in Nat /\ h < machine.hc
<1> DEFINE now == machine.hc
<1>0. now \in Nat
  BY DEF HTypes, Worlds
<1> HIDE DEF now
<1>1. PICK i \in CheckpointBefore(now) : h \in {k \in Replayed(i, IntervalEnd(i, now)).noted : k < now}
  BY DEF Boundaries, now
<1>2. CheckpointBefore(now) \subseteq 1..Len(checkpoints)
  BY LenProperties DEF CheckpointBefore, HTypes
<1>3. IntervalEnd(i, now) \in Nat
  <2>1. CASE i + 1 \in CheckpointBefore(now)
    <3>1. checkpoints[i + 1] \in Points
      BY <1>2, <2>1, TypesGive
    <3> QED BY <2>1, <3>1 DEF IntervalEnd, Points
  <2>2. CASE i + 1 \notin CheckpointBefore(now)
    BY <1>0, <2>2 DEF IntervalEnd
  <2> QED BY <2>1, <2>2
<1>4. Replayed(i, IntervalEnd(i, now)).noted \subseteq Nat
  BY <1>1, <1>2, <1>3, ReplayIs
<1> QED BY <1>1, <1>4 DEF now

LEMMA LandedTypes ==
  ASSUME HTypes, NEW s \in Places, NEW head \in Nat, Landed(s, head),
         timeline' \in Worlds, midspan' \in BOOLEAN
  PROVE  HTypes'
<1>1. s.m \in Worlds /\ s.cursor \in Nat /\ Frame(s.m) \in Nat
  BY FrameIs DEF Places
<1>2. /\ machine' = s.m /\ cursor' \in Nat /\ head_hc' \in Nat /\ live' \in BOOLEAN /\ last_frame' \in Nat
      /\ UNCHANGED <<checkpoints, log, log_base>>
  BY <1>1 DEF Landed, HTypes
<1> QED BY <1>1, <1>2 DEF HTypes

\* What a branch keeps.
LEMMA KeptTypes ==
  ASSUME HTypes
  PROVE  /\ KeptCheckpoints \in Seq(Points) /\ Len(KeptCheckpoints) > 0
         /\ KeptLog \in Seq(Entries)
<1>1. PICK k \in 1..Len(checkpoints) : KeptCheckpoints = SubSeq(checkpoints, 1, k)
  BY KeptIs
<1>2. PICK l \in 0..Len(log) : KeptLog = SubSeq(log, 1, l)
  BY KeptIs
<1>3. k \in 0..Len(checkpoints) /\ 1 \in Nat \ {0} /\ 1 <= k
  BY TypesGive
<1>4. KeptCheckpoints \in Seq(Points) /\ Len(KeptCheckpoints) = (k - 1) + 1
  BY <1>1, <1>3, Piece DEF HTypes
<1>5. KeptLog \in Seq(Entries)
  BY <1>2, Piece DEF HTypes
<1> QED BY <1>3, <1>4, <1>5

\* The state keeps its shape.
LEMMA TypesHold ==
  ASSUME HTypes, [Next]_vars
  PROVE  HTypes'
<1>0. /\ machine \in Worlds /\ timeline \in Worlds /\ machine.hc \in Nat /\ timeline.hc \in Nat
      /\ midspan \in BOOLEAN /\ log_base \in Nat /\ head_hc \in Nat
  BY DEF HTypes, Worlds
<1>1. CASE StepLive
  <2>1. StepInstruction(machine) \in Worlds
    BY <1>0, Steps
  <2>2. OnLiveInstruction(StepInstruction(machine), checkpoints, log, last_frame)
    BY <1>1 DEF StepLive
  <2>3. /\ checkpoints' \in Seq(Points) /\ Len(checkpoints') > 0
        /\ log' \in Seq(Entries) /\ log_base' \in Nat /\ last_frame' \in Nat
    BY <2>1, <2>2, OnLiveTypes DEF HTypes
  <2> QED BY <1>1, <2>1, <2>3 DEF HTypes, StepLive
<1>2. CASE StepPast
  <2>1. Stepped(Here) \in Places
    BY TypesGive, Steps DEF Stepped, Places
  <2>2. CaughtUp(Book, Stepped(Here)) \in Places
    BY <2>1, TypesGive, Catches
  <2>3. midspan' \in BOOLEAN
    BY <1>2 DEF StepPast
  <2> QED BY <1>0, <1>2, <2>2, <2>3, LandedTypes DEF StepPast
<1>3. CASE \E value \in Inputs : Input(value)
  <2>1. PICK value \in Inputs : Input(value)
    BY <1>3
  <2>2. Apply(machine, value) \in Worlds
    BY <1>0, Applies
  <2>3. Stamped(value, 0) \in Entries
    BY <1>0 DEF Stamped, Entries
  <2>4. Append(KeptLog, Stamped(value, 0)) \in Seq(Entries)
    BY <2>3, KeptTypes, AppendProperties
  <2> QED BY <1>0, <2>1, <2>2, <2>4, KeptTypes, KeptIs DEF HTypes, Input
<1>4. CASE \E span \in RawSpans : Raw(span)
  <2>1. PICK span \in RawSpans : Raw(span)
    BY <1>4
  <2>2. span \in Nat
    BY RewindAssumption
  <2>3. Clock(machine, span) \in Worlds
    BY <1>0, <2>2, Clocks
  <2>4. Stamped("raw", span) \in Entries
    BY <1>0, <2>2 DEF Stamped, Entries
  <2>5. Append(KeptLog, Stamped("raw", span)) \in Seq(Entries)
    BY <2>4, KeptTypes, AppendProperties
  <2>6. OnLiveInstruction(Clock(machine, span), KeptCheckpoints, Append(KeptLog, Stamped("raw", span)), KeptFrame)
    BY <2>1 DEF Raw
  <2>7. /\ checkpoints' \in Seq(Points) /\ Len(checkpoints') > 0
        /\ log' \in Seq(Entries) /\ log_base' \in Nat /\ last_frame' \in Nat
    BY <1>0, <2>3, <2>5, <2>6, KeptTypes, OnLiveTypes
  <2> QED BY <2>1, <2>3, <2>7 DEF HTypes, Raw
<1>5. CASE GoBack
  <2>1. PICK target \in Boundaries(machine.hc) \cup {machine.hc, checkpoints[1].hc} :
          Landed(Land(target), IF live THEN machine.hc ELSE head_hc)
    BY <1>5 DEF GoBack
  <2>2. checkpoints[1].hc \in Nat
    <3>1. checkpoints[1] \in Points
      BY TypesGive DEF HTypes
    <3> QED BY <3>1 DEF Points
  <2>3. target \in Nat
    BY <1>0, <2>1, <2>2, SeenIs
  <2>4. Land(target) \in Places
    BY <2>3, LandIs, ReplayIs
  <2>5. timeline' \in Worlds /\ midspan' \in BOOLEAN
    BY <1>0, <1>5 DEF GoBack
  <2>6. (IF live THEN machine.hc ELSE head_hc) \in Nat
    BY <1>0
  <2> QED BY <2>1, <2>4, <2>5, <2>6, LandedTypes
<1>6. CASE ReturnToLive
  <2> DEFINE i == IF CheckpointBefore(machine.hc + 1) = {} THEN 1 ELSE Largest(CheckpointBefore(machine.hc + 1))
             s == Replay(i, head_hc)
  <2>1. machine.hc + 1 \in Nat
    BY <1>0
  <2>2. i \in 1..Len(checkpoints)
    BY <2>1, BeforeIs
  <2>3. machine' = s.m /\ last_frame' = Frame(s.m)
    BY <1>6 DEF ReturnToLive
  <2> HIDE DEF i
  <2>4. s \in Places
    BY <1>0, <2>2, ReplayIs
  <2>5. s.m \in Worlds /\ Frame(s.m) \in Nat
    BY <2>4, FrameIs DEF Places
  <2> QED BY <1>6, <2>3, <2>5 DEF HTypes, ReturnToLive
<1>7. CASE Restart
  <2>1. PICK hc \in {machine.hc, 0} : Start(Fresh(hc))
    BY <1>7 DEF Restart
  <2> DEFINE m == Fresh(hc)
  <2>2. m \in Worlds /\ m.hc \in Nat
    BY <1>0, EmptySeq DEF Fresh, Worlds
  <2>3. Start(m)
    BY <2>1
  <2> HIDE DEF m
  <2>4. Checkpoint(m, 0) \in Points /\ Frame(m) \in Nat
    BY <2>2, FrameIs DEF Checkpoint, Points
  <2>5. <<Checkpoint(m, 0)>> \in Seq(Points) /\ Len(<<Checkpoint(m, 0)>>) = 1 /\ <<>> \in Seq(Entries)
    BY <2>4, EmptySeq
  <2>6. checkpoints' \in Seq(Points) /\ Len(checkpoints') > 0 /\ log' \in Seq(Entries)
    BY <2>3, <2>5 DEF Start
  <2> QED BY <2>2, <2>3, <2>4, <2>6 DEF HTypes, Start
<1>8. CASE UNCHANGED vars
  BY <1>8 DEF HTypes, vars
<1> QED BY <1>1, <1>2, <1>3, <1>4, <1>5, <1>6, <1>7, <1>8 DEF Next

-----------------------------------------------------------------------------
(* Moving along the path.                                                  *)

\* At the log's end nothing is due.
LEMMA EndSettled ==
  ASSUME HTypes, NEW m
  PROVE  ~Due(Book, [m |-> m, cursor |-> LogEnd]) /\ Settled(Book, [m |-> m, cursor |-> LogEnd])
<1>1. LogEnd \notin DOMAIN Book
  BY TypesGive
<1> QED BY <1>1 DEF Due, Settled

LEMMA KeptGives ==
  ASSUME HTypes, Kept
  PROVE  /\ 1 \in 1..Len(checkpoints)
         /\ \A i \in 1..Len(checkpoints) :
              /\ Leads(Book, From(1), From(i)) /\ Leads(Book, From(i), End)
              /\ checkpoints[i].hc = From(i).m.hc
              /\ log_base <= From(i).cursor
              /\ checkpoints[i].hc <= machine.hc => Leads(Book, From(i), Here)
         /\ Leads(Book, From(1), Here) /\ Settled(Book, Here) /\ Leads(Book, Here, End)
         /\ Settled(Book, End) /\ ~Due(Book, End)
         /\ checkpoints[1].hc <= machine.hc /\ machine.hc <= timeline.hc
         /\ Here.cursor <= LogEnd /\ log_base <= Here.cursor
         /\ HeadHc = timeline.hc /\ Far(End) <= Turns
         /\ live => Here = End
<1>0. Len(checkpoints) \in Nat /\ 1 \in 1..Len(checkpoints)
  BY TypesGive DEF HTypes
<1>1. Leads(Book, From(1), Here) /\ Settled(Book, Here) /\ Leads(Book, Here, End)
  BY <1>0, TypesGive DEF Kept, Standing
<1>2. Settled(Book, End) /\ ~Due(Book, End)
  BY EndSettled DEF End
<1>3. ASSUME NEW i \in 1..Len(checkpoints)
      PROVE  /\ Leads(Book, From(1), From(i)) /\ Leads(Book, From(i), End)
             /\ checkpoints[i].hc = From(i).m.hc
  <2>1. Leads(Book, From(i), End) /\ checkpoints[i].hc = From(i).m.hc
    BY TypesGive DEF Kept, Chain, FromIn
  <2>2. i = 1 \/ 1 < i
    BY <1>0
  <2>3. From(i) \in Places /\ From(1) \in Places /\ From(i) = FromIn(checkpoints, i)
        /\ From(1) = FromIn(checkpoints, 1)
    BY <1>0, TypesGive
  <2>4. Leads(Book, From(1), From(i))
    BY <1>0, <2>2, <2>3, TypesGive, Path DEF Kept, Chain
  <2> QED BY <2>1, <2>4
<1>4. /\ machine.hc \in Nat /\ timeline.hc \in Nat /\ log_base \in Nat /\ cursor \in Nat
      /\ Here.m = machine /\ End.m = timeline /\ End.cursor = LogEnd
  BY DEF HTypes, Worlds, Here, End
<1>5. /\ From(1).m.hc <= machine.hc /\ machine.hc <= timeline.hc
      /\ Here.cursor <= LogEnd /\ From(1).cursor <= Here.cursor
  <2>1. From(1) \in Places /\ Here \in Places /\ IsBook(Book)
    BY <1>0, TypesGive
  <2>2. Here.m.hc >= From(1).m.hc /\ Here.cursor >= From(1).cursor
    BY <1>1, <2>1, Onward
  <2>3. End.m.hc >= Here.m.hc /\ End.cursor >= Here.cursor
    BY <1>1, <2>1, Onward
  <2> QED BY <1>4, <2>2, <2>3
<1>6. log_base <= From(1).cursor /\ From(1).cursor \in Nat
  BY <1>0, TypesGive DEF Kept, Chain, FromIn, Places
<1>7. ASSUME NEW i \in 1..Len(checkpoints) PROVE log_base <= From(i).cursor
  <2>1. From(1) \in Places /\ IsBook(Book) /\ Leads(Book, From(1), From(i)) /\ From(i) \in Places
    BY <1>0, <1>3, TypesGive
  <2>2. From(i).cursor >= From(1).cursor
    BY <2>1, Onward
  <2>3. From(i).cursor \in Nat
    BY <2>1 DEF Places
  <2> QED BY <1>4, <1>6, <2>2, <2>3
<1>8. ASSUME NEW i \in 1..Len(checkpoints), checkpoints[i].hc <= machine.hc
      PROVE  Leads(Book, From(i), Here)
  <2>1. From(1) \in Places /\ IsBook(Book) /\ From(i).m.hc <= Here.m.hc
    BY <1>0, <1>3, <1>4, <1>8, TypesGive
  <2>2. Leads(Book, From(1), From(i))
    BY <1>3
  <2>3. From(i).m.hc \in Nat
    <3>1. From(i) \in Places
      BY TypesGive
    <3> QED BY <3>1 DEF Places, Worlds
  <2> QED BY <1>1, <1>4, <2>1, <2>2, <2>3, Settles
<1>9. HeadHc = timeline.hc
  BY DEF Kept, HeadHc, HTypes
<1>10. Far(End) <= Turns
  <2>1. Far(End) = timeline.hc + LogEnd
    BY <1>4 DEF Far
  <2>2. InstrHc \in Nat /\ LogEnd \in Nat
    BY RewindAssumption, TypesGive
  <2> QED BY <1>4, <1>9, <2>1, <2>2 DEF Turns
<1>11. live => Here = End
  BY DEF Kept, Here, End
<1>12. Here.cursor \in Nat /\ From(1).cursor \in Nat /\ log_base <= Here.cursor
  <2>1. Here \in Places
    BY TypesGive
  <2>2. Here.cursor \in Nat
    BY <2>1 DEF Places
  <2> QED BY <1>4, <1>5, <1>6, <2>2
<1>13. checkpoints[1].hc <= machine.hc
  BY <1>0, <1>3, <1>5
<1> QED BY <1>0, <1>1, <1>2, <1>3, <1>5, <1>7, <1>8, <1>9, <1>10, <1>11, <1>12, <1>13

\* A place on the path, with no more due, that is as late as the end is the end.
LEMMA Arrives ==
  ASSUME HTypes, NEW s \in Places, Leads(Book, s, End), Settled(Book, s), s.m.hc >= timeline.hc
  PROVE  s = End
<1>1. IsBook(Book) /\ End \in Places /\ End.m.hc = timeline.hc
  BY TypesGive DEF End
<1>2. End.m.hc \in Nat /\ s.m.hc \in Nat
  BY <1>1 DEF Places, Worlds
<1>3. End = s \/ End.m.hc > s.m.hc
  BY <1>1, Onward
<1> QED BY <1>1, <1>2, <1>3

\* Landing on the path keeps what was kept.
LEMMA LandedKept ==
  ASSUME HTypes, Kept, NEW s \in Places, NEW head, Landed(s, head), head = timeline.hc,
         Leads(Book, From(1), s), Settled(Book, s), Leads(Book, s, End), timeline' = timeline
  PROVE  Kept'
<1>1. /\ Book' = Book /\ checkpoints' = checkpoints /\ log_base' = log_base /\ LogEnd' = LogEnd /\ End' = End
      /\ machine' = s.m
  BY DEF Landed, Book, LogEnd, End
<1>2. s = [m |-> s.m, cursor |-> s.cursor]
  BY DEF Places
<1>3. From(1) = FromIn(checkpoints, 1)
  BY TypesGive DEF HTypes
<1>4. CASE s.m.hc >= head /\ s.cursor >= LogEnd
  <2>1. s = End
    BY <1>4, Arrives
  <2>2. live' /\ Here' = End
    BY <1>1, <1>4, <2>1 DEF Landed, Here, End
  <2>3. machine' = timeline'
    BY <1>1, <2>1 DEF End
  <2> QED BY <1>1, <1>3, <2>1, <2>2, <2>3 DEF Kept, Standing
<1>5. CASE ~(s.m.hc >= head /\ s.cursor >= LogEnd)
  <2>1. ~live' /\ cursor' = s.cursor /\ head_hc' = head
    BY <1>5 DEF Landed
  <2>2. Here' = s
    BY <1>1, <1>2, <2>1 DEF Here
  <2> QED BY <1>1, <1>3, <1>5, <2>1, <2>2 DEF Kept, Standing
<1> QED BY <1>4, <1>5

\* A replay from a checkpoint to a time the timeline reaches lands on the path.
LEMMA ReplayLands ==
  ASSUME HTypes, Kept, NEW i \in 1..Len(checkpoints), NEW target \in Nat, target <= timeline.hc
  PROVE  LET s == Replay(i, target)
         IN /\ s \in Places /\ Leads(Book, From(1), s) /\ Leads(Book, s, End)
            /\ Settled(Book, s) /\ s.m.hc >= target
            /\ \A h : Leads(Book, From(i), h) /\ Stopped(Book, h, target) /\ Far(h) <= Turns =>
                        Leads(Book, s, h)
<1>1. From(i) \in Places /\ From(1) \in Places /\ IsBook(Book) /\ Turns \in Nat /\ End \in Places
  BY KeptGives, TypesGive
<1>2. Stopped(Book, End, target) /\ Leads(Book, From(i), End) /\ Far(End) <= Turns
  BY KeptGives DEF Stopped, End
<1> DEFINE s == Replay(i, target)
<1>3. /\ s \in Places /\ Leads(Book, From(i), s)
      /\ \A h : Leads(Book, From(i), h) /\ Stopped(Book, h, target) /\ Far(h) <= Turns =>
                  Leads(Book, s, h) /\ Stopped(Book, s, target)
  BY <1>1, RunStops DEF Replay, Replayed
<1> HIDE DEF s
<1>4. Leads(Book, s, End) /\ Stopped(Book, s, target)
  BY <1>2, <1>3
<1>5. Leads(Book, From(1), s)
  <2>1. Leads(Book, From(1), From(i))
    BY KeptGives
  <2> QED BY <1>1, <1>3, <2>1, Path
<1> QED BY <1>3, <1>4, <1>5 DEF Stopped, s

\* So does going back.
LEMMA GoBackKept ==
  ASSUME HTypes, Kept, GoBack
  PROVE  Kept'
<1>1. PICK target \in Boundaries(machine.hc) \cup {machine.hc, checkpoints[1].hc} :
        Landed(Land(target), IF live THEN machine.hc ELSE head_hc)
  BY DEF GoBack
<1>2. machine.hc \in Nat /\ timeline.hc \in Nat /\ checkpoints[1].hc \in Nat
  <2>1. checkpoints[1] \in Points
    BY TypesGive DEF HTypes
  <2> QED BY <2>1 DEF HTypes, Worlds, Points
<1>3. machine.hc <= timeline.hc /\ checkpoints[1].hc <= machine.hc
  BY KeptGives
<1>4. target \in Nat /\ target <= timeline.hc
  BY <1>1, <1>2, <1>3, SeenIs
<1>5. PICK i \in 1..Len(checkpoints) : Land(target) = Replay(i, target)
  BY <1>4, LandIs
<1> DEFINE s == Replay(i, target)
<1>6. s \in Places /\ Leads(Book, From(1), s) /\ Leads(Book, s, End) /\ Settled(Book, s)
  BY <1>4, ReplayLands
<1>7. (IF live THEN machine.hc ELSE head_hc) = timeline.hc
  BY KeptGives DEF HeadHc
<1>8. timeline' = timeline
  BY DEF GoBack
<1> HIDE DEF s
<1>9. Landed(s, timeline.hc)
  BY <1>1, <1>5, <1>7 DEF s
<1> QED BY <1>6, <1>8, <1>9, LandedKept

\* And an instruction in the past, unless there is a span to run.
LEMMA StepPastKept ==
  ASSUME HTypes, Kept, StepPast, ~midspan'
  PROVE  Kept'
<1>1. ~live /\ ~SpanDue /\ Landed(CaughtUp(Book, Stepped(Here)), head_hc) /\ timeline' = timeline
  BY DEF StepPast, HTypes
<1>2. ~Due(Book, Here)
  BY <1>1, KeptGives DEF SpanDue, Settled
<1>3. Here \in Places /\ From(1) \in Places /\ End \in Places /\ IsBook(Book) /\ Turns \in Nat
  BY TypesGive DEF HTypes
<1> DEFINE x == Stepped(Here)
<1>4. x = Turn(Book, Here) /\ x \in Places
  BY <1>2, <1>3, Turns1
<1>5. Here # End
  <2>1. SUFFICES ASSUME Here = End PROVE FALSE
    OBVIOUS
  <2>2. Here.m = machine /\ Here.cursor = cursor /\ End.m = timeline /\ End.cursor = LogEnd
    BY <1>1 DEF Here, End
  <2>3. machine = timeline /\ cursor = LogEnd
    BY <2>1, <2>2
  <2>4. machine.hc \in Nat /\ LogEnd \in Nat
    BY TypesGive DEF HTypes, Worlds
  <2> QED BY <1>1, <2>3, <2>4 DEF Kept
<1>6. Leads(Book, From(1), x) /\ Leads(Book, x, End)
  <2>1. Leads(Book, From(1), Here) /\ Leads(Book, Here, End)
    BY KeptGives
  <2>2. Leads(Book, From(1), Turn(Book, Here))
    BY <1>3, <2>1, Path
  <2>3. Leads(Book, Turn(Book, Here), End)
    BY <1>3, <1>5, <2>1, Onward
  <2> QED BY <1>4, <2>2, <2>3
<1> HIDE DEF x
<1> DEFINE s == CaughtUp(Book, x)
<1>7. /\ s \in Places /\ Leads(Book, x, s)
      /\ \A h : Leads(Book, x, h) /\ ~Due(Book, h) /\ Far(h) <= Turns =>
                  Leads(Book, s, h) /\ ~Due(Book, s)
  BY <1>3, <1>4, Catches
<1>8. Landed(s, head_hc)
  BY <1>1 DEF x
<1> HIDE DEF s
<1>9. Leads(Book, s, End) /\ ~Due(Book, s)
  BY <1>6, <1>7, KeptGives
<1>10. Leads(Book, From(1), s) /\ Settled(Book, s)
  BY <1>3, <1>6, <1>7, <1>9, Path DEF Settled
<1>11. head_hc = timeline.hc
  BY <1>1 DEF Kept
<1> QED BY <1>1, <1>7, <1>8, <1>9, <1>10, <1>11, LandedKept

\* Returning to live is back at the end of the timeline.
LEMMA ReturnKept ==
  ASSUME HTypes, Kept, ReturnToLive
  PROVE  Kept'
<1> DEFINE i == IF CheckpointBefore(machine.hc + 1) = {} THEN 1 ELSE Largest(CheckpointBefore(machine.hc + 1))
<1>1. i \in 1..Len(checkpoints)
  <2>1. machine.hc + 1 \in Nat
    BY DEF HTypes, Worlds
  <2> QED BY <2>1, BeforeIs
<1>2. machine' = Replay(i, head_hc).m
  BY DEF ReturnToLive
<1> HIDE DEF i
<1>3. head_hc = timeline.hc /\ timeline.hc \in Nat /\ timeline.hc <= timeline.hc
  BY DEF Kept, ReturnToLive, HTypes, Worlds
<1>4. Replay(i, head_hc) = End
  <2> DEFINE s == Replay(i, head_hc)
  <2>1. s \in Places /\ Leads(Book, s, End) /\ Settled(Book, s) /\ s.m.hc >= timeline.hc
    BY <1>1, <1>3, ReplayLands
  <2> HIDE DEF s
  <2>2. s = End
    BY <2>1, Arrives
  <2> QED BY <2>2 DEF s
<1>5. machine' = timeline
  BY <1>2, <1>4 DEF End
<1>6. /\ Book' = Book /\ checkpoints' = checkpoints /\ log_base' = log_base /\ LogEnd' = LogEnd /\ End' = End
      /\ timeline' = timeline /\ live'
  BY DEF ReturnToLive, Book, LogEnd, End
<1>7. Here' = End
  BY <1>5, <1>6 DEF Here, End
<1>8. From(1) = FromIn(checkpoints, 1) /\ 1 \in 1..Len(checkpoints)
  BY TypesGive DEF HTypes
<1>9. Leads(Book, From(1), End) /\ Settled(Book, End)
  BY <1>8, KeptGives
<1>10. Leads(Book, End, End)
  BY TypesGive, Path
<1> QED BY <1>5, <1>6, <1>7, <1>8, <1>9, <1>10 DEF Kept, Standing

-----------------------------------------------------------------------------
(* Recording.                                                              *)

\* A log without its beginning, which no path from here reads.
LEMMA Shorter ==
  ASSUME NEW b, IsBook(b), NEW c, IsBook(c), NEW lo \in Nat,
         DOMAIN c = {i \in DOMAIN b : i >= lo}, \A i \in DOMAIN c : c[i] = b[i],
         NEW x \in Places, x.cursor >= lo, NEW s, Leads(b, x, s)
  PROVE  Leads(c, x, s)
<1> SUFFICES ASSUME NEW q \in Places, Leads(b, x, q) PROVE Turn(c, q) = Turn(b, q)
  BY LeadsIn
<1>1. q.cursor >= lo
  <2>1. q.cursor >= x.cursor
    BY Onward
  <2>2. q.cursor \in Nat /\ x.cursor \in Nat
    BY DEF Places
  <2> QED BY <2>1, <2>2
<1>2. q.cursor \in DOMAIN c <=> q.cursor \in DOMAIN b
  BY <1>1
<1>3. Due(c, q) <=> Due(b, q)
  BY <1>2 DEF Due
<1>4. CASE Due(b, q)
  <2>1. c[q.cursor] = b[q.cursor]
    BY <1>2, <1>4 DEF Due
  <2> QED BY <1>3, <2>1 DEF Turn, InSpan, Clocked, Applied, Stepped
<1>5. CASE ~Due(b, q)
  BY <1>3, <1>5 DEF Turn, InSpan, Clocked, Applied, Stepped
<1> QED BY <1>4, <1>5

\* The same checkpoints later in a chain, and fewer of them.
LEMMA Dropped ==
  ASSUME NEW b, IsBook(b), NEW c, IsBook(c), NEW base \in Nat, NEW lo \in Nat, lo >= base,
         DOMAIN c = {i \in DOMAIN b : i >= lo}, \A i \in DOMAIN c : c[i] = b[i],
         NEW cps \in Seq(Points), NEW h, Chain(b, base, cps, h), NEW d \in 0..(Len(cps) - 1),
         lo = base \/ lo = cps[d + 1].log_index, lo >= cps[d + 1].log_index
  PROVE  Chain(c, lo, SubSeq(cps, d + 1, Len(cps)), h)
<1> DEFINE new == SubSeq(cps, d + 1, Len(cps))
<1>1. Len(cps) \in Nat /\ d \in Nat /\ d + 1 \in Nat \ {0} /\ Len(cps) \in 0..Len(cps) /\ d + 1 <= Len(cps)
  BY LenProperties
<1>2. Len(new) = (Len(cps) - (d + 1)) + 1 /\ \A i \in 1..((Len(cps) - (d + 1)) + 1) : new[i] = cps[((d + 1) + i) - 1]
  BY <1>1, Piece
<1>3. Len(new) = Len(cps) - d /\ \A i \in 1..(Len(cps) - d) : new[i] = cps[d + i] /\ d + i \in 1..Len(cps)
  BY <1>1, <1>2
<1> HIDE DEF new
<1>4. ASSUME NEW i \in 1..Len(new)
      PROVE  /\ d + i \in 1..Len(cps) /\ new[i] = cps[d + i]
             /\ FromIn(new, i) = FromIn(cps, d + i) /\ FromIn(new, i) \in Places
             /\ new[i].hc = new[i].state.hc
  <2>1. d + i \in 1..Len(cps) /\ new[i] = cps[d + i]
    BY <1>3
  <2>2. cps[d + i] \in Points
    BY <2>1, ElementOfSeq
  <2>3. FromIn(new, i) = FromIn(cps, d + i)
    BY <2>1 DEF FromIn
  <2>4. FromIn(cps, d + i) \in Places
    BY <2>2 DEF FromIn, Points, Places
  <2> QED BY <2>1, <2>3, <2>4 DEF Chain
<1>5. 1 \in 1..Len(new)
  BY <1>1, <1>3
<1>6. lo <= new[1].log_index /\ new[1].log_index \in Nat
  <2>1. new[1] = cps[d + 1] /\ cps[d + 1] \in Points
    BY <1>1, <1>4, <1>5, ElementOfSeq
  <2>2. cps[d + 1].log_index \in Nat
    BY <2>1 DEF Points
  <2>3. base <= cps[d + 1].log_index
    <3>1. 1 \in 1..Len(cps) /\ d + 1 \in 1..Len(cps) /\ (d + 1 = 1 \/ 1 < d + 1)
      BY <1>1
    <3>2. cps[1] \in Points /\ base <= cps[1].log_index
      BY <3>1, ElementOfSeq DEF Chain
    <3>3. FromIn(cps, 1) \in Places /\ FromIn(cps, 1).cursor = cps[1].log_index
          /\ FromIn(cps, d + 1).cursor = cps[d + 1].log_index
      BY <3>2 DEF FromIn, Points, Places
    <3>4. CASE d + 1 = 1
      BY <3>2, <3>4
    <3>5. CASE 1 < d + 1
      <4>1. Leads(b, FromIn(cps, 1), FromIn(cps, d + 1))
        BY <3>1, <3>5 DEF Chain
      <4>2. FromIn(cps, d + 1).cursor >= FromIn(cps, 1).cursor
        BY <3>3, <4>1, Onward
      <4>3. cps[1].log_index \in Nat
        BY <3>2 DEF Points
      <4> QED BY <2>2, <3>2, <3>3, <4>2, <4>3
    <3> QED BY <3>1, <3>4, <3>5
  <2> QED BY <2>1, <2>2, <2>3
<1>7. ASSUME NEW i \in 1..Len(new), NEW s, Leads(b, FromIn(new, i), s) PROVE Leads(c, FromIn(new, i), s)
  <2>1. FromIn(new, i).cursor >= lo
    <3>1. FromIn(new, i).cursor = new[i].log_index /\ FromIn(new, 1).cursor = new[1].log_index
      BY DEF FromIn
    <3>2. i = 1 \/ 1 < i
      OBVIOUS
    <3>3. CASE i = 1
      BY <1>6, <3>1, <3>3
    <3>4. CASE 1 < i
      <4>1. d + 1 < d + i /\ d + 1 \in 1..Len(cps) /\ d + i \in 1..Len(cps)
        BY <1>1, <1>4, <1>5, <3>4
      <4>2. Leads(b, FromIn(cps, d + 1), FromIn(cps, d + i))
        BY <4>1 DEF Chain
      <4>3. Leads(b, FromIn(new, 1), FromIn(new, i))
        BY <1>4, <1>5, <4>2
      <4>4. FromIn(new, i).cursor >= FromIn(new, 1).cursor
        BY <1>4, <1>5, <4>3, Onward
      <4>5. FromIn(new, i).cursor \in Nat
        BY <1>4 DEF Places
      <4> QED BY <1>6, <3>1, <4>4, <4>5
    <3> QED BY <3>2, <3>3, <3>4
  <2> QED BY <1>4, <1>7, <2>1, Shorter
<1>8. ASSUME NEW i \in 1..Len(new), NEW j \in 1..Len(new), i < j
      PROVE  Leads(c, FromIn(new, i), FromIn(new, j))
  <2>1. d + i < d + j /\ d + i \in 1..Len(cps) /\ d + j \in 1..Len(cps)
    BY <1>1, <1>4, <1>8
  <2>2. Leads(b, FromIn(cps, d + i), FromIn(cps, d + j))
    BY <2>1 DEF Chain
  <2>3. Leads(b, FromIn(new, i), FromIn(new, j))
    BY <1>4, <2>2
  <2> QED BY <1>7, <2>3
<1>9. ASSUME NEW i \in 1..Len(new) PROVE Leads(c, FromIn(new, i), h)
  <2>1. Leads(b, FromIn(new, i), h)
    BY <1>4 DEF Chain
  <2> QED BY <1>7, <2>1
<1>10. Chain(c, lo, new, h)
  BY <1>4, <1>6, <1>8, <1>9 DEF Chain
<1> QED BY <1>10 DEF new

\* Live at the end of a chain.
LEMMA LiveKept ==
  ASSUME NEW w \in Worlds, machine' = w, timeline' = w, live',
         checkpoints' \in Seq(Points), Len(checkpoints') > 0, log' \in Seq(Entries), log_base' \in Nat,
         Chain(BookOf(log', log_base'), log_base', checkpoints',
               [m |-> w, cursor |-> log_base' + Len(log')])
  PROVE  Kept'
<1> DEFINE b == BookOf(log', log_base')
           h == [m |-> w, cursor |-> log_base' + Len(log')]
<1>1. Book' = b /\ LogEnd' = log_base' + Len(log')
  BY DEF Book, BookOf, LogEnd
<1>2. IsBook(b) /\ DOMAIN b = log_base'..((log_base' + Len(log')) - 1) /\ log_base' + Len(log') \in Nat
  BY BookIs
<1>3. End' = h /\ Here' = h
  BY <1>1 DEF End, Here
<1>4. Chain(b, log_base', checkpoints', h)
  OBVIOUS
<1>5. Settled(b, h)
  <2>1. h.cursor \notin DOMAIN b
    BY <1>2
  <2> HIDE DEF b, h
  <2> QED BY <2>1 DEF Settled, Due
<1>6. h \in Places
  BY <1>2 DEF Places
<1>7. 1 \in 1..Len(checkpoints')
  BY LenProperties
<1> HIDE DEF b, h
<1>8. Leads(b, FromIn(checkpoints', 1), h)
  BY <1>4, <1>7 DEF Chain
<1>9. Leads(b, h, h)
  BY <1>2, <1>6, Path
<1>10. Standing(Book', checkpoints', End', Here')
  BY <1>1, <1>3, <1>5, <1>8, <1>9 DEF Standing
<1>11. Chain(Book', log_base', checkpoints', End')
  BY <1>1, <1>3, <1>4
<1> QED BY <1>10, <1>11 DEF Kept

\* Looking whether a frame has gone by, and taking a checkpoint if it has.
LEMMA OnLiveKept ==
  ASSUME NEW w \in Worlds, NEW cps \in Seq(Points), Len(cps) > 0, NEW lg \in Seq(Entries), NEW seen,
         log_base \in Nat, OnLiveInstruction(w, cps, lg, seen),
         Chain(BookOf(lg, log_base), log_base, cps, [m |-> w, cursor |-> log_base + Len(lg)]),
         machine' = w, timeline' = w, live'
  PROVE  Kept'
<1> DEFINE c == BookOf(lg, log_base)
           e == log_base + Len(lg)
           h == [m |-> w, cursor |-> e]
<1>0. /\ checkpoints' \in Seq(Points) /\ Len(checkpoints') > 0
      /\ log' \in Seq(Entries) /\ log_base' \in Nat
  BY OnLiveTypes
<1>1. IsBook(c) /\ DOMAIN c = log_base..(e - 1) /\ e \in Nat
      /\ \A i \in log_base..(e - 1) : i - log_base + 1 \in 1..Len(lg) /\ c[i] = lg[i - log_base + 1]
  BY BookIs
<1>2. CASE Frame(w) # seen /\ Frame(w) % CheckpointFrames = 0
  <2> DEFINE cp == Checkpoint(w, e)
             cps2 == Append(cps, cp)
  <2>1. w.hc \in Nat /\ Len(lg) \in Nat /\ Len(cps) \in Nat
    BY LenProperties DEF Worlds
  <2>2. cp \in Points /\ cp.hc = cp.state.hc /\ cp.state = w /\ cp.log_index = e
    BY <1>1, <2>1 DEF Checkpoint, Points
  <2>3. Trim(cps2, lg, w.hc)
    BY <1>2 DEF OnLiveInstruction
  <2>4. Chain(c, log_base, cps, h)
    OBVIOUS
  <2> HIDE DEF cp, c
  <2>5. cps2 \in Seq(Points) /\ Len(cps2) = Len(cps) + 1
        /\ \A i \in 1..Len(cps) : cps2[i] = cps[i]
    BY <2>2, AppendProperties
  <2>6. cps2[Len(cps) + 1] = cp
    BY <2>1, <2>2
  <2> HIDE DEF cps2
  <2>7. /\ \A i \in 1..Len(cps) : FromIn(cps2, i) = FromIn(cps, i)
        /\ FromIn(cps2, Len(cps) + 1) = h
    BY <2>2, <2>5, <2>6 DEF FromIn
  <2>8. h \in Places
    BY <1>1 DEF Places
  <2> HIDE DEF h
  <2>9. Chain(c, log_base, cps2, h)
    <3>1. ASSUME NEW i \in 1..Len(cps2), NEW j \in 1..Len(cps2), i < j
          PROVE  Leads(c, FromIn(cps2, i), FromIn(cps2, j))
      <4>1. i \in 1..Len(cps) /\ (j \in 1..Len(cps) \/ j = Len(cps) + 1)
        BY <2>1, <2>5, <3>1
      <4> QED BY <2>4, <2>7, <3>1, <4>1 DEF Chain
    <3>2. ASSUME NEW i \in 1..Len(cps2)
          PROVE  Leads(c, FromIn(cps2, i), h) /\ cps2[i].hc = cps2[i].state.hc
      <4>1. CASE i \in 1..Len(cps)
        BY <2>4, <2>5, <2>7, <4>1 DEF Chain
      <4>2. CASE i = Len(cps) + 1
        BY <1>1, <2>2, <2>6, <2>7, <2>8, <4>2, Path
      <4> QED BY <2>1, <2>5, <4>1, <4>2
    <3>3. log_base <= cps2[1].log_index
      <4>1. 1 \in 1..Len(cps)
        BY <2>1
      <4> QED BY <2>4, <2>5, <4>1 DEF Chain
    <3> QED BY <3>1, <3>2, <3>3 DEF Chain
  <2>10. Len(cps2) \in Nat /\ Len(cps2) > 0
    BY <2>1, <2>5
  <2>11. PICK d \in 0..(Len(cps2) - 1) :
           /\ checkpoints' = SubSeq(cps2, d + 1, Len(cps2))
           /\ log_base' \in {log_base, cps2[d + 1].log_index}
           /\ log_base' >= cps2[d + 1].log_index
    BY <2>1, <2>3, <2>5, <2>10, TrimIs
  <2>12. log_base' \in Nat /\ log_base' >= log_base
    BY <2>1, <2>3, <2>5, <2>10, TrimIs
  <2>13. log' = SubSeq(lg, (log_base' - log_base) + 1, Len(lg))
    BY <2>1, <2>3, <2>5, <2>10, TrimIs
  <2> DEFINE lo == log_base'
  <2>14. lo <= e
    <3>1. d + 1 \in 1..Len(cps2)
      BY <2>10
    <3>2. Leads(c, FromIn(cps2, d + 1), h)
      BY <2>9, <3>1 DEF Chain
    <3>3. cps2[d + 1] \in Points
      BY <2>5, <3>1, ElementOfSeq
    <3>4. FromIn(cps2, d + 1) \in Places /\ FromIn(cps2, d + 1).cursor = cps2[d + 1].log_index
      BY <3>3 DEF FromIn, Points, Places
    <3>5. h.cursor >= cps2[d + 1].log_index
      BY <1>1, <3>2, <3>4, Onward
    <3>6. h.cursor = e /\ e >= log_base
      BY <2>1 DEF h
    <3> QED BY <2>11, <3>5, <3>6
  <2>15. /\ log' \in Seq(Entries) /\ lo + Len(log') = e
         /\ \A i \in 1..(e - lo) : log'[i] = lg[((lo - log_base) + i)]
    <3> DEFINE m == (lo - log_base) + 1
    <3>1. m \in Nat \ {0}
      <4>1. \A n \in Nat : n >= log_base => (n - log_base) + 1 \in Nat \ {0}
        OBVIOUS
      <4> QED BY <2>12, <4>1
    <3>2. Len(lg) \in 0..Len(lg)
      BY <2>1
    <3>3. log' = SubSeq(lg, m, Len(lg))
      BY <2>13
    <3> HIDE DEF m
    <3>4. /\ log' \in Seq(Entries)
          /\ Len(log') = IF m <= Len(lg) THEN (Len(lg) - m) + 1 ELSE 0
          /\ \A i \in 1..((Len(lg) - m) + 1) : log'[i] = lg[(m + i) - 1]
      BY <3>1, <3>2, <3>3, Piece
    <3>5. (Len(lg) - m) + 1 = e - lo
      BY <2>1, <2>12 DEF m
    <3>6. Len(log') = e - lo
      BY <2>1, <2>12, <2>14, <3>4, <3>5 DEF m
    <3>7. ASSUME NEW i \in 1..(e - lo) PROVE log'[i] = lg[(lo - log_base) + i]
      <4>1. (m + i) - 1 = (lo - log_base) + i
        BY <2>12 DEF m
      <4> QED BY <3>4, <3>5, <4>1
    <3>8. lo + Len(log') = e
      <4>1. lo \in Nat /\ e \in Nat
        BY <1>1, <2>12
      <4> HIDE DEF lo, e
      <4> QED BY <3>6, <4>1
    <3>9. \A i \in 1..(e - lo) : log'[i] = lg[(lo - log_base) + i]
      BY <3>7
    <3> HIDE DEF lo, e
    <3> QED BY <3>4, <3>8, <3>9
  <2> DEFINE c2 == BookOf(log', lo)
  <2>16. IsBook(c2) /\ DOMAIN c2 = lo..(e - 1)
         /\ \A i \in lo..(e - 1) : c2[i] = log'[i - lo + 1]
    <3>1. lo + Len(log') = e
      BY <2>15
    <3>2. /\ IsBook(c2) /\ DOMAIN c2 = lo..((lo + Len(log')) - 1)
          /\ \A i \in lo..((lo + Len(log')) - 1) : c2[i] = log'[i - lo + 1]
      BY <2>12, <1>0, BookIs
    <3> HIDE DEF c2, lo, e
    <3> QED BY <3>1, <3>2
  <2> HIDE DEF c2
  <2>17. DOMAIN c2 = {i \in DOMAIN c : i >= lo}
    BY <1>1, <2>12, <2>14, <2>16 DEF c
  <2>18. ASSUME NEW i \in DOMAIN c2 PROVE c2[i] = c[i]
    <3>1. i \in lo..(e - 1) /\ i \in log_base..(e - 1)
      BY <2>12, <2>16
    <3>2. i - lo + 1 \in 1..(e - lo) /\ (lo - log_base) + (i - lo + 1) = i - log_base + 1
      BY <1>1, <2>12, <3>1
    <3>3. c[i] = lg[i - log_base + 1]
      BY <1>1, <3>1 DEF c
    <3> QED BY <2>15, <2>16, <3>1, <3>2, <3>3
  <2>19. IsBook(c)
    BY <1>1 DEF c
  <2>20. Chain(c2, lo, SubSeq(cps2, d + 1, Len(cps2)), h)
    <3> HIDE DEF lo
    <3>1. lo \in Nat /\ lo >= log_base /\ (lo = log_base \/ lo = cps2[d + 1].log_index)
          /\ lo >= cps2[d + 1].log_index
      BY <2>11, <2>12 DEF lo
    <3> QED BY <2>5, <2>9, <2>16, <2>17, <2>18, <2>19, <3>1, Dropped
  <2>21. h = [m |-> w, cursor |-> log_base' + Len(log')]
    BY <2>15 DEF h
  <2>22. Chain(BookOf(log', log_base'), log_base', checkpoints', [m |-> w, cursor |-> log_base' + Len(log')])
    BY <2>11, <2>20, <2>21 DEF c2
  <2> QED BY <1>0, <2>22, LiveKept
<1>3. CASE ~(Frame(w) # seen /\ Frame(w) % CheckpointFrames = 0)
  <2>1. checkpoints' = cps /\ log' = lg /\ log_base' = log_base
    BY <1>3 DEF OnLiveInstruction
  <2> QED BY <1>0, <2>1, LiveKept
<1> QED BY <1>2, <1>3

\* A live instruction.
LEMMA StepLiveKept ==
  ASSUME HTypes, Kept, StepLive
  PROVE  Kept'
<1> DEFINE w == StepInstruction(machine)
           h == [m |-> w, cursor |-> LogEnd]
<1>1. live /\ machine' = w /\ timeline' = w /\ live'
      /\ OnLiveInstruction(w, checkpoints, log, last_frame)
  BY DEF StepLive
<1>2. w \in Worlds
  BY Steps DEF HTypes
<1>3. h = Turn(Book, End)
  <2>1. ~Due(Book, Here) /\ Here = End
    BY <1>1, KeptGives
  <2>2. Turn(Book, Here) = Stepped(Here)
    BY <2>1, TypesGive, Turns1
  <2>3. Stepped(Here) = h
    BY <1>1 DEF Stepped, Here
  <2> QED BY <2>1, <2>2, <2>3
<1> HIDE DEF h, w
<1>4. Chain(Book, log_base, checkpoints, h)
  <2>1. ASSUME NEW i \in 1..Len(checkpoints)
        PROVE  Leads(Book, FromIn(checkpoints, i), h)
    <3>1. Leads(Book, From(i), End) /\ From(i) \in Places /\ From(i) = FromIn(checkpoints, i) /\ IsBook(Book)
      BY KeptGives, TypesGive
    <3> QED BY <1>3, <3>1, Path
  <2> QED BY <2>1 DEF Kept, Chain
<1>5. Book = BookOf(log, log_base) /\ LogEnd = log_base + Len(log)
  BY TypesGive
<1> QED BY <1>1, <1>2, <1>4, <1>5, OnLiveKept DEF HTypes, h

\* The log after something new is logged: what was not yet applied is gone.
LEMMA NewBook ==
  ASSUME HTypes, Kept, NEW e \in Entries
  PROVE  LET c == BookOf(Append(KeptLog, e), log_base)
         IN /\ Append(KeptLog, e) \in Seq(Entries)
            /\ log_base + Len(Append(KeptLog, e)) = Here.cursor + 1
            /\ IsBook(c) /\ DOMAIN c = log_base..Here.cursor
            /\ \A i \in log_base..(Here.cursor - 1) : i \in DOMAIN Book /\ c[i] = Book[i]
            /\ c[Here.cursor] = e
<1> DEFINE g == Append(KeptLog, e)
           at == Here.cursor
           c == BookOf(g, log_base)
<1>1. log_base \in Nat /\ at \in Nat /\ log_base <= at /\ at <= LogEnd /\ LogEnd = log_base + Len(log)
      /\ Len(log) \in Nat /\ LogEnd \in Nat
  <2>1. Here \in Places
    BY TypesGive
  <2>2. at \in Nat
    BY <2>1 DEF Places
  <2> QED BY <2>2, TypesGive, KeptGives, LenProperties DEF HTypes
<1>2. KeptLog = SubSeq(log, 1, at - log_base) /\ at - log_base \in 0..Len(log)
  <2>1. PICK k \in 0..Len(log) :
          /\ KeptLog = SubSeq(log, 1, k)
          /\ live => k = Len(log)
          /\ ~live => \A j \in 0..Len(log) : log_base + j <= cursor => j <= k
          /\ ~live => k = 0 \/ log_base + k <= cursor
    BY KeptIs
  <2>2. CASE live
    <3>1. at = LogEnd
      BY <2>2 DEF Here
    <3> QED BY <1>1, <2>1, <2>2, <3>1
  <2>3. CASE ~live
    <3>1. at = cursor
      BY <2>3 DEF Here
    <3>2. at - log_base \in 0..Len(log) /\ log_base + (at - log_base) <= at
      BY <1>1
    <3>3. at - log_base <= k
      BY <2>1, <2>3, <3>1, <3>2
    <3>4. k = 0 \/ log_base + k <= at
      BY <2>1, <2>3, <3>1
    <3>5. k = at - log_base
      BY <1>1, <3>2, <3>3, <3>4
    <3> QED BY <2>1, <3>2, <3>5
  <2> QED BY <2>2, <2>3
<1> HIDE DEF at
<1> DEFINE n == at - log_base
<1>3. /\ KeptLog \in Seq(Entries) /\ Len(KeptLog) = n
      /\ \A i \in 1..n : KeptLog[i] = log[i]
  <2>1. 1 \in Nat \ {0} /\ n \in 0..Len(log) /\ n \in Nat /\ log \in Seq(Entries) /\ KeptLog = SubSeq(log, 1, n)
    BY <1>1, <1>2 DEF HTypes
  <2> HIDE DEF n
  <2>2. /\ KeptLog \in Seq(Entries)
        /\ Len(KeptLog) = IF 1 <= n THEN (n - 1) + 1 ELSE 0
        /\ \A i \in 1..((n - 1) + 1) : KeptLog[i] = log[(1 + i) - 1]
    BY <2>1, Piece
  <2>3. Len(KeptLog) = n
    BY <2>1, <2>2
  <2>4. ASSUME NEW i \in 1..n PROVE KeptLog[i] = log[i]
    <3>1. i \in 1..((n - 1) + 1) /\ (1 + i) - 1 = i
      BY <2>1
    <3> QED BY <2>2, <3>1
  <2> QED BY <2>2, <2>3, <2>4
<1>4. n \in Nat /\ n <= Len(log)
  BY <1>1, <1>2
<1>5. /\ g \in Seq(Entries) /\ Len(g) = n + 1 /\ g[n + 1] = e
      /\ \A i \in 1..n : g[i] = log[i]
  <2> HIDE DEF n
  <2>1. g \in Seq(Entries) /\ Len(g) = Len(KeptLog) + 1 /\ g[Len(KeptLog) + 1] = e
        /\ \A i \in 1..Len(KeptLog) : g[i] = KeptLog[i]
    BY <1>3, AppendProperties
  <2> HIDE DEF g
  <2> QED BY <1>3, <2>1
<1> HIDE DEF g
<1>6. log_base + Len(g) = at + 1
  BY <1>1, <1>5
<1>7. /\ IsBook(c) /\ DOMAIN c = log_base..((log_base + Len(g)) - 1)
      /\ \A i \in log_base..((log_base + Len(g)) - 1) : c[i] = g[i - log_base + 1]
  BY <1>1, <1>5, BookIs
<1> HIDE DEF c
<1>8. DOMAIN c = log_base..at /\ \A i \in log_base..at : c[i] = g[i - log_base + 1]
  <2>1. (at + 1) - 1 = at
    BY <1>1
  <2> QED BY <1>6, <1>7, <2>1
<1>9. c[at] = e
  <2>1. at \in log_base..at /\ at - log_base + 1 = n + 1
    BY <1>1
  <2> QED BY <1>5, <1>8, <2>1
<1>10. ASSUME NEW i \in log_base..(at - 1) PROVE i \in DOMAIN Book /\ c[i] = Book[i]
  <2>1. i \in log_base..at /\ i \in log_base..(LogEnd - 1) /\ i - log_base + 1 \in 1..n
    BY <1>1
  <2>2. c[i] = log[i - log_base + 1]
    BY <1>5, <1>8, <2>1
  <2>3. Book[i] = log[i - log_base + 1] /\ DOMAIN Book = log_base..(LogEnd - 1)
    BY <2>1 DEF Book
  <2> QED BY <2>1, <2>2, <2>3
<1> QED BY <1>5, <1>6, <1>7, <1>8, <1>9, <1>10 DEF at, g, c

\* A path to where the machine is does not read what is new: only part of a
\* raw span, which is cut short here, could tell.
LEMMA Branched ==
  ASSUME HTypes, Kept, ~SpanPartRun, NEW e \in Entries, e.hc = machine.hc,
         NEW x \in Places, log_base <= x.cursor, NEW s, Leads(Book, x, s), Leads(Book, s, Here)
  PROVE  Leads(BookOf(Append(KeptLog, e), log_base), x, s)
<1> DEFINE c == BookOf(Append(KeptLog, e), log_base)
           at == Here.cursor
<1>1. /\ IsBook(c) /\ DOMAIN c = log_base..at
      /\ \A i \in log_base..(at - 1) : i \in DOMAIN Book /\ c[i] = Book[i]
      /\ c[at] = e
  BY NewBook
<1> HIDE DEF c
<1>2. IsBook(Book) /\ Here \in Places /\ s \in Places /\ Here.m = machine /\ Settled(Book, Here)
  BY TypesGive, KeptGives, Path DEF Here
<1> SUFFICES ASSUME NEW q \in Places, Leads(Book, x, q), Leads(Book, q, s), q # s
             PROVE  Turn(c, q) = Turn(Book, q)
  BY <1>1, <1>2, LeadsIn DEF c
<1>3. /\ q.cursor \in Nat /\ q.m.hc \in Nat /\ at \in Nat /\ machine.hc \in Nat
      /\ log_base \in Nat /\ x.cursor \in Nat
      /\ Far(q) \in Nat /\ Far(s) \in Nat /\ Far(Here) \in Nat
  BY <1>2, FarIs DEF Places, Worlds, HTypes
<1>4. Leads(Book, q, Here)
  BY <1>2, Path
<1>5. q # Here
  <2>1. SUFFICES ASSUME q = Here PROVE FALSE
    OBVIOUS
  <2>2. Far(s) > Far(Here) /\ (Here = s \/ Far(Here) > Far(s))
    BY <1>2, <2>1, Onward
  <2> QED BY <1>3, <2>1, <2>2
<1>6. q.cursor >= x.cursor /\ machine.hc >= q.m.hc /\ at >= q.cursor /\ Far(Here) > Far(q)
      /\ Leads(Book, Turn(Book, q), Here)
  BY <1>2, <1>4, <1>5, Onward
<1>7. CASE q.cursor # at
  <2>1. q.cursor \in log_base..(at - 1) /\ q.cursor \in log_base..at
    BY <1>3, <1>6, <1>7
  <2>2. q.cursor \in DOMAIN Book /\ q.cursor \in DOMAIN c /\ c[q.cursor] = Book[q.cursor]
    BY <1>1, <2>1
  <2> QED BY <2>2 DEF Turn, InSpan, Due, Clocked, Applied, Stepped
<1>8. CASE q.cursor = at
  <2>1. q.m.hc < machine.hc
    <3>1. machine.hc + at > q.m.hc + at
      BY <1>2, <1>6, <1>8 DEF Far
    <3> HIDE DEF at
    <3> QED BY <1>3, <3>1
  <2>2. ~Due(c, q)
    BY <1>1, <1>3, <1>8, <2>1 DEF Due
  <2>3. ~Due(Book, q)
    <3>1. SUFFICES ASSUME Due(Book, q) PROVE FALSE
      OBVIOUS
    <3>2. CASE InSpan(Book, q)
      <4>1. at \in DOMAIN Book /\ Book[at] \in Entries /\ Book[at].hc <= q.m.hc
        BY <1>2, <1>8, <3>1 DEF Due, IsBook
      <4>2. Book[at].hc \in Nat
        BY <4>1 DEF Entries
      <4>3. Book[at].hc < machine.hc /\ Book[at].hc <= machine.hc
        BY <1>3, <2>1, <4>1, <4>2
      <4>4. Due(Book, Here)
        BY <1>2, <4>1, <4>3 DEF Due
      <4>5. SpanDue
        BY <1>2, <4>4 DEF Settled, SpanDue
      <4> QED BY <4>3, <4>5 DEF SpanPartRun
    <3>3. CASE ~InSpan(Book, q)
      <4>1. Turn(Book, q).cursor = at + 1
        BY <1>8, <3>1, <3>3 DEF Turn, Applied
      <4>2. Turn(Book, q) \in Places
        BY <1>2, Turns1
      <4>3. at >= Turn(Book, q).cursor
        BY <1>2, <1>6, <4>2, Onward
      <4> QED BY <1>3, <4>1, <4>3
    <3> QED BY <3>2, <3>3
  <2> QED BY <1>1, <1>2, <2>2, <2>3, Turns1
<1> QED BY <1>7, <1>8

\* The checkpoints kept lead to here, and on through what is new.
LEMMA BranchChain ==
  ASSUME HTypes, Kept, ~SpanPartRun, NEW e \in Entries, e.hc = machine.hc,
         NEW h, Leads(BookOf(Append(KeptLog, e), log_base), Here, h)
  PROVE  Chain(BookOf(Append(KeptLog, e), log_base), log_base, KeptCheckpoints, h)
<1> DEFINE c == BookOf(Append(KeptLog, e), log_base)
           new == KeptCheckpoints
<1>1. IsBook(Book) /\ Here \in Places /\ Len(checkpoints) \in Nat /\ 1 \in 1..Len(checkpoints)
  BY TypesGive, KeptGives
<1>2. PICK k \in 1..Len(checkpoints) :
        /\ new = SubSeq(checkpoints, 1, k)
        /\ live => k = Len(checkpoints)
        /\ ~live => k = 1 \/ checkpoints[k].hc <= machine.hc
  BY KeptIs
<1>3. Len(new) = k /\ \A i \in 1..k : new[i] = checkpoints[i]
  <2>1. 1 \in Nat \ {0} /\ k \in 0..Len(checkpoints) /\ k \in Nat /\ 1 <= k
    BY <1>1
  <2> HIDE DEF new
  <2>2. /\ Len(new) = IF 1 <= k THEN (k - 1) + 1 ELSE 0
        /\ \A i \in 1..((k - 1) + 1) : new[i] = checkpoints[(1 + i) - 1]
    BY <1>2, <2>1, Piece DEF HTypes
  <2>3. Len(new) = k
    BY <2>1, <2>2
  <2>4. ASSUME NEW i \in 1..k PROVE new[i] = checkpoints[i]
    <3>1. i \in 1..((k - 1) + 1) /\ (1 + i) - 1 = i
      BY <2>1
    <3> QED BY <2>2, <3>1
  <2> QED BY <2>3, <2>4
<1> HIDE DEF c, new
<1>4. ASSUME NEW i \in 1..Len(new)
      PROVE  /\ i \in 1..Len(checkpoints) /\ new[i] = checkpoints[i]
             /\ FromIn(new, i) = From(i) /\ From(i) = FromIn(checkpoints, i) /\ From(i) \in Places
             /\ log_base <= From(i).cursor
  <2>1. i \in 1..Len(checkpoints) /\ new[i] = checkpoints[i]
    BY <1>1, <1>3
  <2>2. From(i) = FromIn(checkpoints, i) /\ From(i) \in Places
    BY <2>1, TypesGive
  <2>3. log_base <= From(i).cursor
    BY <2>1, KeptGives
  <2> QED BY <2>1, <2>2, <2>3 DEF FromIn
<1>5. ASSUME NEW i \in 1..Len(new), NEW j \in 1..Len(new), i < j
      PROVE  Leads(Book, From(i), From(j))
  BY <1>4, <1>5 DEF Kept, Chain
<1>6. Leads(Book, From(k), Here)
  <2>1. CASE live
    BY <2>1, KeptGives
  <2>2. CASE ~live
    BY <1>2, <2>2, KeptGives
  <2> QED BY <2>1, <2>2
<1>7. ASSUME NEW i \in 1..Len(new) PROVE Leads(Book, From(i), Here)
  <2>1. i = k \/ (i < k /\ k \in 1..Len(new))
    BY <1>1, <1>3
  <2>2. CASE i = k
    BY <1>6, <2>2
  <2>3. CASE i < k /\ k \in 1..Len(new)
    <3>1. Leads(Book, From(i), From(k))
      BY <1>5, <2>3
    <3> QED BY <1>1, <1>4, <1>6, <3>1, Path
  <2> QED BY <2>1, <2>2, <2>3
<1>8. ASSUME NEW i \in 1..Len(new), NEW j \in 1..Len(new), i < j
      PROVE  Leads(c, FromIn(new, i), FromIn(new, j))
  <2>1. Leads(c, From(i), From(j))
    BY <1>4, <1>5, <1>7, <1>8, Branched DEF c
  <2> QED BY <1>4, <2>1
<1>9. IsBook(c)
  BY NewBook DEF c
<1>10. ASSUME NEW i \in 1..Len(new) PROVE Leads(c, FromIn(new, i), h)
  <2>1. Leads(Book, Here, Here)
    BY <1>1, Path
  <2>2. Leads(c, From(i), Here)
    BY <1>4, <1>7, <2>1, Branched DEF c
  <2>3. Leads(c, Here, h)
    BY DEF c
  <2>4. Leads(c, From(i), h)
    BY <1>4, <1>9, <2>2, <2>3, Path
  <2> QED BY <1>4, <2>4
<1>11. ASSUME NEW i \in 1..Len(new) PROVE new[i].hc = new[i].state.hc
  BY <1>4 DEF Kept, Chain
<1>12. log_base <= new[1].log_index
  <2>1. 1 \in 1..Len(new)
    BY <1>1, <1>3
  <2> QED BY <1>4, <2>1 DEF FromIn
<1>13. Chain(c, log_base, new, h)
  BY <1>8, <1>10, <1>11, <1>12 DEF Chain
<1> QED BY <1>13 DEF c, new

\* An input.
LEMMA InputKept ==
  ASSUME HTypes, Kept, HTypes', NEW value \in Inputs, Input(value), ~midspan'
  PROVE  Kept'
<1> DEFINE e == Stamped(value, 0)
           c == BookOf(Append(KeptLog, e), log_base)
           w == Apply(machine, value)
           h == [m |-> w, cursor |-> Here.cursor + 1]
<1>1. /\ machine' = w /\ timeline' = w /\ live' /\ checkpoints' = KeptCheckpoints
      /\ log' = Append(KeptLog, e) /\ log_base' = log_base /\ ~SpanPartRun
  BY DEF Input, HTypes
<1>2. /\ machine \in Worlds /\ machine.hc \in Nat /\ log_base \in Nat /\ Here \in Places /\ Here.cursor \in Nat
      /\ Here.m = machine
  BY TypesGive DEF HTypes, Worlds, Places, Here
<1>3. e \in Entries /\ e.hc = machine.hc /\ e.input = value
  BY <1>2 DEF Stamped, Entries
<1>4. w \in Worlds
  BY <1>2, Applies
<1> HIDE DEF e
<1>5. /\ Append(KeptLog, e) \in Seq(Entries)
      /\ log_base + Len(Append(KeptLog, e)) = Here.cursor + 1
      /\ IsBook(c) /\ DOMAIN c = log_base..Here.cursor /\ c[Here.cursor] = e
  BY <1>3, NewBook
<1> HIDE DEF c
<1>6. Turn(c, Here) = h
  <2>1. log_base <= Here.cursor
    BY KeptGives
  <2>2. Here.cursor \in DOMAIN c
    BY <1>2, <1>5, <2>1
  <2>3. Due(c, Here)
    BY <1>2, <1>3, <1>5, <2>2 DEF Due
  <2>4. e.input # "raw"
    BY <1>3, RewindAssumption
  <2>5. ~InSpan(c, Here)
    BY <1>5, <2>4 DEF InSpan
  <2>6. Applied(c, Here) = h
    BY <1>2, <1>3, <1>5, <2>4 DEF Applied
  <2> QED BY <2>3, <2>5, <2>6 DEF Turn
<1>7. Leads(c, Here, h)
  BY <1>2, <1>5, <1>6, Path
<1> HIDE DEF h, w
<1>8. Chain(c, log_base, KeptCheckpoints, h)
  BY <1>1, <1>3, <1>7, BranchChain DEF c
<1>9. h = [m |-> w, cursor |-> log_base' + Len(log')]
  BY <1>1, <1>5 DEF h
<1>10. Chain(BookOf(log', log_base'), log_base', checkpoints', [m |-> w, cursor |-> log_base' + Len(log')])
  BY <1>1, <1>8, <1>9 DEF c
<1> QED BY <1>1, <1>4, <1>10, LiveKept DEF HTypes

\* Saying the same once more.
Only(a, x, n) == a \in Seq(Deeds) /\ Len(a) = n /\ \A j \in 1..n : a[j] = x

LEMMA OnceMore ==
  ASSUME NEW d \in Seq(Deeds), NEW k \in Nat, NEW x, NEW a, NEW b, NEW e,
         Only(a, x, k), Only(b, x, 1), Only(e, x, k + 1)
  PROVE  (d \o a) \o b = d \o e
<1> DEFINE ab == a \o b
<1>0. /\ a \in Seq(Deeds) /\ Len(a) = k /\ \A j \in 1..k : a[j] = x
      /\ b \in Seq(Deeds) /\ Len(b) = 1 /\ \A j \in 1..1 : b[j] = x
      /\ e \in Seq(Deeds) /\ Len(e) = k + 1 /\ \A j \in 1..(k + 1) : e[j] = x
  BY DEF Only
<1>1. ab \in Seq(Deeds) /\ Len(ab) = Len(a) + Len(b)
      /\ \A j \in 1..(Len(a) + Len(b)) : ab[j] = IF j <= Len(a) THEN a[j] ELSE b[j - Len(a)]
  BY <1>0, ConcatProperties
<1>2. (d \o a) \o b = d \o ab
  BY <1>0, ConcatAssociative
<1> HIDE DEF ab
<1>3. Len(ab) = k + 1
  BY <1>0, <1>1
<1>4. ASSUME NEW j \in 1..(k + 1) PROVE ab[j] = e[j]
  <2>1. j <= k \/ j = k + 1
    OBVIOUS
  <2>2. CASE j <= k
    BY <1>0, <1>1, <2>2
  <2>3. CASE j = k + 1
    <3>1. j - k = 1 /\ ~(j <= k) /\ j \in 1..(Len(a) + Len(b)) /\ 1 \in 1..1
      BY <1>0, <2>3
    <3>2. ab[j] = b[j - k]
      BY <1>0, <1>1, <3>1
    <3> QED BY <1>0, <3>1, <3>2
  <2> QED BY <2>1, <2>2, <2>3
<1>5. ab = e
  BY <1>0, <1>1, <1>3, <1>4, SeqEqual
<1> QED BY <1>2, <1>5

\* Clocks one after the other.
LEMMA ClockOn ==
  ASSUME NEW m \in Worlds, NEW k \in Nat
  PROVE  Clock(m, 0) = m /\ Clock(Clock(m, k), 1) = Clock(m, k + 1)
<1> DEFINE C(n) == [j \in 1..n |-> "c"]
<1>1. \A v, w \in Worlds : v.from = w.from /\ v.hc = w.hc /\ v.did = w.did => v = w
  <2> DEFINE D == Seq(Deeds)
  <2> HIDE DEF D
  <2>1. \A v, w \in [from : Nat, hc : Nat, did : D] :
          v.from = w.from /\ v.hc = w.hc /\ v.did = w.did => v = w
    OBVIOUS
  <2> QED BY <2>1 DEF D, Worlds
<1>2. m.did \in Seq(Deeds) /\ m.hc \in Nat
  BY DEF Worlds
<1>3. \A n \in Nat : C(n) \in Seq(Deeds) /\ Len(C(n)) = n /\ \A j \in 1..n : C(n)[j] = "c"
  <2> TAKE n \in Nat
  <2>1. C(n) \in Seq(Deeds)
    BY IsASeq DEF Deeds
  <2>2. DOMAIN C(n) = 1..n
    OBVIOUS
  <2>3. Len(C(n)) = n
    BY <2>1, <2>2, LenProperties
  <2> QED BY <2>1, <2>3
<1>4. Clock(m, 0) = m
  <2>1. C(0) = <<>>
    BY <1>3, EmptySeq
  <2>2. m.did \o C(0) = m.did
    BY <1>2, <2>1, ConcatEmptySeq
  <2>3. m.hc + 0 = m.hc
    BY <1>2
  <2> QED BY <1>1, <2>2, <2>3, Clocks
<1>5. Clock(Clock(m, k), 1) = Clock(m, k + 1)
  <2> DEFINE v == Clock(m, k)
  <2>1. v \in Worlds /\ v.from = m.from /\ v.hc = m.hc + k /\ v.did = m.did \o C(k)
    BY Clocks
  <2>2. Clock(v, 1) \in Worlds /\ Clock(v, 1).from = v.from /\ Clock(v, 1).hc = v.hc + 1
        /\ Clock(v, 1).did = v.did \o C(1)
    BY <2>1, Clocks
  <2>3. Clock(m, k + 1) \in Worlds /\ Clock(m, k + 1).from = m.from /\ Clock(m, k + 1).hc = m.hc + (k + 1)
        /\ Clock(m, k + 1).did = m.did \o C(k + 1)
    <3>1. k + 1 \in Nat
      OBVIOUS
    <3> QED BY <3>1, Clocks
  <2>4. (m.did \o C(k)) \o C(1) = m.did \o C(k + 1)
    <3>1. /\ C(k) \in Seq(Deeds) /\ C(1) \in Seq(Deeds) /\ C(k + 1) \in Seq(Deeds)
          /\ Len(C(k)) = k /\ Len(C(1)) = 1 /\ Len(C(k + 1)) = k + 1
          /\ \A j \in 1..k : C(k)[j] = "c"
          /\ \A j \in 1..1 : C(1)[j] = "c"
          /\ \A j \in 1..(k + 1) : C(k + 1)[j] = "c"
      <4>1. k + 1 \in Nat /\ 1 \in Nat
        OBVIOUS
      <4> HIDE DEF C
      <4> QED BY <1>3, <4>1
    <3> DEFINE a == C(k)
               b == C(1)
               e == C(k + 1)
               d == m.did
    <3>2. d \in Seq(Deeds) /\ Only(a, "c", k) /\ Only(b, "c", 1) /\ Only(e, "c", k + 1)
      BY <1>2, <3>1 DEF Only
    <3>3. (d \o a) \o b = d \o e
      <4> HIDE DEF a, b, d, e
      <4> QED BY <3>2, OnceMore
    <3> QED BY <3>3
  <2>6. v.hc + 1 = m.hc + (k + 1)
    <3>1. v.hc = m.hc + k
      BY <2>1
    <3> HIDE DEF v
    <3> QED BY <1>2, <3>1
  <2> HIDE DEF v, C
  <2>7. Clock(v, 1).did = Clock(m, k + 1).did
    BY <2>1, <2>2, <2>3, <2>4
  <2>8. Clock(v, 1) = Clock(m, k + 1)
    BY <1>1, <2>1, <2>2, <2>3, <2>6, <2>7
  <2> QED BY <2>8 DEF v
<1> QED BY <1>4, <1>5

\* A raw span is replayed clock by clock.
LEMMA SpanLeads ==
  ASSUME NEW c, IsBook(c), NEW p \in Places, p.cursor \in DOMAIN c, NEW span \in Nat, span > 0,
         c[p.cursor] = [hc |-> p.m.hc, input |-> "raw", clocks |-> span]
  PROVE  Leads(c, p, [m |-> Clock(p.m, span), cursor |-> p.cursor + 1])
<1> DEFINE P(k) == [m |-> Clock(p.m, k), cursor |-> p.cursor]
           N == span - 1
           T == {k \in 0..N : Leads(c, p, P(k))}
           e == c[p.cursor]
<1>1. p.m \in Worlds /\ p.m.hc \in Nat /\ p.cursor \in Nat /\ N \in Nat /\ p = [m |-> p.m, cursor |-> p.cursor]
  BY DEF Places, Worlds
<1>2. e.hc = p.m.hc /\ e.input = "raw" /\ SpanEnd(e) = p.m.hc + span
  BY DEF SpanEnd
<1> HIDE DEF e
<1>3. ASSUME NEW k \in 0..N
      PROVE  Turn(c, P(k)) = [m |-> Clock(p.m, k + 1), cursor |-> IF k + 1 = span THEN p.cursor + 1 ELSE p.cursor]
  <2> DEFINE q == P(k)
  <2>1. k \in Nat /\ k < span /\ k <= span
    BY <1>1
  <2>2. q.m = Clock(p.m, k) /\ q.cursor = p.cursor /\ q.m.hc = p.m.hc + k
    BY <1>1, <2>1, Clocks
  <2> HIDE DEF q
  <2>3. e.hc <= q.m.hc /\ q.m.hc < SpanEnd(e)
    BY <1>1, <1>2, <2>1, <2>2
  <2>4. InSpan(c, q)
    BY <1>2, <2>2, <2>3 DEF InSpan, Due, e
  <2>5. Clock(q.m, 1) = Clock(p.m, k + 1)
    BY <1>1, <2>1, <2>2, ClockOn
  <2>6. Clock(p.m, k + 1).hc = p.m.hc + (k + 1)
    <3>1. k + 1 \in Nat
      BY <2>1
    <3> QED BY <1>1, <3>1, Clocks
  <2>7. Clock(q.m, 1).hc >= SpanEnd(e) <=> k + 1 = span
    BY <1>1, <1>2, <2>1, <2>5, <2>6
  <2>8. Turn(c, q) = Clocked(c, q)
    BY <2>4 DEF Turn
  <2>9. Clocked(c, q) = [m |-> Clock(p.m, k + 1), cursor |-> IF k + 1 = span THEN p.cursor + 1 ELSE p.cursor]
    BY <2>2, <2>5, <2>7 DEF Clocked, e
  <2> QED BY <2>8, <2>9 DEF q
<1>4. 0 \in T
  <2>1. P(0) = p
    BY <1>1, ClockOn
  <2>2. Leads(c, p, p)
    BY Path
  <2> QED BY <1>1, <2>1, <2>2
<1>5. ASSUME NEW k \in 0..(N - 1), k \in T PROVE k + 1 \in T
  <2>1. k \in 0..N /\ k + 1 # span /\ k + 1 \in 0..N
    BY <1>1
  <2>2. Turn(c, P(k)) = P(k + 1)
    BY <1>3, <2>1
  <2>3. Leads(c, p, P(k))
    BY <1>5
  <2> HIDE DEF P
  <2>4. Leads(c, p, P(k + 1))
    BY <2>2, <2>3, Path
  <2> QED BY <2>1, <2>4
<1>6. Leads(c, p, P(N))
  <2>1. \A k \in 0..N : k \in T
    <3> HIDE DEF T, N
    <3> QED BY <1>1, <1>4, <1>5, Inductive
  <2>2. N \in 0..N
    BY <1>1
  <2> QED BY <2>1, <2>2
<1>7. Turn(c, P(N)) = [m |-> Clock(p.m, span), cursor |-> p.cursor + 1]
  <2>1. N \in 0..N /\ N + 1 = span
    BY <1>1
  <2> HIDE DEF N, P
  <2> QED BY <1>3, <2>1
<1> HIDE DEF P, N
<1> QED BY <1>6, <1>7, Path

\* A raw span.
LEMMA RawKept ==
  ASSUME HTypes, Kept, NEW span \in RawSpans, Raw(span), ~midspan'
  PROVE  Kept'
<1> DEFINE e == Stamped("raw", span)
           g == Append(KeptLog, e)
           c == BookOf(g, log_base)
           w == Clock(machine, span)
           h == [m |-> w, cursor |-> Here.cursor + 1]
<1>1. /\ machine' = w /\ timeline' = w /\ live' /\ ~SpanPartRun
      /\ OnLiveInstruction(w, KeptCheckpoints, g, KeptFrame)
  BY DEF Raw, HTypes
<1>2. /\ machine \in Worlds /\ machine.hc \in Nat /\ log_base \in Nat /\ Here \in Places /\ Here.cursor \in Nat
      /\ Here.m = machine
  BY TypesGive DEF HTypes, Worlds, Places, Here
<1>3. span \in Nat /\ span > 0
  BY RewindAssumption
<1>4. e \in Entries /\ e.hc = machine.hc /\ e = [hc |-> Here.m.hc, input |-> "raw", clocks |-> span]
  BY <1>2, <1>3 DEF Stamped, Entries
<1>5. w \in Worlds
  BY <1>2, <1>3, Clocks
<1> HIDE DEF e
<1>6. /\ g \in Seq(Entries)
      /\ log_base + Len(g) = Here.cursor + 1
      /\ IsBook(c) /\ DOMAIN c = log_base..Here.cursor /\ c[Here.cursor] = e
  BY <1>4, NewBook
<1> HIDE DEF c
<1>7. Leads(c, Here, h)
  <2>1. log_base <= Here.cursor
    BY KeptGives
  <2>2. Here.cursor \in DOMAIN c
    BY <1>2, <1>6, <2>1
  <2>3. Leads(c, Here, [m |-> Clock(Here.m, span), cursor |-> Here.cursor + 1])
    BY <1>2, <1>3, <1>4, <1>6, <2>2, SpanLeads
  <2> QED BY <1>2, <2>3
<1> HIDE DEF h, w
<1>8. Chain(c, log_base, KeptCheckpoints, h)
  BY <1>1, <1>4, <1>7, BranchChain DEF c
<1>9. h = [m |-> w, cursor |-> log_base + Len(g)]
  BY <1>6 DEF h
<1> HIDE DEF g
<1>10. Chain(BookOf(g, log_base), log_base, KeptCheckpoints, [m |-> w, cursor |-> log_base + Len(g)])
  BY <1>8, <1>9 DEF c
<1>11. KeptCheckpoints \in Seq(Points) /\ Len(KeptCheckpoints) > 0
  BY KeptTypes
<1> QED BY <1>1, <1>2, <1>5, <1>6, <1>10, <1>11, OnLiveKept

\* A history that begins.
LEMMA Begins1 ==
  ASSUME NEW w \in Worlds
  PROVE  /\ Chain(BookOf(<<>>, 0), 0, <<Checkpoint(w, 0)>>, [m |-> w, cursor |-> 0])
         /\ Checkpoint(w, 0) \in Points /\ <<Checkpoint(w, 0)>> \in Seq(Points) /\ Len(<<Checkpoint(w, 0)>>) > 0
<1> DEFINE cp == Checkpoint(w, 0)
           cps == <<cp>>
           b == BookOf(<<>>, 0)
           h == [m |-> w, cursor |-> 0]
<1>1. cp \in Points /\ cp.hc = cp.state.hc /\ cp.state = w /\ cp.log_index = 0
  BY DEF Checkpoint, Points, Worlds
<1> HIDE DEF cp
<1>2. cps \in Seq(Points) /\ Len(cps) = 1 /\ cps[1] = cp
  BY <1>1
<1>3. FromIn(cps, 1) = h /\ h \in Places
  BY <1>1, <1>2 DEF FromIn, Places
<1>4. IsBook(b)
  <2>1. <<>> \in Seq(Entries) /\ 0 \in Nat
    OBVIOUS
  <2> QED BY <2>1, BookIs
<1> HIDE DEF b, h, cps
<1>5. Leads(b, h, h)
  BY <1>3, <1>4, Path
<1>6. /\ \A i, j \in 1..Len(cps) : i < j => Leads(b, FromIn(cps, i), FromIn(cps, j))
      /\ \A i \in 1..Len(cps) : i = 1
  BY <1>2
<1>7. 0 <= cps[1].log_index
  BY <1>1, <1>2
<1>8. Chain(b, 0, cps, h)
  BY <1>1, <1>2, <1>3, <1>5, <1>6, <1>7 DEF Chain
<1> QED BY <1>1, <1>2, <1>8 DEF b, h, cps, cp

LEMMA FreshIs ==
  ASSUME NEW hc \in Nat
  PROVE  Fresh(hc) \in Worlds
<1>1. <<>> \in Seq(Deeds)
  OBVIOUS
<1> QED BY <1>1 DEF Fresh, Worlds

LEMMA RestartKept ==
  ASSUME HTypes, Restart
  PROVE  Kept'
<1>1. PICK hc \in {machine.hc, 0} : Start(Fresh(hc))
  BY DEF Restart
<1> DEFINE w == Fresh(hc)
<1>2. w \in Worlds
  BY FreshIs DEF HTypes, Worlds
<1>3. /\ machine' = w /\ timeline' = w /\ live' /\ checkpoints' = <<Checkpoint(w, 0)>>
      /\ log' = <<>> /\ log_base' = 0
  BY <1>1 DEF Start
<1> HIDE DEF w
<1>4. log' \in Seq(Entries) /\ log_base' \in Nat /\ log_base' + Len(log') = 0
  BY <1>3
<1>5. /\ checkpoints' \in Seq(Points) /\ Len(checkpoints') > 0
  BY <1>2, <1>3, Begins1
<1>6. Chain(BookOf(log', log_base'), log_base', checkpoints', [m |-> w, cursor |-> log_base' + Len(log')])
  BY <1>2, <1>3, <1>4, Begins1
<1> QED BY <1>2, <1>3, <1>4, <1>5, <1>6, LiveKept

-----------------------------------------------------------------------------
(* What is kept.                                                           *)

LEMMA InitKept ==
  ASSUME Init
  PROVE  HInv
<1> DEFINE w == Fresh(0)
<1>1. /\ machine = w /\ timeline = w /\ live /\ checkpoints = <<Checkpoint(w, 0)>>
      /\ log = <<>> /\ log_base = 0 /\ last_frame = 0 /\ head_hc = 0 /\ cursor = 0 /\ ~midspan
      /\ live \in BOOLEAN /\ midspan \in BOOLEAN
  BY DEF Init
<1>2. w \in Worlds
  BY FreshIs
<1> HIDE DEF w
<1>3. /\ Chain(BookOf(<<>>, 0), 0, checkpoints, [m |-> w, cursor |-> 0])
      /\ checkpoints \in Seq(Points) /\ Len(checkpoints) > 0
  BY <1>1, <1>2, Begins1
<1>4. log \in Seq(Entries) /\ log_base + Len(log) = 0
  BY <1>1
<1>5. HTypes
  BY <1>1, <1>2, <1>3, <1>4 DEF HTypes
<1>6. LogEnd = 0 /\ Book = BookOf(<<>>, 0)
  BY <1>1, <1>4, <1>5, TypesGive DEF LogEnd
<1>7. End = [m |-> w, cursor |-> 0] /\ Here = End
  BY <1>1, <1>6 DEF End, Here
<1>8. Chain(Book, log_base, checkpoints, End)
  BY <1>1, <1>3, <1>6, <1>7
<1>9. 1 \in 1..Len(checkpoints)
  BY <1>3, LenProperties
<1>10. Leads(Book, FromIn(checkpoints, 1), End)
  BY <1>8, <1>9 DEF Chain
<1>11. Settled(Book, End) /\ Leads(Book, End, End)
  BY <1>5, EndSettled, TypesGive, Path DEF End
<1>12. Kept
  BY <1>1, <1>7, <1>8, <1>10, <1>11 DEF Kept, Standing
<1> QED BY <1>5, <1>12 DEF HInv

LEMMA KeptHolds ==
  ASSUME HInv, [Next]_vars
  PROVE  HInv'
<1>1. HTypes /\ HTypes'
  BY TypesHold DEF HInv
<1> SUFFICES ASSUME ~midspan' PROVE Kept'
  BY <1>1 DEF HInv
<1>2. CASE Restart
  BY <1>1, <1>2, RestartKept
<1>3. ASSUME ~Restart PROVE ~midspan
  <2>1. CASE UNCHANGED vars
    BY <2>1 DEF vars
  <2>2. CASE StepLive \/ StepPast \/ GoBack \/ ReturnToLive
    BY <1>1, <2>2 DEF StepLive, StepPast, GoBack, ReturnToLive, HTypes
  <2>3. ASSUME NEW value \in Inputs, Input(value) PROVE ~midspan
    BY <1>1, <2>3 DEF Input, HTypes
  <2>4. ASSUME NEW span \in RawSpans, Raw(span) PROVE ~midspan
    BY <1>1, <2>4 DEF Raw, HTypes
  <2> QED BY <1>3, <2>1, <2>2, <2>3, <2>4 DEF Next
<1>4. CASE ~Restart
  <2>1. Kept
    BY <1>3, <1>4 DEF HInv
  <2>2. CASE UNCHANGED vars
    BY <2>1, <2>2 DEF Kept, Book, LogEnd, End, Here, vars
  <2>3. CASE StepLive
    BY <1>1, <2>1, <2>3, StepLiveKept
  <2>4. CASE StepPast
    BY <1>1, <2>1, <2>4, StepPastKept
  <2>5. ASSUME NEW value \in Inputs, Input(value) PROVE Kept'
    BY <1>1, <2>1, <2>5, InputKept
  <2>6. ASSUME NEW span \in RawSpans, Raw(span) PROVE Kept'
    BY <1>1, <2>1, <2>6, RawKept
  <2>7. CASE GoBack
    BY <1>1, <2>1, <2>7, GoBackKept
  <2>8. CASE ReturnToLive
    BY <1>1, <2>1, <2>8, ReturnKept
  <2> QED BY <1>4, <2>2, <2>3, <2>4, <2>5, <2>6, <2>7, <2>8 DEF Next
<1> QED BY <1>2, <1>4

\* A replay to where the machine is finds it there.
LEMMA Agrees ==
  ASSUME HInv
  PROVE  ReplaysAgree
<1> SUFFICES ASSUME ~midspan, NEW i \in DOMAIN checkpoints, checkpoints[i].hc <= machine.hc
             PROVE  Replay(i, machine.hc).m = machine
  BY DEF ReplaysAgree
<1>1. HTypes /\ Kept
  BY DEF HInv
<1>2. i \in 1..Len(checkpoints) /\ machine.hc \in Nat /\ timeline.hc \in Nat
  BY <1>1, LenProperties DEF HTypes, Worlds
<1> DEFINE s == Replay(i, machine.hc)
<1>3. Leads(Book, From(i), Here) /\ Settled(Book, Here) /\ machine.hc <= timeline.hc
      /\ Leads(Book, Here, End) /\ Far(End) <= Turns
  BY <1>1, <1>2, KeptGives
<1>4. IsBook(Book) /\ Here \in Places /\ End \in Places /\ Here.m = machine /\ Turns \in Nat
  BY <1>1, TypesGive DEF Here
<1>5. Far(Here) <= Turns
  <2>1. Far(Here) \in Nat /\ Far(End) \in Nat /\ (End = Here \/ Far(End) > Far(Here))
    BY <1>3, <1>4, FarIs, Onward
  <2> QED BY <1>3, <1>4, <2>1
<1>6. Stopped(Book, Here, machine.hc)
  BY <1>2, <1>3, <1>4 DEF Stopped
<1>7. /\ s \in Places /\ Settled(Book, s) /\ s.m.hc >= machine.hc
      /\ \A h : Leads(Book, From(i), h) /\ Stopped(Book, h, machine.hc) /\ Far(h) <= Turns =>
                  Leads(Book, s, h)
  BY <1>1, <1>2, <1>3, ReplayLands
<1> HIDE DEF s
<1>8. Leads(Book, s, Here)
  BY <1>3, <1>5, <1>6, <1>7
<1>9. Here = s \/ Here.m.hc > s.m.hc
  BY <1>4, <1>7, <1>8, Onward
<1>10. s.m.hc \in Nat
  BY <1>7 DEF Places, Worlds
<1>11. Here = s
  BY <1>2, <1>4, <1>7, <1>9, <1>10
<1> QED BY <1>4, <1>11 DEF s

\* In the past the machine has been through what the timeline began with, and
\* the next thing of the timeline is the machine's own.
LEMMA StandsOn ==
  ASSUME HTypes, Kept
  PROVE  OnTimeline
<1>1. CASE live
  BY <1>1 DEF Kept, OnTimeline
<1>2. CASE ~live
  <2> DEFINE d == machine.did
             t == timeline.did
             n == Len(d)
  <2>1. IsBook(Book) /\ Here \in Places /\ End \in Places /\ Here.m = machine /\ End.m = timeline
        /\ Leads(Book, Here, End) /\ Settled(Book, Here)
    BY TypesGive, KeptGives DEF Here, End
  <2>2. d \in Seq(Deeds) /\ t \in Seq(Deeds) /\ n \in Nat /\ Len(t) \in Nat
    BY LenProperties DEF HTypes, Worlds
  <2>3. n <= Len(t) /\ \A k \in 1..n : t[k] = d[k]
    BY <2>1, Doings DEF Begun
  <2>4. d = SubSeq(t, 1, n)
    <3>1. 1 \in Nat \ {0} /\ n \in 0..Len(t)
      BY <2>2, <2>3
    <3> HIDE DEF d, t
    <3>2. /\ SubSeq(t, 1, n) \in Seq(Deeds)
          /\ Len(SubSeq(t, 1, n)) = IF 1 <= n THEN (n - 1) + 1 ELSE 0
          /\ \A k \in 1..((n - 1) + 1) : SubSeq(t, 1, n)[k] = t[(1 + k) - 1]
      BY <2>2, <3>1, Piece
    <3> DEFINE p == SubSeq(t, 1, n)
    <3> HIDE DEF p
    <3>3. Len(p) = n
      BY <2>2, <3>2 DEF p
    <3>4. ASSUME NEW k \in 1..n PROVE p[k] = d[k]
      <4>1. k \in 1..((n - 1) + 1) /\ (1 + k) - 1 = k
        BY <2>2
      <4>2. p[k] = t[k]
        BY <3>2, <4>1 DEF p
      <4> QED BY <2>3, <4>2
    <3>5. p \in Seq(Deeds)
      BY <3>2 DEF p
    <3>6. d = p
      BY <2>2, <3>3, <3>4, <3>5, SeqEqual
    <3> QED BY <3>6 DEF p
  <2>5. ASSUME n < Len(t) PROVE t[n + 1] \notin Inputs
    <3>1. Here # End
      BY <2>1, <2>2, <2>5
    <3>2. Leads(Book, Turn(Book, Here), End)
      BY <2>1, <3>1, Onward
    <3>3. Turn(Book, Here) \in Places
      BY <2>1, Turns1
    <3>4. PICK x \in {"i", "c"} : Turn(Book, Here).m.did = Append(d, x)
      BY <2>1, Turns1
    <3>5. Begun(Append(d, x), t)
      BY <2>1, <3>2, <3>3, <3>4, Doings
    <3>6. x \in Deeds
      BY DEF Deeds
    <3>7. Len(Append(d, x)) = n + 1 /\ Append(d, x)[n + 1] = x
      BY <2>2, <3>6, AppendProperties
    <3>8. n + 1 \in 1..(n + 1)
      BY <2>2
    <3>9. t[n + 1] = x
      BY <3>5, <3>7, <3>8 DEF Begun
    <3> QED BY <3>9, RewindAssumption
  <2>6. OnTimeline
    BY <1>2, <2>3, <2>4, <2>5 DEF OnTimeline
  <2> QED BY <2>6
<1> QED BY <1>1, <1>2

LEMMA Reaches ==
  ASSUME HTypes, Kept
  PROVE  HeadReachable
<1> SUFFICES ASSUME ~live, NEW i \in DOMAIN checkpoints
             PROVE  Replay(i, head_hc).m = timeline /\ Replay(i, head_hc).cursor = LogEnd
  BY DEF HeadReachable
<1>1. i \in 1..Len(checkpoints)
  BY LenProperties DEF HTypes
<1>2. head_hc = timeline.hc /\ timeline.hc \in Nat /\ timeline.hc <= timeline.hc
  BY DEF Kept, HTypes, Worlds
<1> DEFINE s == Replay(i, head_hc)
<1>3. s \in Places /\ Leads(Book, s, End) /\ Settled(Book, s) /\ s.m.hc >= timeline.hc
  BY <1>1, <1>2, ReplayLands
<1> HIDE DEF s
<1>4. s = End
  BY <1>3, Arrives
<1> QED BY <1>4 DEF s, End

\* The history keeps its invariant: the checkpoints lie on one path through the
\* log, which ends at the timeline's end and passes where the machine is
\* (rewind.cpp, every job of it).
THEOREM HistoryKept == Spec => []HInv
<1>1. Init => HInv
  BY InitKept
<1>2. HInv /\ [Next]_vars => HInv'
  BY KeptHolds
<1> QED BY <1>1, <1>2, PTL DEF Spec

\* Whatever was trimmed, branched away or replayed, replay brings back exactly
\* the present machine, from every checkpoint before it (rewind.cpp replay,
\* trim, branch, land).
THEOREM EveryReplayAgrees == Spec => []ReplaysAgree
<1>1. HInv => ReplaysAgree
  BY Agrees
<1> QED BY <1>1, HistoryKept, PTL

\* The machine is never anywhere it was not the first time round, and in the
\* past the head can always be had back exactly (rewind.cpp go_back,
\* return_to_live, catch_up, record).
THEOREM TimelineIsKept == Spec => []TimelineKept
<1>1. HInv => TimelineKept
  BY StandsOn, Reaches DEF HInv, TimelineKept
<1> QED BY <1>1, HistoryKept, PTL

-----------------------------------------------------------------------------
(* Searching.  A machine's clock is told by what was done to it (Timed),   *)
(* so where on the path a thing of the timeline was done is known.         *)

Tick(h, deed) ==
  CASE deed = "i" -> StepInstruction(Fresh(h)).hc
    [] deed = "c" -> h + 1
    [] OTHER -> h

Timing(f, m) ==
  /\ f \in [0..Len(m.did) -> Nat]
  /\ f[0] = m.from
  /\ \A n \in 1..Len(m.did) : f[n] = Tick(f[n - 1], m.did[n])

Timed(m) == \E f : Timing(f, m) /\ f[Len(m.did)] = m.hc

LEMMA TickIs ==
  ASSUME NEW h \in Nat, NEW deed
  PROVE  /\ Tick(h, deed) \in Nat /\ Tick(h, deed) >= h
         /\ deed \in {"i", "c"} => Tick(h, deed) > h
<1>1. Fresh(h) \in Worlds /\ Fresh(h).hc = h
  BY FreshIs DEF Fresh
<1>2. StepInstruction(Fresh(h)).hc \in Nat /\ StepInstruction(Fresh(h)).hc > h
  BY <1>1, Steps DEF Worlds
<1>3. CASE deed = "i"
  <2>1. Tick(h, deed) = StepInstruction(Fresh(h)).hc
    BY <1>3 DEF Tick
  <2> QED BY <1>2, <2>1
<1>4. CASE deed # "i"
  BY <1>4 DEF Tick
<1> QED BY <1>3, <1>4

LEMMA TimedFresh ==
  ASSUME NEW hc \in Nat
  PROVE  Timed(Fresh(hc))
<1> DEFINE f == [n \in 0..0 |-> hc]
<1>1. Len(Fresh(hc).did) = 0 /\ Fresh(hc).from = hc /\ Fresh(hc).hc = hc
  BY DEF Fresh
<1>2. f \in [0..0 -> Nat] /\ f[0] = hc
  OBVIOUS
<1> HIDE DEF f
<1>3. Timing(f, Fresh(hc))
  BY <1>1, <1>2 DEF Timing
<1> QED BY <1>1, <1>2, <1>3 DEF Timed

\* One more thing done, which takes its time.
LEMMA TimedOn ==
  ASSUME NEW m \in Worlds, Timed(m), NEW x \in Deeds, NEW w \in Worlds,
         w.from = m.from, w.did = Append(m.did, x), w.hc = Tick(m.hc, x)
  PROVE  Timed(w)
<1>1. PICK f : Timing(f, m) /\ f[Len(m.did)] = m.hc
  BY DEF Timed
<1> DEFINE l == Len(m.did)
           g == [n \in 0..(l + 1) |-> IF n = l + 1 THEN w.hc ELSE f[n]]
<1>2. m.did \in Seq(Deeds) /\ l \in Nat /\ w.hc \in Nat
  BY LenProperties DEF Worlds
<1>3. Len(w.did) = l + 1 /\ w.did[l + 1] = x /\ \A n \in 1..l : w.did[n] = m.did[n]
  BY <1>2, AppendProperties
<1>4. f \in [0..l -> Nat] /\ f[0] = m.from /\ \A n \in 1..l : f[n] = Tick(f[n - 1], m.did[n])
  BY <1>1 DEF Timing
<1> HIDE DEF l
<1>5. g \in [0..(l + 1) -> Nat] /\ g[0] = w.from /\ g[l + 1] = w.hc
  BY <1>2, <1>4
<1>6. ASSUME NEW n \in 1..(l + 1) PROVE g[n] = Tick(g[n - 1], w.did[n])
  <2>1. CASE n = l + 1
    <3>1. n - 1 = l /\ l \in 0..(l + 1) /\ l # l + 1 /\ l + 1 \in 0..(l + 1)
      BY <1>2, <2>1
    <3>2. g[n] = w.hc /\ g[n - 1] = f[l]
      BY <2>1, <3>1
    <3> HIDE DEF g
    <3> QED BY <1>1, <1>3, <2>1, <3>2 DEF l
  <2>2. CASE n # l + 1
    <3>1. n \in 1..l /\ n - 1 \in 0..(l + 1) /\ n - 1 # l + 1 /\ n \in 0..(l + 1)
      BY <1>2, <2>2
    <3>2. g[n] = f[n] /\ g[n - 1] = f[n - 1]
      BY <2>2, <3>1
    <3> HIDE DEF g
    <3> QED BY <1>3, <1>4, <3>1, <3>2
  <2> QED BY <2>1, <2>2
<1> HIDE DEF g
<1>7. Timing(g, w)
  BY <1>3, <1>5, <1>6 DEF Timing
<1> QED BY <1>3, <1>5, <1>7 DEF Timed

\* What a turn does takes its time.
LEMMA Ticking ==
  ASSUME NEW b, IsBook(b), NEW s \in Places
  PROVE  LET t == Turn(b, s)
         IN \/ t.m = s.m
            \/ \E x \in Deeds : t.m.did = Append(s.m.did, x) /\ t.m.hc = Tick(s.m.hc, x)
<1>0. s.m \in Worlds /\ s.cursor \in Nat /\ s.m.hc \in Nat /\ s.m.did \in Seq(Deeds)
  BY DEF Places, Worlds
<1>1. CASE InSpan(b, s)
  <2>1. Turn(b, s).m = Clock(s.m, 1)
    BY <1>1 DEF Turn, Clocked
  <2>2. Clock(s.m, 1).hc = s.m.hc + 1
    BY <1>0, Clocks
  <2>3. Tick(s.m.hc, "c") = s.m.hc + 1
    BY DEF Tick
  <2>4. Clock(s.m, 1).did = Append(s.m.did, "c") /\ "c" \in Deeds
    <3>1. Clock(s.m, 1).did = s.m.did \o [k \in 1..1 |-> "c"]
      BY <1>0, Clocks
    <3>2. [k \in 1..1 |-> "c"] = <<"c">>
      OBVIOUS
    <3> QED BY <1>0, <3>1, <3>2 DEF Deeds
  <2> QED BY <2>1, <2>2, <2>3, <2>4
<1>2. CASE Due(b, s) /\ ~InSpan(b, s)
  <2>1. Turn(b, s).m = IF b[s.cursor].input = "raw" THEN s.m ELSE Apply(s.m, b[s.cursor].input)
    BY <1>2 DEF Turn, Applied
  <2>2. CASE b[s.cursor].input = "raw"
    BY <2>1, <2>2
  <2>3. CASE b[s.cursor].input # "raw"
    <3> DEFINE x == b[s.cursor].input
    <3>1. x \in Inputs /\ x \in Deeds
      BY <1>2, <2>3 DEF Due, IsBook, Entries, Deeds
    <3>2. Apply(s.m, x).did = Append(s.m.did, x) /\ Apply(s.m, x).hc = s.m.hc
      BY <1>0, <3>1, Applies
    <3>3. x # "i" /\ x # "c"
      BY <3>1, RewindAssumption
    <3>4. Tick(s.m.hc, x) = s.m.hc
      BY <3>3 DEF Tick
    <3> QED BY <2>1, <2>3, <3>1, <3>2, <3>4
  <2> QED BY <2>2, <2>3
<1>3. CASE ~Due(b, s)
  <2>1. Turn(b, s).m = StepInstruction(s.m)
    BY <1>3 DEF Turn, InSpan, Stepped
  <2>2. StepInstruction(s.m).did = Append(s.m.did, "i") /\ "i" \in Deeds
    BY <1>0, Steps DEF Deeds
  <2>3. StepInstruction(s.m).hc = InstrHc * (s.m.hc \div InstrHc) + InstrHc
    BY <1>0 DEF StepInstruction, Worlds
  <2>4. StepInstruction(Fresh(s.m.hc)).hc = InstrHc * (s.m.hc \div InstrHc) + InstrHc
    BY DEF StepInstruction, Fresh
  <2>5. Tick(s.m.hc, "i") = StepInstruction(Fresh(s.m.hc)).hc
    BY DEF Tick
  <2> QED BY <2>1, <2>2, <2>3, <2>4, <2>5
<1> QED BY <1>1, <1>2, <1>3

\* So all that is on the path from a timed machine is timed.
LEMMA TimedPath ==
  ASSUME NEW b, IsBook(b), NEW x \in Places, Timed(x.m), NEW s, Leads(b, x, s)
  PROVE  Timed(s.m)
<1> DEFINE Q == {q \in Places : Timed(q.m)}
<1>1. ASSUME NEW q \in Q PROVE Turn(b, q) \in Q
  <2> DEFINE t == Turn(b, q)
  <2>1. t \in Places /\ t.m.from = q.m.from
    BY Turns1
  <2>2. \/ t.m = q.m
        \/ \E y \in Deeds : t.m.did = Append(q.m.did, y) /\ t.m.hc = Tick(q.m.hc, y)
    BY Ticking
  <2>3. q.m \in Worlds /\ t.m \in Worlds
    BY <2>1 DEF Places
  <2> HIDE DEF t
  <2>4. Timed(t.m)
    BY <2>1, <2>2, <2>3, TimedOn
  <2> QED BY <2>1, <2>4 DEF t
<1>2. Closed(b, Q) /\ x \in Q
  BY <1>1 DEF Closed
<1> HIDE DEF Q
<1>3. s \in Q
  BY <1>2 DEF Leads
<1> QED BY <1>3 DEF Q

\* So is one clocked raw.
LEMMA TimedClock ==
  ASSUME NEW m \in Worlds, Timed(m), NEW span \in Nat, span > 0
  PROVE  Timed(Clock(m, span))
<1> DEFINE e == [hc |-> m.hc, input |-> "raw", clocks |-> span]
           c == [i \in {0} |-> e]
           p == [m |-> m, cursor |-> 0]
           h == [m |-> Clock(p.m, span), cursor |-> p.cursor + 1]
<1>1. e \in Entries
  BY DEF Entries, Worlds
<1>2. p \in Places /\ p.m = m /\ p.cursor = 0
  BY DEF Places
<1> HIDE DEF e
<1>3. IsBook(c) /\ p.cursor \in DOMAIN c /\ c[p.cursor] = e
  BY <1>1 DEF IsBook
<1> HIDE DEF c, p
<1>4. c[p.cursor] = [hc |-> p.m.hc, input |-> "raw", clocks |-> span]
  BY <1>2, <1>3 DEF e
<1>5. Leads(c, p, h)
  BY <1>2, <1>3, <1>4, SpanLeads
<1>6. h.m = Clock(m, span)
  BY <1>2
<1> HIDE DEF h
<1> QED BY <1>2, <1>3, <1>5, <1>6, TimedPath

\* Every checkpoint's machine is timed.
HTimed == \A i \in 1..Len(checkpoints) : Timed(checkpoints[i].state)

SInv == HInv /\ (midspan \/ HTimed)

\* So then is whatever is on the path.
LEMMA TimedThere ==
  ASSUME HTypes, Kept, HTimed
  PROVE  /\ \A q : Leads(Book, From(1), q) => Timed(q.m)
         /\ Timed(machine) /\ Timed(timeline)
<1>1. IsBook(Book) /\ From(1) \in Places /\ 1 \in 1..Len(checkpoints)
  BY TypesGive, KeptGives
<1>2. Timed(From(1).m)
  BY <1>1 DEF HTimed, From
<1>3. \A q : Leads(Book, From(1), q) => Timed(q.m)
  BY <1>1, <1>2, TimedPath
<1>4. Leads(Book, From(1), Here) /\ Leads(Book, From(1), End)
  BY <1>1, KeptGives
<1>5. Here.m = machine /\ End.m = timeline
  BY DEF Here, End
<1> QED BY <1>3, <1>4, <1>5

LEMMA OnLiveTimed ==
  ASSUME NEW w \in Worlds, Timed(w), NEW cps \in Seq(Points), Len(cps) > 0, NEW lg \in Seq(Entries), NEW seen,
         log_base \in Nat, OnLiveInstruction(w, cps, lg, seen),
         \A i \in 1..Len(cps) : Timed(cps[i].state)
  PROVE  HTimed'
<1>1. CASE Frame(w) # seen /\ Frame(w) % CheckpointFrames = 0
  <2> DEFINE cp == Checkpoint(w, log_base + Len(lg))
             cps2 == Append(cps, cp)
  <2>1. w.hc \in Nat /\ Len(lg) \in Nat /\ Len(cps) \in Nat
    BY LenProperties DEF Worlds
  <2>2. cp \in Points /\ cp.state = w
    BY <2>1 DEF Checkpoint, Points
  <2>3. Trim(cps2, lg, w.hc)
    BY <1>1 DEF OnLiveInstruction
  <2> HIDE DEF cp
  <2>4. cps2 \in Seq(Points) /\ Len(cps2) = Len(cps) + 1
        /\ \A i \in 1..Len(cps) : cps2[i] = cps[i]
    BY <2>2, AppendProperties
  <2>5. cps2[Len(cps) + 1] = cp
    BY <2>1, <2>2
  <2> HIDE DEF cps2
  <2>6. ASSUME NEW i \in 1..Len(cps2) PROVE Timed(cps2[i].state)
    <3>1. i \in 1..Len(cps) \/ i = Len(cps) + 1
      BY <2>1, <2>4
    <3> QED BY <2>2, <2>4, <2>5, <3>1
  <2>7. Len(cps2) \in Nat /\ Len(cps2) > 0
    BY <2>1, <2>4
  <2>8. PICK d \in 0..(Len(cps2) - 1) : checkpoints' = SubSeq(cps2, d + 1, Len(cps2))
    BY <2>1, <2>3, <2>4, <2>7, TrimIs
  <2> DEFINE new == SubSeq(cps2, d + 1, Len(cps2))
  <2>9. d + 1 \in Nat \ {0} /\ Len(cps2) \in 0..Len(cps2) /\ d \in Nat /\ d + 1 <= Len(cps2)
    BY <2>7
  <2>10. Len(new) = (Len(cps2) - (d + 1)) + 1
         /\ \A i \in 1..((Len(cps2) - (d + 1)) + 1) : new[i] = cps2[((d + 1) + i) - 1]
    BY <2>4, <2>9, Piece
  <2> HIDE DEF new
  <2>11. ASSUME NEW i \in 1..Len(new) PROVE Timed(new[i].state)
    <3>1. ((d + 1) + i) - 1 \in 1..Len(cps2) /\ i \in 1..((Len(cps2) - (d + 1)) + 1)
      BY <2>7, <2>9, <2>10
    <3>2. new[i] = cps2[((d + 1) + i) - 1]
      BY <2>10, <3>1
    <3> QED BY <2>6, <3>1, <3>2
  <2>12. checkpoints' = new
    BY <2>8 DEF new
  <2> QED BY <2>11, <2>12 DEF HTimed
<1>2. CASE ~(Frame(w) # seen /\ Frame(w) % CheckpointFrames = 0)
  <2>1. checkpoints' = cps
    BY <1>2 DEF OnLiveInstruction
  <2> QED BY <2>1 DEF HTimed
<1> QED BY <1>1, <1>2

LEMMA KeptTimed ==
  ASSUME HTypes, HTimed
  PROVE  \A i \in 1..Len(KeptCheckpoints) : Timed(KeptCheckpoints[i].state)
<1> DEFINE new == KeptCheckpoints
<1>1. Len(checkpoints) \in Nat /\ checkpoints \in Seq(Points)
  BY TypesGive DEF HTypes
<1>2. PICK k \in 1..Len(checkpoints) : new = SubSeq(checkpoints, 1, k)
  BY KeptIs
<1>3. 1 \in Nat \ {0} /\ k \in 0..Len(checkpoints) /\ k \in Nat /\ 1 <= k
  BY <1>1
<1> HIDE DEF new
<1>4. /\ Len(new) = IF 1 <= k THEN (k - 1) + 1 ELSE 0
      /\ \A i \in 1..((k - 1) + 1) : new[i] = checkpoints[(1 + i) - 1]
  BY <1>1, <1>2, <1>3, Piece
<1>5. Len(new) = k
  BY <1>3, <1>4
<1>6. ASSUME NEW i \in 1..Len(new) PROVE Timed(new[i].state)
  <2>1. i \in 1..((k - 1) + 1) /\ (1 + i) - 1 = i /\ i \in 1..Len(checkpoints)
    BY <1>1, <1>3, <1>5
  <2>2. new[i] = checkpoints[i]
    BY <1>4, <2>1
  <2> QED BY <2>1, <2>2 DEF HTimed
<1> QED BY <1>6 DEF new

LEMMA TimedKept ==
  ASSUME SInv, [Next]_vars
  PROVE  SInv'
<1>1. HTypes /\ HInv /\ HInv'
  BY KeptHolds DEF SInv, HInv
<1> SUFFICES ASSUME ~midspan' PROVE HTimed'
  BY <1>1 DEF SInv
<1>2. CASE Restart
  <2>1. PICK hc \in {machine.hc, 0} : Start(Fresh(hc))
    BY <1>2 DEF Restart
  <2>2. hc \in Nat
    BY <1>1 DEF HTypes, Worlds
  <2> DEFINE w == Fresh(hc)
  <2>3. Timed(w)
    BY <2>2, TimedFresh
  <2>4. checkpoints' = <<Checkpoint(w, 0)>> /\ Checkpoint(w, 0).state = w
    BY <2>1 DEF Start, Checkpoint
  <2> HIDE DEF w
  <2>5. Len(checkpoints') = 1 /\ checkpoints'[1].state = w
    BY <2>4
  <2>6. \A i \in 1..Len(checkpoints') : i = 1
    BY <2>5
  <2> QED BY <2>3, <2>5, <2>6 DEF HTimed
<1>3. ASSUME ~Restart PROVE ~midspan
  <2>1. CASE UNCHANGED vars
    BY <2>1 DEF vars
  <2>2. CASE StepLive \/ StepPast \/ GoBack \/ ReturnToLive
    BY <1>1, <2>2 DEF StepLive, StepPast, GoBack, ReturnToLive, HTypes
  <2>3. ASSUME NEW value \in Inputs, Input(value) PROVE ~midspan
    BY <1>1, <2>3 DEF Input, HTypes
  <2>4. ASSUME NEW span \in RawSpans, Raw(span) PROVE ~midspan
    BY <1>1, <2>4 DEF Raw, HTypes
  <2> QED BY <1>3, <2>1, <2>2, <2>3, <2>4 DEF Next
<1>4. CASE ~Restart
  <2>1. Kept /\ HTimed
    BY <1>1, <1>3, <1>4 DEF SInv, HInv
  <2>2. Timed(machine) /\ machine \in Worlds
    BY <1>1, <2>1, TimedThere DEF HTypes
  <2>3. CASE UNCHANGED vars
    BY <2>1, <2>3 DEF HTimed, vars
  <2>4. CASE StepPast \/ GoBack \/ ReturnToLive
    <3>1. checkpoints' = checkpoints
      BY <2>4 DEF StepPast, GoBack, ReturnToLive, Landed
    <3> QED BY <2>1, <3>1 DEF HTimed
  <2>5. CASE StepLive
    <3> DEFINE w == StepInstruction(machine)
    <3>1. OnLiveInstruction(w, checkpoints, log, last_frame) /\ live
      BY <2>5 DEF StepLive
    <3>2. Here = End /\ ~Due(Book, End) /\ Here.m = machine /\ Here \in Places /\ IsBook(Book)
          /\ From(1) \in Places /\ Leads(Book, From(1), End)
      BY <1>1, <2>1, <3>1, KeptGives, TypesGive DEF Here
    <3>3. Turn(Book, Here).m = w
      BY <3>2, Turns1 DEF Stepped
    <3>4. Leads(Book, From(1), Turn(Book, Here))
      BY <3>2, Path
    <3>5. Timed(w)
      BY <1>1, <2>1, <3>3, <3>4, TimedThere
    <3>6. w \in Worlds
      BY <2>2, Steps
    <3> HIDE DEF w
    <3> QED BY <1>1, <2>1, <3>1, <3>5, <3>6, OnLiveTimed DEF HTypes, HTimed
  <2>6. ASSUME NEW value \in Inputs, Input(value) PROVE HTimed'
    <3>1. checkpoints' = KeptCheckpoints
      BY <2>6 DEF Input
    <3> QED BY <1>1, <2>1, <3>1, KeptTimed DEF HTimed
  <2>7. ASSUME NEW span \in RawSpans, Raw(span) PROVE HTimed'
    <3> DEFINE w == Clock(machine, span)
               g == Append(KeptLog, Stamped("raw", span))
    <3>1. OnLiveInstruction(w, KeptCheckpoints, g, KeptFrame)
      BY <2>7 DEF Raw
    <3>2. span \in Nat /\ span > 0
      BY RewindAssumption
    <3>3. w \in Worlds /\ Timed(w)
      BY <2>2, <3>2, Clocks, TimedClock
    <3>4. Stamped("raw", span) \in Entries
      BY <2>2, <3>2 DEF Stamped, Entries, Worlds
    <3>5. g \in Seq(Entries)
      BY <1>1, <3>4, KeptTypes, AppendProperties
    <3>6. KeptCheckpoints \in Seq(Points) /\ Len(KeptCheckpoints) > 0
          /\ \A i \in 1..Len(KeptCheckpoints) : Timed(KeptCheckpoints[i].state)
      BY <1>1, <2>1, KeptTypes, KeptTimed
    <3>7. log_base \in Nat
      BY <1>1 DEF HTypes
    <3> HIDE DEF w, g
    <3> QED BY <3>1, <3>3, <3>5, <3>6, <3>7, OnLiveTimed
  <2> QED BY <1>4, <2>3, <2>4, <2>5, <2>6, <2>7 DEF Next
<1> QED BY <1>2, <1>4

\* The timeline's times are those of its clock.
LEMMA HoursAre ==
  ASSUME timeline \in Worlds, Timed(timeline)
  PROVE  Timing(TimelineHc, timeline)
<1> DEFINE N == Len(timeline.did)
           d == timeline.did
           z == timeline.from
<1>1. PICK f : Timing(f, timeline)
  BY DEF Timed
<1>2. N \in Nat
  BY LenProperties DEF Worlds
<1>3. f \in [0..N -> Nat] /\ f[0] = z /\ \A n \in 1..N : f[n] = Tick(f[n - 1], d[n])
  BY <1>1 DEF Timing
<1>4. f = [n \in 0..N |-> IF n = 0 THEN z ELSE Tick(f[n - 1], d[n])]
  <2> HIDE DEF N, d, z
  <2> DEFINE h == [n \in 0..N |-> IF n = 0 THEN z ELSE Tick(f[n - 1], d[n])]
  <2>1. ASSUME NEW n \in 0..N PROVE f[n] = h[n]
    BY <1>2, <1>3
  <2>2. DOMAIN f = 0..N /\ DOMAIN h = 0..N /\ f = [n \in 0..N |-> f[n]]
    BY <1>3
  <2> QED BY <2>1, <2>2
<1> DEFINE hours[n \in 0..N] == IF n = 0 THEN z ELSE Tick(hours[n - 1], d[n])
<1>5. hours = [n \in 0..N |-> IF n = 0 THEN z ELSE Tick(hours[n - 1], d[n])]
  BY <1>4
<1>6. TimelineHc = hours
  BY DEF TimelineHc, Tick
<1> HIDE DEF hours, N, d, z
<1>7. ASSUME NEW n \in 0..(N - 1)
      PROVE  n + 1 \in 0..N /\ n \in 0..N /\ hours[n + 1] = Tick(hours[n], d[n + 1]) /\ f[n + 1] = Tick(f[n], d[n + 1])
  <2>1. n + 1 \in 0..N /\ n \in 0..N /\ n + 1 # 0 /\ (n + 1) - 1 = n /\ n + 1 \in 1..N
    BY <1>2
  <2> QED BY <1>3, <1>5, <2>1
<1>8. \A n \in 0..N : hours[n] = f[n]
  <2> DEFINE T == {n \in 0..N : hours[n] = f[n]}
  <2>1. 0 \in T
    BY <1>2, <1>3, <1>5
  <2>2. ASSUME NEW n \in 0..(N - 1), n \in T PROVE n + 1 \in T
    BY <1>7, <2>2
  <2> HIDE DEF T
  <2>3. \A n \in 0..N : n \in T
    BY <1>2, <2>1, <2>2, Inductive
  <2> QED BY <2>3 DEF T
<1>9. hours = f
  BY <1>3, <1>5, <1>8
<1> QED BY <1>1, <1>6, <1>9

\* Where the machine of a place on the path is, the timeline was after as much
\* had been done.
LEMMA HoursThere ==
  ASSUME HTypes, Kept, HTimed, NEW q, Leads(Book, From(1), q), Leads(Book, q, End)
  PROVE  /\ Len(q.m.did) \in 0..Len(timeline.did)
         /\ \A n \in 1..Len(q.m.did) : timeline.did[n] = q.m.did[n]
         /\ TimelineHc[Len(q.m.did)] = q.m.hc
<1>1. IsBook(Book) /\ From(1) \in Places /\ q \in Places /\ End.m = timeline /\ timeline \in Worlds
  BY KeptGives, TypesGive, Path DEF HTypes, End
<1>2. Timed(q.m) /\ Timed(timeline)
  BY TimedThere
<1> DEFINE N == Len(q.m.did)
           f == TimelineHc
<1>3. Len(timeline.did) \in Nat /\ N \in Nat
  BY <1>1, LenProperties DEF Places, Worlds
<1>4. N <= Len(timeline.did) /\ \A n \in 1..N : timeline.did[n] = q.m.did[n]
  BY <1>1, Doings DEF Begun
<1>5. timeline.from = q.m.from
  BY <1>1, Onward
<1>6. /\ f[0] = timeline.from
      /\ \A n \in 1..Len(timeline.did) : f[n] = Tick(f[n - 1], timeline.did[n])
  BY <1>1, <1>2, HoursAre DEF Timing
<1>7. PICK g : g[0] = q.m.from /\ (\A n \in 1..N : g[n] = Tick(g[n - 1], q.m.did[n])) /\ g[N] = q.m.hc
  BY <1>2 DEF Timed, Timing
<1> HIDE DEF f, N
<1>8. \A n \in 0..N : f[n] = g[n]
  <2> DEFINE T == {n \in 0..N : f[n] = g[n]}
  <2>1. 0 \in T
    BY <1>3, <1>5, <1>6, <1>7
  <2>2. ASSUME NEW n \in 0..(N - 1), n \in T PROVE n + 1 \in T
    <3>1. n + 1 \in 0..N /\ n + 1 \in 1..N /\ n + 1 \in 1..Len(timeline.did) /\ (n + 1) - 1 = n
      BY <1>3, <1>4
    <3>2. f[n + 1] = Tick(f[n], timeline.did[n + 1]) /\ g[n + 1] = Tick(g[n], q.m.did[n + 1])
      BY <1>6, <1>7, <3>1
    <3> QED BY <1>4, <2>2, <3>1, <3>2
  <2> HIDE DEF T
  <2>3. \A n \in 0..N : n \in T
    BY <1>3, <2>1, <2>2, Inductive
  <2> QED BY <2>3 DEF T
<1>9. f[N] = q.m.hc /\ N \in 0..Len(timeline.did)
  <2>1. N \in 0..N
    BY <1>3
  <2> QED BY <1>3, <1>4, <1>7, <1>8, <2>1
<1> QED BY <1>4, <1>9 DEF f, N

\* The timeline's times only go on.
LEMMA HoursGoOn ==
  ASSUME timeline \in Worlds, Timed(timeline), NEW k \in 0..Len(timeline.did), NEW n \in 0..k
  PROVE  TimelineHc[n] \in Nat /\ TimelineHc[k] \in Nat /\ TimelineHc[n] <= TimelineHc[k]
<1> DEFINE f == TimelineHc
           N == Len(timeline.did)
<1>1. N \in Nat
  BY LenProperties DEF Worlds
<1>2. f \in [0..N -> Nat] /\ \A i \in 1..N : f[i] = Tick(f[i - 1], timeline.did[i])
  BY HoursAre DEF Timing
<1> HIDE DEF f, N
<1> DEFINE T == {i \in 0..(k - n) : f[n] <= f[n + i]}
<1>3. k \in Nat /\ n \in Nat /\ k - n \in Nat /\ k <= N
  BY <1>1 DEF N
<1>4. 0 \in T
  <2>1. n + 0 = n /\ f[n] \in Nat /\ 0 \in 0..(k - n)
    BY <1>1, <1>2, <1>3
  <2> QED BY <2>1
<1>5. ASSUME NEW i \in 0..((k - n) - 1), i \in T PROVE i + 1 \in T
  <2>1. n + (i + 1) \in 1..N /\ (n + (i + 1)) - 1 = n + i /\ i + 1 \in 0..(k - n) /\ n + i \in 0..N /\ n \in 0..N
    BY <1>1, <1>3
  <2>2. f[n + (i + 1)] = Tick(f[n + i], timeline.did[n + (i + 1)])
    BY <1>2, <2>1
  <2>3. f[n + i] \in Nat /\ f[n] \in Nat
    BY <1>2, <2>1
  <2>4. f[n + (i + 1)] \in Nat /\ f[n + (i + 1)] >= f[n + i]
    BY <2>2, <2>3, TickIs
  <2>5. f[n] <= f[n + i]
    BY <1>5
  <2>6. f[n] <= f[n + (i + 1)]
    BY <2>3, <2>4, <2>5
  <2> QED BY <2>1, <2>6
<1>6. f[n] <= f[k]
  <2> HIDE DEF T
  <2>1. \A i \in 0..(k - n) : i \in T
    BY <1>3, <1>4, <1>5, Inductive
  <2>2. k - n \in T /\ n + (k - n) = k
    BY <1>3, <2>1
  <2> QED BY <2>2 DEF T
<1>7. n \in 0..N /\ k \in 0..N
  BY <1>1, <1>3
<1> QED BY <1>2, <1>6, <1>7 DEF f

\* A place is noted when an instruction begins there, or a clock at a boundary.
LEMMA BeginsIs ==
  ASSUME NEW b, IsBook(b), NEW q \in Places
  PROVE  LET t == Turn(b, q)
         IN /\ Begins(b, q) => /\ Settled(b, q)
                               /\ \E x \in {"i", "c"} : /\ t.m.did = Append(q.m.did, x)
                                                        /\ x = "i" \/ AtBoundary(q.m.hc)
            /\ \A x \in {"i", "c"} :
                 Len(t.m.did) = Len(q.m.did) + 1 /\ t.m.did[Len(t.m.did)] = x
                 /\ (x = "i" \/ AtBoundary(q.m.hc)) => Begins(b, q)
<1> DEFINE t == Turn(b, q)
           l == Len(q.m.did)
<1>0. q.m \in Worlds /\ q.m.did \in Seq(Deeds) /\ l \in Nat
  BY LenProperties DEF Places, Worlds
<1>1. ASSUME NEW x \in Deeds PROVE Len(Append(q.m.did, x)) = l + 1 /\ Append(q.m.did, x)[l + 1] = x
  BY <1>0, AppendProperties
<1>2. CASE InSpan(b, q)
  <2>1. t.m = Clock(q.m, 1)
    BY <1>2 DEF Turn, Clocked
  <2>2. t.m.did = Append(q.m.did, "c") /\ "c" \in Deeds
    <3>1. Clock(q.m, 1).did = q.m.did \o [k \in 1..1 |-> "c"]
      BY <1>0, Clocks
    <3>2. [k \in 1..1 |-> "c"] = <<"c">>
      OBVIOUS
    <3> QED BY <1>0, <2>1, <3>1, <3>2 DEF Deeds
  <2>3. Begins(b, q) <=> AtBoundary(q.m.hc)
    BY <1>2 DEF Begins, InSpan
  <2>4. Settled(b, q)
    BY <1>2 DEF Settled
  <2>5. Len(t.m.did) = l + 1 /\ t.m.did[Len(t.m.did)] = "c"
    BY <1>1, <2>2
  <2> QED BY <2>2, <2>3, <2>4, <2>5
<1>3. CASE Due(b, q) /\ ~InSpan(b, q)
  <2>1. ~Begins(b, q)
    BY <1>3 DEF Begins
  <2>2. t.m = IF b[q.cursor].input = "raw" THEN q.m ELSE Apply(q.m, b[q.cursor].input)
    BY <1>3 DEF Turn, Applied
  <2>3. CASE b[q.cursor].input = "raw"
    BY <1>0, <2>1, <2>2, <2>3
  <2>4. CASE b[q.cursor].input # "raw"
    <3> DEFINE v == b[q.cursor].input
    <3>1. v \in Inputs /\ v \in Deeds
      BY <1>3, <2>4 DEF Due, IsBook, Entries, Deeds
    <3>2. t.m.did = Append(q.m.did, v)
      BY <1>0, <2>2, <2>4, <3>1, Applies
    <3>3. v # "i" /\ v # "c"
      BY <3>1, RewindAssumption
    <3>4. Len(t.m.did) = l + 1 /\ t.m.did[Len(t.m.did)] = v
      BY <1>1, <3>1, <3>2
    <3> QED BY <2>1, <3>3, <3>4
  <2> QED BY <2>3, <2>4
<1>4. CASE ~Due(b, q)
  <2>1. Begins(b, q) /\ Settled(b, q)
    BY <1>4 DEF Begins, Settled
  <2>2. t.m.did = Append(q.m.did, "i")
    BY <1>0, <1>4, Steps DEF Turn, InSpan, Stepped
  <2> QED BY <2>1, <2>2
<1> QED BY <1>2, <1>3, <1>4

\* Something is done, the nth time, between two places of a path ...
Crossing(b, x, s, n) ==
  /\ IsBook(b) /\ x \in Places /\ Leads(b, x, s)
  /\ n \in Nat /\ Len(x.m.did) < n /\ n <= Len(s.m.did)

\* ... and is done at the place q.
CrossedAt(b, x, s, n, q) ==
  /\ Leads(b, x, q) /\ Leads(b, q, s) /\ q # s
  /\ Len(q.m.did) + 1 = n
  /\ Len(Turn(b, q).m.did) = n /\ Turn(b, q).m.did[n] = s.m.did[n]

\* Whatever was done on the way was done at a place on the way.
LEMMA Crosses ==
  ASSUME NEW b, NEW x, NEW s, NEW n, Crossing(b, x, s, n)
  PROVE  \E q : CrossedAt(b, x, s, n, q)
<1> USE DEF Crossing
<1> DEFINE Found(q) == CrossedAt(b, x, s, n, q)
<1> SUFFICES ASSUME \A q : ~Found(q) PROVE FALSE
  OBVIOUS
<1> DEFINE Q == {q \in Places : Leads(b, x, q) /\ (Leads(b, q, s) => Len(q.m.did) < n)}
<1>0. s \in Places /\ Leads(b, s, s) /\ Leads(b, x, x)
  BY Path
<1>1. ASSUME NEW q \in Q PROVE Turn(b, q) \in Q
  <2> DEFINE t == Turn(b, q)
  <2>1. q \in Places /\ t \in Places /\ Far(t) > Far(q) /\ Leads(b, x, q)
    BY Turns1
  <2>2. Leads(b, x, t) /\ Leads(b, q, t)
    BY <2>1, Path
  <2>3. ASSUME Leads(b, t, s) PROVE Len(t.m.did) < n
    <3>1. Leads(b, q, s)
      BY <2>1, <2>2, <2>3, Path
    <3>2. q # s
      <4>1. s = t \/ Far(s) > Far(t)
        BY <2>1, <2>3, Onward
      <4>2. Far(s) \in Nat /\ Far(q) \in Nat /\ Far(t) \in Nat
        BY <1>0, <2>1, FarIs
      <4> HIDE DEF t
      <4> QED BY <2>1, <4>1, <4>2
    <3>3. q.m.did \in Seq(Deeds) /\ Len(q.m.did) \in Nat /\ Len(q.m.did) < n
      BY <2>1, <3>1, LenProperties DEF Places, Worlds
    <3>4. Len(t.m.did) = Len(q.m.did) \/ Len(t.m.did) = Len(q.m.did) + 1
      <4>1. t.m.did = q.m.did \/ \E y \in Deeds : t.m.did = Append(q.m.did, y)
        BY <2>1, Turns1
      <4> HIDE DEF t
      <4> QED BY <3>3, <4>1, AppendProperties
    <3>5. Begun(t.m.did, s.m.did)
      BY <2>1, <2>3, Doings
    <3>6. ~Found(q)
      OBVIOUS
    <3> HIDE DEF t
    <3>7. SUFFICES ASSUME ~(Len(t.m.did) < n) PROVE FALSE
      OBVIOUS
    <3>8. Len(q.m.did) + 1 = n /\ Len(t.m.did) = n
      BY <3>3, <3>4, <3>7
    <3>9. n \in 1..n
      BY <3>3, <3>8
    <3>10. t.m.did[n] = s.m.did[n]
      BY <3>5, <3>8, <3>9 DEF Begun
    <3>11. Found(q)
      BY <2>1, <3>1, <3>2, <3>8, <3>10 DEF t, CrossedAt
    <3> QED BY <3>6, <3>11
  <2> HIDE DEF t
  <2>4. t \in Q
    BY <2>1, <2>2, <2>3
  <2> QED BY <2>4 DEF t
<1>2. Closed(b, Q) /\ x \in Q
  BY <1>0, <1>1 DEF Closed
<1>3. s \in Q
  <2> HIDE DEF Q
  <2> QED BY <1>2 DEF Leads
<1>4. Len(s.m.did) < n
  BY <1>0, <1>3
<1>5. Len(s.m.did) \in Nat
  BY <1>0, LenProperties DEF Places, Worlds
<1> QED BY <1>4, <1>5

\* What a replay notes: the places it goes through where something begins.
LEMMA RunNotes ==
  ASSUME Turns \in Nat, NEW b, IsBook(b), NEW x \in Places, NEW target \in Nat,
         NEW h, Leads(b, x, h), Stopped(b, h, target), Far(h) <= Turns
  PROVE  /\ \A t \in Run(b, x, target).noted :
              \E q : Leads(b, x, q) /\ Leads(b, q, h) /\ q # h /\ Begins(b, q) /\ q.m.hc = t
         /\ \A q : Leads(b, x, q) /\ Leads(b, q, h) /\ q.m.hc < target /\ Begins(b, q)
                     => q.m.hc \in Run(b, x, target).noted
<1>1. PICK g : Ran(g, b, x, target) /\ Run(b, x, target) = g[Turns]
  BY RunIs
<1>2. ASSUME NEW n \in 0..Turns
      PROVE  g[n].at \in Places /\ Leads(b, x, g[n].at)
  BY <1>1, RunLeads, Path
<1>3. ASSUME NEW n \in 0..(Turns - 1)
      PROVE  n \in 0..Turns /\ n + 1 \in 0..Turns /\ g[n + 1] = RunOn(b, g[n], target)
  <2>1. n + 1 \in 1..Turns /\ n + 1 \in 0..Turns /\ (n + 1) - 1 = n /\ n \in 0..Turns
    OBVIOUS
  <2> QED BY <1>1, <2>1 DEF Ran
<1>4. g[0].at = x /\ g[0].noted = {} /\ Turns \in 0..Turns /\ 0 \in 0..Turns
  BY <1>1 DEF Ran
<1>5. h \in Places /\ Far(h) \in Nat
  BY Path, FarIs
<1>6. \A t \in g[Turns].noted :
        \E q : Leads(b, x, q) /\ Leads(b, q, h) /\ q # h /\ Begins(b, q) /\ q.m.hc = t
  <2> DEFINE Seen(t) == \E q : Leads(b, x, q) /\ Leads(b, q, h) /\ q # h /\ Begins(b, q) /\ q.m.hc = t
             T == {n \in 0..Turns : Leads(b, g[n].at, h) /\ \A t \in g[n].noted : Seen(t)}
  <2>1. 0 \in T
    BY <1>4
  <2>2. ASSUME NEW n \in 0..(Turns - 1), n \in T PROVE n + 1 \in T
    <3> DEFINE q == g[n].at
    <3>1. g[n + 1] = RunOn(b, g[n], target) /\ n + 1 \in 0..Turns /\ q \in Places /\ Leads(b, x, q)
      BY <1>2, <1>3
    <3>2. Leads(b, q, h) /\ \A t \in g[n].noted : Seen(t)
      BY <2>2
    <3> HIDE DEF Seen
    <3>3. CASE Stopped(b, q, target)
      <4>1. g[n + 1] = g[n]
        BY <3>1, <3>3 DEF RunOn
      <4> QED BY <3>1, <3>2, <4>1
    <3>4. CASE ~Stopped(b, q, target)
      <4>1. g[n + 1].at = Turn(b, q) /\ g[n + 1].noted = g[n].noted \cup Note(b, q) /\ q # h
        BY <3>1, <3>4 DEF RunOn
      <4>2. Leads(b, Turn(b, q), h)
        BY <3>1, <3>2, <4>1, Onward
      <4>3. ASSUME NEW t \in Note(b, q) PROVE Seen(t)
        <5>1. Begins(b, q) /\ q.m.hc = t
          BY DEF Note
        <5> HIDE DEF q
        <5> QED BY <3>1, <3>2, <4>1, <5>1 DEF Seen
      <4>4. \A t \in g[n + 1].noted : Seen(t)
        BY <3>2, <4>1, <4>3
      <4> QED BY <3>1, <4>1, <4>2, <4>4
    <3> QED BY <3>3, <3>4
  <2>3. Turns \in T
    <3> HIDE DEF T
    <3> QED BY <1>4, <2>1, <2>2, Inductive
  <2> QED BY <2>3
<1>7. ASSUME NEW q, Leads(b, x, q), Leads(b, q, h), q.m.hc < target, Begins(b, q)
      PROVE  q.m.hc \in g[Turns].noted
  <2> DEFINE T == {n \in 0..Turns : q.m.hc \in g[n].noted \/ (Leads(b, g[n].at, q) /\ Far(g[n].at) >= n)}
  <2>0. q \in Places /\ Far(q) \in Nat /\ q.m.hc \in Nat
    <3>1. q \in Places
      BY <1>7, Path
    <3> QED BY <3>1, FarIs DEF Places, Worlds
  <2>1. 0 \in T
    <3>1. Far(x) \in Nat
      BY FarIs
    <3> QED BY <1>4, <1>7, <3>1
  <2>2. ASSUME NEW n \in 0..(Turns - 1), n \in T PROVE n + 1 \in T
    <3> DEFINE p == g[n].at
    <3>1. g[n + 1] = RunOn(b, g[n], target) /\ n + 1 \in 0..Turns /\ p \in Places
      BY <1>2, <1>3
    <3>2. CASE q.m.hc \in g[n].noted
      <4>1. q.m.hc \in g[n + 1].noted
        BY <3>1, <3>2 DEF RunOn
      <4> QED BY <3>1, <4>1
    <3>3. CASE Leads(b, p, q) /\ Far(p) >= n
      <4>1. ~Stopped(b, p, target)
        <5>1. q.m.hc >= p.m.hc
          BY <3>1, <3>3, Onward
        <5>2. p.m.hc \in Nat
          BY <3>1 DEF Places, Worlds
        <5>3. ~(p.m.hc >= target)
          BY <1>7, <2>0, <5>1, <5>2
        <5> QED BY <5>3 DEF Stopped
      <4>2. g[n + 1].at = Turn(b, p) /\ g[n + 1].noted = g[n].noted \cup Note(b, p)
        BY <3>1, <4>1 DEF RunOn
      <4>3. CASE p = q
        <5>1. q.m.hc \in Note(b, p)
          BY <1>7, <4>3 DEF Note
        <5> QED BY <3>1, <4>2, <5>1
      <4>4. CASE p # q
        <5> DEFINE t == g[n + 1].at
        <5>1. Leads(b, t, q)
          BY <3>1, <3>3, <4>2, <4>4, Onward
        <5>2. Far(t) > Far(p) /\ Far(t) \in Nat /\ Far(p) \in Nat
          <6>1. t \in Places /\ Far(t) > Far(p)
            BY <3>1, <4>2, Turns1
          <6> QED BY <3>1, <6>1, FarIs
        <5>3. Far(t) >= n + 1
          <6> HIDE DEF t, p
          <6> QED BY <3>3, <5>2
        <5> QED BY <3>1, <5>1, <5>3
      <4> QED BY <4>3, <4>4
    <3> QED BY <2>2, <3>2, <3>3
  <2>3. Turns \in T
    <3> HIDE DEF T
    <3> QED BY <1>4, <2>1, <2>2, Inductive
  <2>4. ~(Leads(b, g[Turns].at, q) /\ Far(g[Turns].at) >= Turns)
    <3> DEFINE p == g[Turns].at
    <3>1. SUFFICES ASSUME Leads(b, p, q), Far(p) >= Turns PROVE FALSE
      OBVIOUS
    <3>2. p \in Places /\ Far(p) \in Nat
      BY <1>2, <1>4, FarIs
    <3>3. q = p \/ Far(q) > Far(p)
      BY <3>1, <3>2, Onward
    <3>4. h.m.hc >= target /\ h.m.hc \in Nat
      BY <1>5 DEF Stopped, Places, Worlds
    <3>5. h # q
      BY <1>7, <2>0, <3>4
    <3>6. Far(h) > Far(q)
      BY <1>7, <2>0, <3>5, Onward
    <3> HIDE DEF p
    <3> QED BY <1>5, <2>0, <3>1, <3>2, <3>3, <3>6
  <2> QED BY <2>3, <2>4
<1> QED BY <1>1, <1>6, <1>7

\* Where something begins on the path, the timeline began it ...
LEMMA BeginsBegan ==
  ASSUME HTypes, Kept, HTimed, NEW q, Leads(Book, From(1), q), Leads(Book, q, End), q # End, Begins(Book, q)
  PROVE  q.m.hc \in Began
<1> DEFINE t == Turn(Book, q)
           l == Len(q.m.did)
<1>1. IsBook(Book) /\ From(1) \in Places /\ q \in Places
  BY KeptGives, TypesGive, Path
<1>2. t \in Places /\ Leads(Book, t, End) /\ Leads(Book, From(1), t)
  BY <1>1, Turns1, Onward, Path
<1>3. PICK x \in {"i", "c"} : t.m.did = Append(q.m.did, x) /\ (x = "i" \/ AtBoundary(q.m.hc))
  BY <1>1, BeginsIs
<1>4. q.m.did \in Seq(Deeds) /\ l \in Nat /\ x \in Deeds
  BY <1>1, LenProperties DEF Places, Worlds, Deeds
<1>5. Len(t.m.did) = l + 1 /\ t.m.did[l + 1] = x
  BY <1>3, <1>4, AppendProperties
<1> HIDE DEF t
<1>6. Len(t.m.did) \in 0..Len(timeline.did) /\ \A n \in 1..Len(t.m.did) : timeline.did[n] = t.m.did[n]
  BY <1>2, HoursThere
<1>7. TimelineHc[l] = q.m.hc
  BY HoursThere
<1> HIDE DEF l
<1>8. l + 1 \in 1..Len(timeline.did) /\ timeline.did[l + 1] = x /\ (l + 1) - 1 = l
  BY <1>4, <1>5, <1>6
<1>9. l + 1 \in DOMAIN timeline.did
  BY <1>8, LenProperties DEF HTypes, Worlds
<1>10. TimelineHc[(l + 1) - 1] \in Began
  BY <1>3, <1>7, <1>8, <1>9 DEF Began
<1> QED BY <1>7, <1>8, <1>10

\* ... and whatever the timeline began since the oldest checkpoint begins at a
\* place on the path.
LEMMA BeganBegins ==
  ASSUME HTypes, Kept, HTimed, NEW h \in Began, checkpoints[1].hc <= h
  PROVE  \E q : /\ Leads(Book, From(1), q) /\ Leads(Book, q, End) /\ q # End
                /\ Begins(Book, q) /\ q.m.hc = h
<1> DEFINE d == timeline.did
           l == Len(From(1).m.did)
<1>1. /\ IsBook(Book) /\ From(1) \in Places /\ End.m = timeline /\ timeline \in Worlds
      /\ Leads(Book, From(1), End) /\ Leads(Book, From(1), From(1)) /\ checkpoints[1].hc = From(1).m.hc
      /\ Timed(timeline)
  BY KeptGives, TypesGive, TimedThere DEF HTypes, End
<1>2. PICK n \in DOMAIN d :
        h = TimelineHc[n - 1] /\ (d[n] = "i" \/ (d[n] = "c" /\ AtBoundary(TimelineHc[n - 1])))
  BY DEF Began
<1>3. n \in 1..Len(d) /\ Len(d) \in Nat /\ n \in Nat /\ n - 1 \in 0..Len(d)
  BY <1>1, LenProperties DEF Worlds
<1>4. l \in 0..Len(d) /\ TimelineHc[l] = From(1).m.hc
  BY <1>1, HoursThere
<1> HIDE DEF l
<1>5. l < n
  <2>1. SUFFICES ASSUME ~(l < n) PROVE FALSE
    OBVIOUS
  <2>2. n \in 0..l /\ n \in 1..Len(d) /\ l \in 0..Len(d) /\ n - 1 \in 0..n
    BY <1>3, <1>4, <2>1
  <2>3. TimelineHc[n] <= TimelineHc[l] /\ TimelineHc[n] \in Nat /\ TimelineHc[l] \in Nat
    BY <1>1, <2>2, HoursGoOn
  <2>4. TimelineHc[n] = Tick(TimelineHc[n - 1], d[n])
    BY <1>1, <2>2, HoursAre DEF Timing
  <2>5. TimelineHc[n - 1] \in Nat
    <3>1. n \in 0..Len(d)
      BY <1>3
    <3> QED BY <1>1, <2>2, <3>1, HoursGoOn
  <2>6. TimelineHc[n] > TimelineHc[n - 1]
    BY <1>2, <2>4, <2>5, TickIs
  <2>7. TimelineHc[l] <= TimelineHc[n - 1]
    BY <1>1, <1>2, <1>4
  <2> QED BY <2>3, <2>5, <2>6, <2>7
<1>6. PICK q : /\ Leads(Book, From(1), q) /\ Leads(Book, q, End) /\ q # End
               /\ Len(q.m.did) + 1 = n
               /\ Len(Turn(Book, q).m.did) = n /\ Turn(Book, q).m.did[n] = End.m.did[n]
  <2>1. Len(From(1).m.did) < n /\ n <= Len(End.m.did)
    BY <1>1, <1>3, <1>5 DEF l
  <2>2. Crossing(Book, From(1), End, n)
    BY <1>1, <1>3, <2>1 DEF Crossing
  <2>3. PICK q : CrossedAt(Book, From(1), End, n, q)
    BY <2>2, Crosses
  <2> QED BY <2>3 DEF CrossedAt
<1>7. q \in Places /\ Len(q.m.did) \in Nat
  <2>1. q \in Places
    BY <1>1, <1>6, Path
  <2> QED BY <2>1, LenProperties DEF Places, Worlds
<1>8. Len(q.m.did) = n - 1
  BY <1>6, <1>7
<1>9. q.m.hc = h
  BY <1>2, <1>6, <1>8, HoursThere
<1>10. Turn(Book, q).m.did[n] = d[n]
  BY <1>1, <1>6
<1>11. Begins(Book, q)
  <2>1. d[n] \in {"i", "c"} /\ (d[n] = "i" \/ AtBoundary(q.m.hc))
    BY <1>2, <1>9
  <2> QED BY <1>1, <1>6, <1>7, <1>10, <2>1, BeginsIs
<1> QED BY <1>6, <1>9, <1>11

\* So a search back sees what the program began.
LEMMA Sees ==
  ASSUME HTypes, Kept, HTimed
  PROVE  Boundaries(machine.hc) = {h \in Began : checkpoints[1].hc <= h /\ h < machine.hc}
<1> DEFINE now == machine.hc
           C == CheckpointBefore(now)
<1>1. /\ IsBook(Book) /\ Turns \in Nat /\ 1 \in 1..Len(checkpoints) /\ Len(checkpoints) \in Nat
      /\ DOMAIN checkpoints = 1..Len(checkpoints) /\ now \in Nat /\ timeline.hc \in Nat
      /\ now <= timeline.hc /\ Far(End) <= Turns /\ Settled(Book, End) /\ End.m = timeline /\ End \in Places
  BY KeptGives, TypesGive, LenProperties DEF HTypes, Worlds, End
<1>2. ASSUME NEW i \in 1..Len(checkpoints)
      PROVE  /\ From(i) \in Places /\ Leads(Book, From(1), From(i)) /\ Leads(Book, From(i), End)
             /\ checkpoints[i].hc = From(i).m.hc /\ checkpoints[i].hc \in Nat
  <2>1. From(i) \in Places
    BY TypesGive
  <2>2. From(i).m.hc \in Nat
    BY <2>1 DEF Places, Worlds
  <2> QED BY <2>1, <2>2, KeptGives
<1>3. \A i : i \in C <=> i \in 1..Len(checkpoints) /\ checkpoints[i].hc < now
  BY <1>1 DEF CheckpointBefore
<1> HIDE DEF C
<1>4. ASSUME NEW i \in C
      PROVE  LET target == IntervalEnd(i, now)
             IN target \in Nat /\ target <= now /\ Stopped(Book, End, target)
  <2> DEFINE target == IntervalEnd(i, now)
  <2>1. target = now \/ (i + 1 \in C /\ target = checkpoints[i + 1].hc)
    BY DEF IntervalEnd, C
  <2>2. target \in Nat /\ target <= now
    <3>1. CASE target = now
      BY <1>1, <3>1
    <3>2. CASE i + 1 \in C /\ target = checkpoints[i + 1].hc
      <4>1. i + 1 \in 1..Len(checkpoints) /\ checkpoints[i + 1].hc < now
        BY <1>3, <3>2
      <4>2. checkpoints[i + 1].hc \in Nat
        BY <1>2, <4>1
      <4> QED BY <1>1, <3>2, <4>1, <4>2
    <3> QED BY <2>1, <3>1, <3>2
  <2> HIDE DEF target
  <2>3. timeline.hc >= target
    BY <1>1, <2>2
  <2> QED BY <1>1, <2>2, <2>3 DEF Stopped, target
<1>5. ASSUME NEW h \in Boundaries(now) PROVE h \in Began /\ checkpoints[1].hc <= h /\ h < now
  <2>1. PICK i \in C : h \in Replayed(i, IntervalEnd(i, now)).noted /\ h < now
    BY DEF Boundaries, C
  <2>2. i \in 1..Len(checkpoints)
    BY <1>3
  <2>3. IntervalEnd(i, now) \in Nat /\ Stopped(Book, End, IntervalEnd(i, now))
    BY <1>4
  <2>4. PICK q : Leads(Book, From(i), q) /\ Leads(Book, q, End) /\ q # End /\ Begins(Book, q) /\ q.m.hc = h
    BY <1>1, <1>2, <2>1, <2>2, <2>3, RunNotes DEF Replayed
  <2>5. Leads(Book, From(1), q)
    BY <1>1, <1>2, <2>2, <2>4, Path
  <2>6. q.m.hc \in Began
    BY <2>4, <2>5, BeginsBegan
  <2>7. q.m.hc >= From(1).m.hc
    BY <1>1, <1>2, <2>5, Onward
  <2>8. q.m.hc \in Nat /\ From(1).m.hc \in Nat
    <3>1. q \in Places /\ From(1) \in Places
      BY <1>1, <1>2, <2>5, Path
    <3> QED BY <3>1 DEF Places, Worlds
  <2> QED BY <1>1, <1>2, <2>1, <2>4, <2>6, <2>7, <2>8
<1>6. ASSUME NEW h \in Began, checkpoints[1].hc <= h, h < now PROVE h \in Boundaries(now)
  <2>1. PICK q : /\ Leads(Book, From(1), q) /\ Leads(Book, q, End) /\ q # End
                 /\ Begins(Book, q) /\ q.m.hc = h
    BY <1>6, BeganBegins
  <2>2. q \in Places /\ h \in Nat
    <3>1. q \in Places
      BY <1>1, <1>2, <2>1, Path
    <3> QED BY <2>1, <3>1 DEF Places, Worlds
  <2> DEFINE S == {i \in 1..Len(checkpoints) : checkpoints[i].hc <= h}
             i == Largest(S)
  <2>3. i \in S /\ \A j \in S : j <= i
    <3>1. 1 \in S /\ S \subseteq 0..Len(checkpoints)
      BY <1>1, <1>6
    <3> HIDE DEF S
    <3> QED BY <1>1, <3>1, LargestIn
  <2> HIDE DEF i
  <2>4. i \in 1..Len(checkpoints) /\ checkpoints[i].hc <= h /\ i \in Nat
    BY <2>3
  <2>5. i \in C
    <3>1. checkpoints[i].hc < now
      BY <1>1, <1>2, <1>6, <2>2, <2>4
    <3> QED BY <1>3, <2>4, <3>1
  <2> DEFINE target == IntervalEnd(i, now)
  <2>6. h < target
    <3>1. CASE i + 1 \in C
      <4>1. i + 1 \in 1..Len(checkpoints) /\ target = checkpoints[i + 1].hc
        BY <1>3, <3>1 DEF IntervalEnd, C
      <4>2. ~(i + 1 <= i)
        BY <2>4
      <4>3. i + 1 \notin S
        BY <2>3, <4>2
      <4>4. ~(checkpoints[i + 1].hc <= h) /\ checkpoints[i + 1].hc \in Nat
        BY <1>2, <4>1, <4>3
      <4> HIDE DEF target
      <4> QED BY <2>2, <4>1, <4>4
    <3>2. CASE i + 1 \notin C
      BY <1>6, <3>2 DEF IntervalEnd, C
    <3> QED BY <3>1, <3>2
  <2>7. Leads(Book, From(i), q)
    <3>1. Leads(Book, From(i), q) \/ Leads(Book, q, From(i))
      BY <1>1, <1>2, <2>1, <2>4, Order
    <3>2. ASSUME Leads(Book, q, From(i)) PROVE Leads(Book, From(i), q)
      <4>1. Settled(Book, q)
        BY <1>1, <2>1, <2>2, BeginsIs
      <4>2. From(i) = q \/ From(i).m.hc > q.m.hc
        BY <1>1, <2>2, <3>2, <4>1, Onward
      <4>3. From(i) = q
        BY <1>2, <2>1, <2>2, <2>4, <4>2
      <4> QED BY <1>1, <2>2, <4>3, Path
    <3> QED BY <3>1, <3>2
  <2>8. target \in Nat /\ Stopped(Book, End, target)
    BY <1>4, <2>5
  <2>9. h \in Replayed(i, target).noted
    <3> HIDE DEF target
    <3>1. q.m.hc < target
      BY <2>1, <2>6
    <3>2. From(i) \in Places /\ Leads(Book, From(i), End)
      BY <1>2, <2>4
    <3>3. q.m.hc \in Run(Book, From(i), target).noted
      BY <1>1, <2>1, <2>7, <2>8, <3>1, <3>2, RunNotes
    <3> QED BY <2>1, <3>3 DEF Replayed
  <2> QED BY <1>6, <2>5, <2>9 DEF Boundaries, C
<1>7. \A h \in Boundaries(now) : h \in {k \in Began : checkpoints[1].hc <= k /\ k < now}
  BY <1>5
<1>8. \A h \in {k \in Began : checkpoints[1].hc <= k /\ k < now} : h \in Boundaries(now)
  BY <1>6
<1> HIDE DEF now
<1>9. Boundaries(now) = {k \in Began : checkpoints[1].hc <= k /\ k < now}
  BY <1>7, <1>8
<1> QED BY <1>9 DEF now

\* A search back sees every instruction the program began since the oldest
\* checkpoint, across checkpoints and inside raw spans, and nothing else
\* (rewind.cpp go_back, replay, apply_due).
THEOREM SearchAlwaysSees == Spec => []SearchSeesAll
<1>1. Init => SInv
  <2> SUFFICES ASSUME Init PROVE HInv /\ HTimed
    BY DEF SInv
  <2>1. HInv
    BY InitKept
  <2>2. checkpoints = <<Checkpoint(Fresh(0), 0)>> /\ Checkpoint(Fresh(0), 0).state = Fresh(0)
    BY DEF Init, Checkpoint
  <2>3. Len(checkpoints) = 1 /\ checkpoints[1].state = Fresh(0)
    BY <2>2
  <2>4. \A i \in 1..Len(checkpoints) : i = 1
    BY <2>3
  <2>5. Timed(Fresh(0))
    BY TimedFresh
  <2> QED BY <2>1, <2>3, <2>4, <2>5 DEF HTimed
<1>2. SInv /\ [Next]_vars => SInv'
  BY TimedKept
<1>3. SInv => SearchSeesAll
  <2> SUFFICES ASSUME SInv, ~midspan PROVE SearchSeesAll
    BY DEF SearchSeesAll
  <2>1. HTypes /\ Kept /\ HTimed
    BY DEF SInv, HInv
  <2> QED BY <2>1, Sees DEF SearchSeesAll
<1> QED BY <1>1, <1>2, <1>3, PTL DEF Spec

-----------------------------------------------------------------------------
(* With the keys and the fast load setting fed in.                         *)

LEMMA FeedIs ==
  \A on \in BOOLEAN : Keys(on) \in Inputs /\ FastLoad(on) \in Inputs
BY InputsAssumption DEF Keys, FastLoad

\* What the Engine feeds the history is only ever the history's own inputs and
\* jobs, so all of the above holds of the two together (engine.cpp sync_keys,
\* service_tape, restart_history).
THEOREM FeedingKeeps == SpecInputs => Spec
<1> DEFINE Flags == {keys, fast} \subseteq BOOLEAN
<1>1. InitInputs => Init /\ Flags
  BY DEF InitInputs
<1>2. ASSUME Flags, [NextInputs]_allVars PROVE Flags' /\ [Next]_vars
  <2>1. CASE UNCHANGED allVars
    BY <1>2, <2>1 DEF allVars, outside
  <2>2. CASE PressOrRelease \/ SetFastLoad
    BY <1>2, <2>2 DEF PressOrRelease, SetFastLoad
  <2>3. CASE SyncKeys
    <3>1. UNCHANGED vars \/ Input(Keys(keys))
      BY <2>3 DEF SyncKeys
    <3>2. Keys(keys) \in Inputs
      BY <1>2, FeedIs
    <3>3. UNCHANGED <<keys, fast>>
      BY <2>3 DEF SyncKeys
    <3> QED BY <1>2, <3>1, <3>2, <3>3 DEF Next
  <2>4. CASE ServiceFastLoad
    <3>1. UNCHANGED vars \/ Input(FastLoad(fast))
      BY <2>4 DEF ServiceFastLoad
    <3>2. FastLoad(fast) \in Inputs
      BY <1>2, FeedIs
    <3>3. UNCHANGED <<keys, fast>>
      BY <2>4 DEF ServiceFastLoad
    <3> QED BY <1>2, <3>1, <3>2, <3>3 DEF Next
  <2>5. CASE RestartInputs
    BY <1>2, <2>5 DEF RestartInputs, Next
  <2>6. CASE Move
    BY <1>2, <2>6 DEF Move, Next
  <2> QED BY <1>2, <2>1, <2>2, <2>3, <2>4, <2>5, <2>6 DEF NextInputs
<1>3. SpecInputs => []Flags
  BY <1>1, <1>2, PTL DEF SpecInputs
<1> QED BY <1>1, <1>2, <1>3, PTL DEF SpecInputs, Spec

\* An input is the last of its kind the machine had.
LEMMA LastIs ==
  ASSUME NEW m \in Worlds, NEW off \in Inputs, NEW on \in Inputs, NEW x \in {off, on}, NEW begin
  PROVE  LastOf(Apply(m, x), off, on, begin) = (x = on)
<1> DEFINE d == Apply(m, x).did
           had == {i \in DOMAIN d : d[i] \in {off, on}}
           n == Len(m.did) + 1
<1>1. m.did \in Seq(Deeds) /\ Len(m.did) \in Nat /\ x \in Deeds
  BY LenProperties DEF Worlds, Deeds
<1>2. d = Append(m.did, x)
  BY DEF Apply, Worlds
<1>3. d \in Seq(Deeds) /\ Len(d) = n /\ d[n] = x
  BY <1>1, <1>2, AppendProperties
<1> HIDE DEF d
<1>4. DOMAIN d = 1..n /\ n \in Nat /\ n \in 1..n
  BY <1>1, <1>3, LenProperties
<1>5. had \subseteq 0..n /\ n \in had
  BY <1>3, <1>4
<1>6. Largest(had) = n
  <2> HIDE DEF had
  <2>1. Largest(had) \in had /\ n <= Largest(had)
    BY <1>4, <1>5, LargestIn
  <2>2. Largest(had) \in 0..n
    BY <1>5, <2>1
  <2> QED BY <1>4, <2>1, <2>2
<1>7. LastOf(Apply(m, x), off, on, begin) = IF had = {} THEN begin ELSE d[Largest(had)] = on
  BY DEF LastOf, d
<1>8. had # {}
  BY <1>5
<1> HIDE DEF had
<1> QED BY <1>3, <1>6, <1>7, <1>8

\* What the raw span of step_tstates leaves last in the log is that span,
\* unless trimming left nothing.
LEMMA RawIsLast ==
  ASSUME HTypes, NEW span \in RawSpans, Raw(span), log' # <<>>
  PROVE  log'[Len(log')].input = "raw"
<1> DEFINE e == Stamped("raw", span)
           lg == Append(KeptLog, e)
           w == Clock(machine, span)
<1>1. machine \in Worlds /\ log_base \in Nat /\ span \in Nat
  BY RewindAssumption DEF HTypes
<1>2. e \in Entries /\ e.input = "raw"
  BY <1>1 DEF Stamped, Entries, Worlds
<1>3. KeptLog \in Seq(Entries)
  BY KeptTypes
<1> HIDE DEF e
<1>4. lg \in Seq(Entries) /\ Len(lg) = Len(KeptLog) + 1 /\ lg[Len(KeptLog) + 1] = e /\ Len(KeptLog) \in Nat
  BY <1>2, <1>3, AppendProperties, LenProperties
<1>5. OnLiveInstruction(w, KeptCheckpoints, lg, KeptFrame)
  BY DEF Raw, e
<1> HIDE DEF lg
<1>6. Len(lg) \in Nat /\ lg[Len(lg)] = e
  BY <1>4
<1>7. CASE log' = lg
  BY <1>2, <1>6, <1>7
<1>8. CASE log' # lg
  <2> DEFINE cps == Append(KeptCheckpoints, Checkpoint(w, log_base + Len(lg)))
  <2>1. Trim(cps, lg, w.hc)
    BY <1>5, <1>8 DEF OnLiveInstruction
  <2>2. w \in Worlds /\ w.hc \in Nat
    <3>1. w \in Worlds
      BY <1>1, Clocks
    <3> QED BY <3>1 DEF Worlds
  <2> HIDE DEF w
  <2>3. KeptCheckpoints \in Seq(Points) /\ Len(KeptCheckpoints) \in Nat
    BY KeptTypes, LenProperties
  <2>4. Checkpoint(w, log_base + Len(lg)) \in Points
    BY <1>1, <1>6, <2>2 DEF Checkpoint, Points
  <2>5. cps \in Seq(Points) /\ Len(cps) > 0
    BY <2>3, <2>4, AppendProperties
  <2> HIDE DEF cps
  <2>6. log_base' \in Nat /\ log_base' >= log_base /\ log' = SubSeq(lg, (log_base' - log_base) + 1, Len(lg))
    BY <1>1, <1>4, <2>1, <2>2, <2>5, TrimIs
  <2> DEFINE first == (log_base' - log_base) + 1
             k == (Len(lg) - first) + 1
  <2>7. first \in Nat \ {0} /\ Len(lg) \in 0..Len(lg)
    <3>1. \A n \in Nat : n >= log_base => (n - log_base) + 1 \in Nat \ {0}
      BY <1>1
    <3>2. first \in Nat \ {0}
      BY <2>6, <3>1
    <3>3. Len(lg) \in 0..Len(lg)
      BY <1>6
    <3> QED BY <3>2, <3>3
  <2> HIDE DEF first
  <2>8. /\ log' = SubSeq(lg, first, Len(lg))
        /\ log' \in Seq(Entries)
        /\ Len(log') = IF first <= Len(lg) THEN k ELSE 0
        /\ \A i \in 1..k : log'[i] = lg[(first + i) - 1]
    BY <1>4, <2>6, <2>7, Piece DEF first
  <2>9. first <= Len(lg)
    BY <2>8, EmptySeq
  <2>10. k \in 1..k /\ (first + k) - 1 = Len(lg) /\ Len(log') = k
    BY <1>6, <2>7, <2>8, <2>9
  <2> HIDE DEF k
  <2>11. log'[k] = lg[Len(lg)]
    BY <2>8, <2>10
  <2> QED BY <1>2, <1>6, <2>10, <2>11
<1> QED BY <1>7, <1>8

\* Looking at the keys while live leaves the machine with them.
KeysInv == HTypes /\ {keys, fast} \subseteq BOOLEAN /\ KeysFollow

LEMMA KeysFollowHolds ==
  ASSUME KeysInv, [NextInputs]_allVars, HTypes'
  PROVE  KeysInv'
<1>1. CASE UNCHANGED allVars
  BY <1>1 DEF KeysInv, KeysFollow, MachineKeys, allVars, outside, vars
<1>2. CASE SyncKeys
  <2>1. keys' = keys /\ fast' = fast /\ start' = start /\ keys \in BOOLEAN
    BY <1>2 DEF SyncKeys, KeysInv
  <2>2. CASE UNCHANGED vars /\ keys = (IF live THEN MachineKeys ELSE synced_keys)
    <3>1. MachineKeys' = MachineKeys /\ live' = live
      BY <2>1, <2>2 DEF MachineKeys, vars
    <3> QED BY <2>1, <2>2, <3>1 DEF KeysInv, KeysFollow
  <2>3. CASE Input(Keys(keys))
    <3>1. machine' = Apply(machine, Keys(keys)) /\ machine \in Worlds
      BY <2>3 DEF Input, KeysInv, HTypes
    <3>2. Keys(keys) \in {"k0", "k1"} /\ (Keys(keys) = "k1") = keys
      BY <2>1 DEF Keys
    <3>3. LastOf(Apply(machine, Keys(keys)), "k0", "k1", start.keys) = (Keys(keys) = "k1")
      BY <3>1, <3>2, LastIs, InputsAssumption
    <3>4. MachineKeys' = keys'
      BY <2>1, <3>1, <3>2, <3>3 DEF MachineKeys
    <3> QED BY <2>1, <3>4 DEF KeysInv, KeysFollow
  <2> QED BY <1>2, <2>2, <2>3 DEF SyncKeys
<1>3. CASE PressOrRelease \/ SetFastLoad \/ ServiceFastLoad \/ RestartInputs \/ Move
  <2>1. ~looked' /\ {keys', fast'} \subseteq BOOLEAN
    BY <1>3 DEF PressOrRelease, SetFastLoad, ServiceFastLoad, RestartInputs, Move, KeysInv
  <2> QED BY <2>1 DEF KeysInv, KeysFollow
<1> QED BY <1>1, <1>2, <1>3 DEF NextInputs

\* A step out of the past that leaves another timeline.
LEMMA NewsIs ==
  ASSUME KeysInv, NextInputs, ~live, live', timeline' # timeline, log' # <<>>
  PROVE  \/ keys # synced_keys \/ fast # synced_fast
         \/ log'[Len(log')].input = "raw"
<1>1. CASE PressOrRelease \/ SetFastLoad
  BY <1>1 DEF PressOrRelease, SetFastLoad, vars
<1>2. CASE SyncKeys
  <2>1. ~(UNCHANGED vars)
    BY DEF vars
  <2> QED BY <1>2, <2>1 DEF SyncKeys
<1>3. CASE ServiceFastLoad
  <2>1. ~(UNCHANGED vars)
    BY DEF vars
  <2> QED BY <1>3, <2>1 DEF ServiceFastLoad
<1>4. CASE RestartInputs
  BY <1>4 DEF RestartInputs, Restart, Start
<1>5. CASE Move
  <2>1. CASE StepLive \/ StepPast \/ GoBack \/ ReturnToLive
    BY <2>1 DEF StepLive, StepPast, GoBack, ReturnToLive
  <2>2. ASSUME NEW span \in RawSpans, Raw(span) PROVE log'[Len(log')].input = "raw"
    BY <2>2, RawIsLast DEF KeysInv
  <2> QED BY <1>5, <2>1, <2>2 DEF Move
<1> QED BY <1>1, <1>2, <1>3, <1>4, <1>5 DEF NextInputs

\* Whenever the keys have just been looked at and the machine is live, it has
\* them; and the past is branched from only for what changed since the last
\* look, or for clocks (engine.cpp sync_keys, service_tape).
THEOREM KeysAreNeverNews == SpecInputs => KeysAreNoNews
<1>1. InitInputs => KeysFollow /\ {keys, fast} \subseteq BOOLEAN
  BY DEF InitInputs, KeysFollow
<1>2. KeysInv /\ [NextInputs]_allVars /\ HTypes' => KeysInv'
  BY KeysFollowHolds
<1>3. HInv => HTypes
  BY DEF HInv
<1>4. SpecInputs => []HTypes
  BY <1>3, FeedingKeeps, HistoryKept, PTL
<1>5. KeysInv => KeysFollow
  BY DEF KeysInv
<1>6. HTypes /\ KeysFollow /\ {keys, fast} \subseteq BOOLEAN => KeysInv
  BY DEF KeysInv
<1>7. SpecInputs => []KeysInv
  BY <1>1, <1>2, <1>4, <1>6, PTL DEF SpecInputs
<1>8. KeysInv /\ KeysInv' /\ [NextInputs]_allVars =>
        [/\ KeysFollow'
         /\ ~live /\ live' /\ timeline' # timeline /\ log' # <<>> =>
              \/ keys # synced_keys \/ fast # synced_fast
              \/ log'[Len(log')].input = "raw"]_allVars
  BY NewsIs DEF KeysInv
<1> QED BY <1>7, <1>8, PTL DEF SpecInputs, KeysAreNoNews

=============================================================================
