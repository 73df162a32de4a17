---------------------------- MODULE EngineProofs ----------------------------
(***************************************************************************)
(* What holds of the Engine's queue and run loop for any number of clients *)
(* and calls: the theorems TLAPS proves about module Engine.               *)
(*                                                                         *)
(* The inductive invariant is the type of the state, together with the     *)
(* three facts that hold each other up: a job exists exactly while its     *)
(* caller waits for it, so a waiting caller's call does not change; the    *)
(* emulator thread is inside at most a loop at its yield and one job that  *)
(* is not a driver; and a running_ or a "continued" event not yet          *)
(* withdrawn belongs to a caller of run that has not returned.             *)
(***************************************************************************)
EXTENDS Engine, SequenceTheorems, TLAPS

-----------------------------------------------------------------------------
(* Sequences without repetition, and what leaving or joining one does.     *)

\* Appending a job that is not there leaves each job in at most one place.
LEMMA AppendOnce ==
  ASSUME NEW S, NEW s \in Seq(S), NEW c \in S, Injective(s), ~InRange(c, s)
  PROVE  /\ Append(s, c) \in Seq(S)
         /\ Injective(Append(s, c))
         /\ \A d : InRange(d, Append(s, c)) <=> InRange(d, s) \/ d = c
<1>1. /\ Append(s, c) \in Seq(S)
      /\ Len(Append(s, c)) = Len(s) + 1
      /\ \A i \in 1..Len(s) : Append(s, c)[i] = s[i]
      /\ Append(s, c)[Len(s) + 1] = c
  BY AppendProperties
<1>2. Len(s) \in Nat /\ DOMAIN s = 1..Len(s) /\ DOMAIN Append(s, c) = 1..(Len(s) + 1)
  BY <1>1, LenProperties
<1>3. Injective(Append(s, c))
  BY <1>1, <1>2 DEF Injective, InRange
<1>4. ASSUME NEW d PROVE InRange(d, Append(s, c)) <=> InRange(d, s) \/ d = c
  <2>1. InRange(d, Append(s, c)) => InRange(d, s) \/ d = c
    BY <1>1, <1>2 DEF InRange
  <2>2. InRange(d, s) => InRange(d, Append(s, c))
    BY <1>1, <1>2 DEF InRange
  <2>3. d = c => InRange(d, Append(s, c))
    <3>1. Len(s) + 1 \in DOMAIN Append(s, c)
      BY <1>2
    <3>2. QED BY <3>1, <1>1 DEF InRange
  <2>4. QED BY <2>1, <2>2, <2>3
<1>5. QED BY <1>1, <1>3, <1>4

\* A job taken from the head of the queue is nowhere else in it.
LEMMA TailOnce ==
  ASSUME NEW S, NEW s \in Seq(S), s # <<>>, Injective(s)
  PROVE  /\ Head(s) \in S /\ InRange(Head(s), s)
         /\ Tail(s) \in Seq(S)
         /\ Injective(Tail(s))
         /\ \A d : InRange(d, Tail(s)) <=> InRange(d, s) /\ d # Head(s)
<1>1. /\ Head(s) \in S
      /\ Tail(s) \in Seq(S)
      /\ Len(Tail(s)) = Len(s) - 1
      /\ \A i \in 1..Len(Tail(s)) : Tail(s)[i] = s[i + 1]
  BY HeadTailProperties
<1>2. Len(s) \in Nat \ {0} /\ DOMAIN s = 1..Len(s) /\ DOMAIN Tail(s) = 1..(Len(s) - 1)
  BY <1>1, LenProperties, EmptySeq
<1>3. Head(s) = s[1] /\ 1 \in DOMAIN s
  BY <1>2
<1>4. Injective(Tail(s))
  <2>1. SUFFICES ASSUME NEW i \in DOMAIN Tail(s), NEW j \in DOMAIN Tail(s), Tail(s)[i] = Tail(s)[j]
                 PROVE  i = j
    BY DEF Injective
  <2>2. i \in Nat /\ j \in Nat /\ i + 1 \in DOMAIN s /\ j + 1 \in DOMAIN s /\ s[i + 1] = s[j + 1]
    BY <1>1, <1>2, <2>1
  <2>3. i + 1 = j + 1
    BY <2>2 DEF Injective
  <2>4. QED BY <2>2, <2>3
<1>5. ASSUME NEW d PROVE InRange(d, Tail(s)) <=> InRange(d, s) /\ d # Head(s)
  <2>1. ASSUME InRange(d, Tail(s)) PROVE InRange(d, s) /\ d # Head(s)
    <3>1. PICK i \in DOMAIN Tail(s) : Tail(s)[i] = d
      BY <2>1 DEF InRange
    <3>2. i \in Nat /\ i > 0 /\ i + 1 \in DOMAIN s /\ s[i + 1] = d
      BY <3>1, <1>1, <1>2
    <3>3. i + 1 # 1
      BY <3>2
    <3>4. s[i + 1] # s[1]
      BY <3>2, <3>3, <1>3 DEF Injective
    <3>5. QED BY <3>2, <3>4, <1>3 DEF InRange
  <2>2. ASSUME InRange(d, s), d # Head(s) PROVE InRange(d, Tail(s))
    <3>1. PICK i \in DOMAIN s : s[i] = d
      BY <2>2 DEF InRange
    <3>2. i # 1 /\ i \in 1..Len(s)
      BY <3>1, <2>2, <1>2, <1>3
    <3>3. i - 1 \in DOMAIN Tail(s) /\ Tail(s)[i - 1] = s[i]
      BY <3>2, <1>1, <1>2
    <3>4. QED BY <3>1, <3>3 DEF InRange
  <2>3. QED BY <2>1, <2>2
<1>6. InRange(Head(s), s)
  BY <1>3 DEF InRange
<1>7. QED BY <1>1, <1>4, <1>5, <1>6

\* A job that leaves the stack is nowhere else in it.
LEMMA FrontOnce ==
  ASSUME NEW S, NEW s \in Seq(S), s # <<>>, Injective(s)
  PROVE  /\ s[Len(s)] \in S /\ InRange(s[Len(s)], s)
         /\ SubSeq(s, 1, Len(s) - 1) \in Seq(S)
         /\ Len(SubSeq(s, 1, Len(s) - 1)) = Len(s) - 1
         /\ \A i \in DOMAIN SubSeq(s, 1, Len(s) - 1) : i \in DOMAIN s /\ SubSeq(s, 1, Len(s) - 1)[i] = s[i]
         /\ Injective(SubSeq(s, 1, Len(s) - 1))
         /\ \A d : InRange(d, SubSeq(s, 1, Len(s) - 1)) <=> InRange(d, s) /\ d # s[Len(s)]
<1> DEFINE t == SubSeq(s, 1, Len(s) - 1)
<1>1. Len(s) \in Nat \ {0} /\ DOMAIN s = 1..Len(s) /\ \A i \in 1..Len(s) : s[i] \in S
  BY LenProperties, EmptySeq, ElementOfSeq
<1>2. /\ t \in Seq(S)
      /\ Len(t) = Len(s) - 1
      /\ \A i \in 1..(Len(s) - 1) : t[i] = s[i]
  <2>1. \A i \in 1..(Len(s) - 1) : s[i] \in S
    BY <1>1
  <2>2. Len(s) - 1 \in Int /\ 1 \in Int
    BY <1>1
  <2>3. /\ t \in Seq(S)
        /\ Len(t) = IF 1 <= Len(s) - 1 THEN Len(s) - 1 - 1 + 1 ELSE 0
        /\ \A i \in 1..(Len(s) - 1 - 1 + 1) : t[i] = s[1 + i - 1]
    BY <2>1, <2>2, SubSeqProperties
  <2>4. QED BY <2>3, <1>1
<1> HIDE DEF t
<1>3. DOMAIN t = 1..(Len(s) - 1)
  BY <1>2, LenProperties
<1>4. Injective(t)
  BY <1>1, <1>2, <1>3 DEF Injective
<1>5. Len(s) \in DOMAIN s
  BY <1>1
<1>6. ASSUME NEW d PROVE InRange(d, t) <=> InRange(d, s) /\ d # s[Len(s)]
  <2>1. ASSUME InRange(d, t) PROVE InRange(d, s) /\ d # s[Len(s)]
    <3>1. PICK i \in DOMAIN t : t[i] = d
      BY <2>1 DEF InRange
    <3>2. i \in DOMAIN s /\ s[i] = d /\ i # Len(s)
      BY <3>1, <1>1, <1>2, <1>3
    <3>3. QED BY <3>2, <1>5 DEF InRange, Injective
  <2>2. ASSUME InRange(d, s), d # s[Len(s)] PROVE InRange(d, t)
    <3>1. PICK i \in DOMAIN s : s[i] = d
      BY <2>2 DEF InRange
    <3>2. i \in DOMAIN t /\ t[i] = d
      BY <3>1, <2>2, <1>1, <1>2, <1>3
    <3>3. QED BY <3>2 DEF InRange
  <2>3. QED BY <2>1, <2>2
<1>7. \A i \in DOMAIN t : i \in DOMAIN s /\ t[i] = s[i]
  BY <1>1, <1>2, <1>3
<1>8. QED BY <1>1, <1>2, <1>4, <1>5, <1>6, <1>7 DEF InRange, t

\* A job taken out of the middle of the queue leaves every other one there.
LEMMA DropFirstOnce ==
  ASSUME NEW S, queue \in Seq(S), Injective(queue), NEW i \in DOMAIN queue
  PROVE  /\ queue[i] \in S
         /\ DropFirst(i) \in Seq(S)
         /\ Injective(DropFirst(i))
         /\ \A d : InRange(d, DropFirst(i)) <=> InRange(d, queue) /\ d # queue[i]
<1> DEFINE n == Len(queue) - 1
           t == DropFirst(i)
<1>1. Len(queue) \in Nat /\ DOMAIN queue = 1..Len(queue) /\ \A j \in 1..Len(queue) : queue[j] \in S
  BY LenProperties, ElementOfSeq
<1>2. i \in 1..Len(queue) /\ n \in Nat
  BY <1>1
<1>3. /\ DOMAIN t = 1..n
      /\ \A j \in 1..n : t[j] = IF j < i THEN queue[j] ELSE queue[j + 1]
  BY DEF DropFirst
<1>4. t \in Seq(S)
  <2>1. \A j \in 1..n : (IF j < i THEN queue[j] ELSE queue[j + 1]) \in S
    BY <1>1, <1>2
  <2>2. t \in [1..n -> S]
    BY <2>1 DEF DropFirst
  <2>3. QED BY <2>2, <1>2, SeqDef
<1>5. Injective(t)
  <2>1. SUFFICES ASSUME NEW j \in 1..n, NEW k \in 1..n, t[j] = t[k]
                 PROVE  j = k
    BY <1>3 DEF Injective
  <2> DEFINE at(m) == IF m < i THEN m ELSE m + 1
  <2>2. at(j) \in DOMAIN queue /\ at(k) \in DOMAIN queue /\ queue[at(j)] = queue[at(k)]
    BY <1>1, <1>2, <1>3, <2>1
  <2>3. at(j) = at(k)
    BY <2>2 DEF Injective
  <2>4. QED BY <2>3, <1>2, <1>1
<1>6. ASSUME NEW d PROVE InRange(d, t) <=> InRange(d, queue) /\ d # queue[i]
  <2>1. ASSUME InRange(d, t) PROVE InRange(d, queue) /\ d # queue[i]
    <3>1. PICK j \in 1..n : t[j] = d
      BY <2>1, <1>3 DEF InRange
    <3>2. PICK k \in DOMAIN queue : queue[k] = d /\ k # i
      <4>1. CASE j < i
        BY <4>1, <3>1, <1>1, <1>2, <1>3
      <4>2. CASE ~(j < i)
        <5>1. j + 1 \in DOMAIN queue /\ queue[j + 1] = d /\ j + 1 # i
          BY <4>2, <3>1, <1>1, <1>2, <1>3
        <5>2. QED BY <5>1
      <4>3. QED BY <4>1, <4>2
    <3>3. QED BY <3>2 DEF InRange, Injective
  <2>2. ASSUME InRange(d, queue), d # queue[i] PROVE InRange(d, t)
    <3>1. PICK k \in DOMAIN queue : queue[k] = d
      BY <2>2 DEF InRange
    <3>2. CASE k < i
      <4>1. k \in 1..n /\ t[k] = d
        BY <3>1, <3>2, <1>1, <1>2, <1>3
      <4>2. QED BY <4>1, <1>3 DEF InRange
    <3>3. CASE ~(k < i)
      <4>1. k # i
        BY <3>1, <2>2
      <4>2. k - 1 \in 1..n /\ t[k - 1] = d
        BY <3>1, <3>3, <4>1, <1>1, <1>2, <1>3
      <4>3. QED BY <4>2, <1>3 DEF InRange
    <3>4. QED BY <3>2, <3>3
  <2>3. QED BY <2>1, <2>2
<1>7. QED BY <1>1, <1>2, <1>4, <1>5, <1>6

-----------------------------------------------------------------------------
(* The inductive invariant.                                                *)

\* What running_ and the last event told stand for: a caller of run that has
\* set them and not yet taken them back.
RunClaims ==
  /\ \A c \in Clients : pc[c] \in {"mark", "continued"} => call[c] = "run"
  /\ running =>
       \E c \in Clients : call[c] = "run" /\ pc[c] \in {"continued", "submit", "wait", "answered"}
  /\ view = "running" =>
       \E c \in Clients : call[c] = "run" /\ pc[c] \in {"submit", "wait", "answered", "announce"}

IInv == TypeOK /\ CallerOutlivesJob /\ DriversOutermost /\ RunClaims

\* The initial state satisfies it.
LEMMA InitInv == Init => IInv
<1> SUFFICES ASSUME Init PROVE IInv
  OBVIOUS
<1>1. TypeOK
  <2>1. queue \in Seq(Clients) /\ stack \in Seq(Clients)
    BY EmptySeq DEF Init
  <2>2. 0 \in 0..(YieldEvery - 1) /\ MaxCalls \in Nat
    BY EngineAssumption
  <2>3. "edit" \in Queued /\ "idle" \in Labels /\ 0 \in 0..(TypingFrames - 1)
    BY EngineAssumption DEF Labels, Queued, Ordinary
  <2>4. count \in 0..(YieldEvery - 1) \cup 0..(MaxIntervals - 1)
    BY <2>2 DEF Init
  <2>5. pc \in [Clients -> Labels] /\ call \in [Clients -> Queued]
    BY <2>3 DEF Init
  <2>6. calls \in [Clients -> 0..MaxCalls]
    BY <2>2 DEF Init
  <2>7. QED BY <2>1, <2>3, <2>4, <2>5, <2>6 DEF Init, TypeOK
<1>2. CallerOutlivesJob
  BY DEF Init, CallerOutlivesJob, Injective, InRange
<1>3. DriversOutermost
  BY EmptySeq DEF Init, DriversOutermost
<1>4. RunClaims
  BY DEF Init, RunClaims
<1>5. QED BY <1>1, <1>2, <1>3, <1>4 DEF IInv

\* The job the emulator thread is innermost inside has a caller, who waits.
LEMMA TopWaits ==
  ASSUME TypeOK, CallerOutlivesJob, stack # <<>>
  PROVE  Top \in Clients /\ InRange(Top, stack) /\ pc[Top] = "wait" /\ ~InRange(Top, queue)
<1>1. Len(stack) \in DOMAIN stack /\ stack[Len(stack)] \in Clients
  BY LenProperties, EmptySeq, ElementOfSeq DEF TypeOK
<1>2. QED BY <1>1 DEF Top, InRange, CallerOutlivesJob

\* An answer takes the innermost job off the stack, and lets its caller go on.
LEMMA AnswerTop ==
  ASSUME TypeOK, CallerOutlivesJob, stack # <<>>, Answer
  PROVE  /\ stack' \in Seq(Clients) /\ pc' \in [Clients -> Labels]
         /\ Len(stack') = Len(stack) - 1
         /\ \A i \in DOMAIN stack' : i \in DOMAIN stack /\ stack'[i] = stack[i]
         /\ Injective(stack')
         /\ \A d : InRange(d, stack') <=> InRange(d, stack) /\ d # Top
         /\ pc'[Top] = "answered"
         /\ \A d \in Clients : d # Top => pc'[d] = pc[d]
<1>1. Top \in Clients
  BY TopWaits
<1>2. /\ pc' \in [Clients -> Labels]
      /\ pc'[Top] = "answered"
      /\ \A d \in Clients : d # Top => pc'[d] = pc[d]
  BY <1>1 DEF Answer, TypeOK, Labels
<1>3. stack \in Seq(Clients) /\ Injective(stack) /\ stack' = SubSeq(stack, 1, Len(stack) - 1)
  BY DEF TypeOK, CallerOutlivesJob, Answer
<1>4. /\ stack' \in Seq(Clients)
      /\ Len(stack') = Len(stack) - 1
      /\ \A i \in DOMAIN stack' : i \in DOMAIN stack /\ stack'[i] = stack[i]
      /\ Injective(stack')
      /\ \A d : InRange(d, stack') <=> InRange(d, stack) /\ d # stack[Len(stack)]
  BY <1>3, FrontOnce
<1>5. QED BY <1>2, <1>4 DEF Top

\* What a step of the Engine is, one action at a time.
LEMMA StepTypes ==
  ASSUME IInv, [Next]_vars
  PROVE  TypeOK'
<1> USE DEF IInv
<1>1. ASSUME NEW c \in Clients, NEW kind \in Calls, Start(c, kind) PROVE TypeOK'
  <2>1. kind \in Queued /\ FirstLabel(kind) \in Labels
    BY <1>1 DEF Start, Calls, FirstLabel, Labels
  <2>2. calls[c] + 1 \in 0..MaxCalls
    BY <1>1, EngineAssumption DEF Start, TypeOK
  <2>3. QED BY <1>1, <2>1, <2>2 DEF Start, Goto, TypeOK, actorVars, atomicVars
<1>2. ASSUME NEW c \in Clients, Pause(c) PROVE TypeOK'
  <2>1. calls[c] + 1 \in 0..MaxCalls
    BY <1>2, EngineAssumption DEF Pause, TypeOK
  <2>2. QED BY <1>2, <2>1 DEF Pause, TypeOK, actorVars
<1>3. ASSUME NEW c \in Clients, ClientStep(c) PROVE TypeOK'
  <2> USE DEF TypeOK, Goto, actorVars, atomicVars
  <2>1. CASE GuardRewind(c)
    BY <2>1 DEF GuardRewind, Labels
  <2>2. CASE ClearPause(c)
    BY <2>2 DEF ClearPause, Labels
  <2>3. CASE MarkRunning(c)
    BY <2>3 DEF MarkRunning, Labels
  <2>4. CASE AnnounceContinued(c)
    BY <2>4 DEF AnnounceContinued, Labels
  <2>5. CASE Submit(c)
    <3>1. Append(queue, c) \in Seq(Clients)
      BY AppendProperties
    <3>2. QED BY <2>5, <3>1 DEF Submit, Labels
  <2>6. CASE ReturnRun(c)
    BY <2>6 DEF ReturnRun, Labels
  <2>7. CASE Return(c)
    <3>1. AfterAnswer(call[c]) \subseteq Labels
      BY DEF AfterAnswer, Labels
    <3>2. "registers" \in Queued
      BY DEF Queued, Ordinary
    <3>3. QED BY <2>7, <3>1, <3>2 DEF Return
  <2>8. CASE CheckRunning(c)
    <3>1. "registers" \in Queued
      BY DEF Queued, Ordinary
    <3>2. QED BY <2>8, <3>1 DEF CheckRunning, Labels
  <2>9. CASE AnnounceStopped(c)
    BY <2>9 DEF AnnounceStopped, Labels
  <2>10. QED BY <1>3, <2>1, <2>2, <2>3, <2>4, <2>5, <2>6, <2>7, <2>8, <2>9 DEF ClientStep
<1>4. CASE EmulatorStep
  <2> USE DEF clientVars, atomicVars
  <2>1. CASE Pop
    <3>1. Head(queue) \in Clients /\ Tail(queue) \in Seq(Clients)
      BY <2>1, HeadTailProperties DEF Pop, TypeOK
    <3>2. <<Head(queue)>> \in Seq(Clients)
      BY <3>1
    <3>3. 0 \in 0..(YieldEvery - 1)
      BY EngineAssumption
    <3>4. QED BY <2>1, <3>1, <3>2, <3>3 DEF Pop, TypeOK
  <2>2. CASE Execute
    BY <2>2, AnswerTop DEF Execute, TypeOK
  <2>11. CASE TypeLoad
    <3>1. 0 \in 0..(TypingFrames - 1)
      BY EngineAssumption
    <3>2. CASE Answer /\ frames' = 0
      BY <2>11, <3>1, <3>2, AnswerTop DEF TypeLoad, TypeOK
    <3>3. CASE frames' = frames + 1 /\ frames + 1 < TypingFrames /\ UNCHANGED <<stack, pc>>
      <4>1. frames + 1 \in 0..(TypingFrames - 1)
        BY <3>3, EngineAssumption DEF TypeOK
      <4>2. QED BY <2>11, <3>3, <4>1 DEF TypeLoad, TypeOK
    <3>4. QED BY <2>11, <3>2, <3>3 DEF TypeLoad
  <2>3. CASE Search
    <3>1. CASE Answer /\ UNCHANGED count
      BY <2>3, <3>1, AnswerTop DEF Search, TypeOK
    <3>2. CASE count' = count + 1 /\ count + 1 < MaxIntervals /\ UNCHANGED <<stack, pc>>
      <4>1. count + 1 \in 0..(MaxIntervals - 1)
        BY <3>2, EngineAssumption DEF TypeOK
      <4>2. QED BY <2>3, <3>2, <4>1 DEF Search, TypeOK
    <3>3. QED BY <2>3, <3>1, <3>2 DEF Search
  <2>4. ASSUME Finish, stack # <<>> PROVE TypeOK'
    BY <2>4, AnswerTop DEF Finish, TypeOK
  <2>5. CASE LoopCheck
    BY <2>4, <2>5 DEF LoopCheck, InLoop, TypeOK
  <2>6. CASE LoopExec
    <3>1. (count + 1) % YieldEvery \in 0..(YieldEvery - 1)
      BY EngineAssumption DEF TypeOK
    <3>2. QED BY <2>4, <2>6, <3>1 DEF LoopExec, InLoop, TypeOK
  <2>7. CASE Service
    <3>1. PICK i \in DOMAIN queue : stack' = Append(stack, queue[i]) /\ queue' = DropFirst(i)
      BY <2>7 DEF Service
    <3>2. queue[i] \in Clients /\ DropFirst(i) \in Seq(Clients)
      BY DropFirstOnce DEF TypeOK, CallerOutlivesJob
    <3>3. Append(stack, queue[i]) \in Seq(Clients)
      BY <3>2, AppendProperties DEF TypeOK
    <3>4. QED BY <2>7, <3>1, <3>2, <3>3 DEF Service, TypeOK
  <2>8. CASE EndYield
    BY <2>8 DEF EndYield, TypeOK
  <2>9. CASE Exit
    BY <2>9 DEF Exit, TypeOK
  <2>10. QED BY <1>4, <2>1, <2>2, <2>3, <2>5, <2>6, <2>7, <2>8, <2>9, <2>11 DEF EmulatorStep
<1>5. CASE Shutdown
  BY <1>5 DEF Shutdown, TypeOK, clientVars, actorVars
<1>6. CASE UNCHANGED vars
  BY <1>6 DEF TypeOK, vars, clientVars, actorVars, atomicVars
<1>7. QED BY <1>1, <1>2, <1>3, <1>4, <1>5, <1>6 DEF Next

\* A client that moves within a call it does not wait in.
Quiet(c) ==
  /\ pc[c] # "wait" /\ pc'[c] # "wait"
  /\ \A d \in Clients : d # c => pc'[d] = pc[d] /\ call'[d] = call[d]
  /\ UNCHANGED <<queue, stack, phase>>

\* Every client step but the submission is one, and so are the two that begin
\* a call.
LEMMA ClientsQuiet ==
  ASSUME TypeOK, NEW c \in Clients,
         \/ \E kind \in Calls : Start(c, kind)
         \/ Pause(c)
         \/ ClientStep(c) /\ ~Submit(c)
  PROVE  Quiet(c)
<1> USE DEF TypeOK, Quiet, Goto, actorVars
<1>1. ASSUME NEW kind \in Calls, Start(c, kind) PROVE Quiet(c)
  <2>1. FirstLabel(kind) # "wait"
    BY DEF FirstLabel
  <2>2. QED BY <1>1, <2>1 DEF Start
<1>2. CASE Pause(c)
  BY <1>2 DEF Pause
<1>3. CASE GuardRewind(c)
  BY <1>3 DEF GuardRewind
<1>4. CASE ClearPause(c)
  BY <1>4 DEF ClearPause
<1>5. CASE MarkRunning(c)
  BY <1>5 DEF MarkRunning
<1>6. CASE AnnounceContinued(c)
  BY <1>6 DEF AnnounceContinued
<1>7. CASE ReturnRun(c)
  BY <1>7 DEF ReturnRun
<1>8. CASE Return(c)
  <2>1. "wait" \notin AfterAnswer(call[c])
    BY DEF AfterAnswer
  <2>2. QED BY <1>8, <2>1 DEF Return
<1>9. CASE CheckRunning(c)
  BY <1>9 DEF CheckRunning
<1>10. CASE AnnounceStopped(c)
  BY <1>10 DEF AnnounceStopped
<1>11. QED BY <1>1, <1>2, <1>3, <1>4, <1>5, <1>6, <1>7, <1>8, <1>9, <1>10 DEF ClientStep

\* The emulator thread either leaves the jobs alone, or takes one up, or
\* answers the innermost, at a loop's end or any other time.
LEMMA EmulatorMoves ==
  ASSUME TypeOK, CallerOutlivesJob, EmulatorStep
  PROVE  /\ UNCHANGED call
         /\ \/ /\ UNCHANGED <<queue, stack, pc>>
               /\ UNCHANGED phase \/ (stack # <<>> /\ call[Top] \in Loops)
            \/ /\ stack = <<>> /\ queue # <<>>
               /\ stack' = <<Head(queue)>> /\ queue' = Tail(queue) /\ UNCHANGED pc
            \/ /\ InLoop("yield") /\ UNCHANGED <<pc, phase>>
               /\ \E i \in DOMAIN queue :
                    Servicable(i) /\ stack' = Append(stack, queue[i]) /\ queue' = DropFirst(i)
            \/ /\ stack # <<>> /\ UNCHANGED queue
               /\ Answer
<1>2. CASE Pop
  BY <1>2 DEF Pop, clientVars
<1>3. CASE Execute
  BY <1>3 DEF Execute
<1>4. CASE Search
  BY <1>4 DEF Search
<1>5. ASSUME Finish PROVE UNCHANGED <<call, queue>> /\ Answer
  BY <1>5 DEF Finish
<1>6. CASE LoopCheck
  BY <1>5, <1>6 DEF LoopCheck, InLoop, clientVars
<1>7. CASE LoopExec
  BY <1>5, <1>7 DEF LoopExec, InLoop, clientVars
<1>8. CASE Service
  BY <1>8 DEF Service, clientVars
<1>9. CASE EndYield
  BY <1>9 DEF EndYield, InLoop, clientVars
<1>10. CASE Exit
  BY <1>10 DEF Exit, clientVars
<1>11. CASE TypeLoad
  BY <1>11 DEF TypeLoad
<1>12. QED BY <1>2, <1>3, <1>4, <1>6, <1>7, <1>8, <1>9, <1>10, <1>11 DEF EmulatorStep

\* What the steps do, as the next two lemmas use it.
LEMMA StepCases ==
  ASSUME TypeOK, CallerOutlivesJob, [Next]_vars
  PROVE  \/ \E c \in Clients : Quiet(c) \/ Submit(c)
         \/ EmulatorStep
         \/ UNCHANGED <<queue, stack, phase, pc, call>>
<1>1. CASE \E c \in Clients : (\E kind \in Calls : Start(c, kind)) \/ Pause(c) \/ ClientStep(c)
  BY <1>1, ClientsQuiet
<1>2. CASE Shutdown
  BY <1>2 DEF Shutdown, clientVars, actorVars
<1>3. CASE UNCHANGED vars
  BY <1>3 DEF vars, clientVars, actorVars
<1>4. QED BY <1>1, <1>2, <1>3 DEF Next

\* Every step keeps a job and its caller together.
LEMMA StepCallers ==
  ASSUME IInv, [Next]_vars
  PROVE  CallerOutlivesJob'
<1> USE DEF IInv
<1>1. ASSUME NEW c \in Clients, Quiet(c) PROVE CallerOutlivesJob'
  <2>1. pc[c] # "wait" /\ pc'[c] # "wait" /\ \A d \in Clients : d # c => pc'[d] = pc[d]
    BY <1>1 DEF Quiet
  <2>2. queue' = queue /\ stack' = stack
    BY <1>1 DEF Quiet
  <2>3. QED BY <2>1, <2>2 DEF CallerOutlivesJob, InRange, Injective
<1>2. ASSUME NEW c \in Clients, Submit(c) PROVE CallerOutlivesJob'
  <2>1. pc[c] = "submit" /\ pc' = [pc EXCEPT ![c] = "wait"] /\ queue' = Append(queue, c) /\ stack' = stack
    BY <1>2 DEF Submit, Goto, actorVars
  <2>2. ~InRange(c, queue) /\ ~InRange(c, stack) /\ Injective(queue) /\ Injective(stack)
    BY <2>1 DEF CallerOutlivesJob
  <2>3. Injective(queue') /\ \A d : InRange(d, queue') <=> InRange(d, queue) \/ d = c
    BY <2>1, <2>2, AppendOnce DEF TypeOK
  <2>4. pc'[c] = "wait" /\ \A d \in Clients : d # c => pc'[d] = pc[d]
    BY <2>1 DEF TypeOK
  <2>5. Injective(stack') /\ \A d : InRange(d, stack') <=> InRange(d, stack)
    BY <2>1, <2>2 DEF Injective, InRange
  <2>6. QED BY <2>2, <2>3, <2>4, <2>5 DEF CallerOutlivesJob
<1>3. CASE EmulatorStep
  <2>1. CASE UNCHANGED <<queue, stack, pc>>
    BY <2>1 DEF CallerOutlivesJob, InRange, Injective
  <2>2. CASE /\ stack = <<>> /\ queue # <<>>
             /\ stack' = <<Head(queue)>> /\ queue' = Tail(queue) /\ UNCHANGED pc
    <3>1. /\ InRange(Head(queue), queue)
          /\ Injective(queue')
          /\ \A d : InRange(d, queue') <=> InRange(d, queue) /\ d # Head(queue)
      BY <2>2, TailOnce DEF TypeOK, CallerOutlivesJob
    <3>2. Injective(stack') /\ \A d : InRange(d, stack') <=> d = Head(queue)
      <4>1. DOMAIN stack' = {1} /\ stack'[1] = Head(queue)
        BY <2>2
      <4>2. QED BY <4>1 DEF Injective, InRange
    <3>3. \A d : ~InRange(d, stack)
      BY <2>2 DEF InRange
    <3>4. QED BY <2>2, <3>1, <3>2, <3>3 DEF CallerOutlivesJob
  <2>3. CASE /\ InLoop("yield") /\ UNCHANGED pc
             /\ \E i \in DOMAIN queue :
                  Servicable(i) /\ stack' = Append(stack, queue[i]) /\ queue' = DropFirst(i)
    <3>1. PICK i \in DOMAIN queue : stack' = Append(stack, queue[i]) /\ queue' = DropFirst(i)
      BY <2>3
    <3>2. /\ queue[i] \in Clients
          /\ Injective(queue')
          /\ \A d : InRange(d, queue') <=> InRange(d, queue) /\ d # queue[i]
      BY <3>1, DropFirstOnce DEF TypeOK, CallerOutlivesJob
    <3>3. InRange(queue[i], queue) /\ ~InRange(queue[i], stack)
      BY <3>2 DEF CallerOutlivesJob, InRange
    <3>4. Injective(stack') /\ \A d : InRange(d, stack') <=> InRange(d, stack) \/ d = queue[i]
      BY <3>1, <3>2, <3>3, AppendOnce DEF TypeOK, CallerOutlivesJob
    <3>5. QED BY <2>3, <3>2, <3>3, <3>4 DEF CallerOutlivesJob
  <2>4. CASE /\ stack # <<>> /\ UNCHANGED queue
             /\ Answer
    <3>2. /\ Injective(stack')
          /\ \A d : InRange(d, stack') <=> InRange(d, stack) /\ d # Top
          /\ pc'[Top] = "answered"
          /\ \A d \in Clients : d # Top => pc'[d] = pc[d]
      BY <2>4, AnswerTop
    <3>3. Top \in Clients /\ InRange(Top, stack) /\ ~InRange(Top, queue)
      BY <2>4, TopWaits
    <3>4. Injective(queue') /\ \A d : InRange(d, queue') <=> InRange(d, queue)
      BY <2>4 DEF CallerOutlivesJob, Injective, InRange
    <3>5. QED BY <3>2, <3>3, <3>4 DEF CallerOutlivesJob
  <2>5. QED BY <1>3, <2>1, <2>2, <2>3, <2>4, EmulatorMoves
<1>4. CASE UNCHANGED <<queue, stack, phase, pc, call>>
  BY <1>4 DEF CallerOutlivesJob, InRange, Injective
<1>5. QED BY <1>1, <1>2, <1>3, <1>4, StepCases

\* Every step keeps the drivers outermost: a loop's phase moves only while
\* nothing is inside it.
LEMMA StepLoops ==
  ASSUME IInv, [Next]_vars
  PROVE  DriversOutermost'
<1> USE DEF IInv
<1>1. /\ Len(stack) \in Nat /\ DOMAIN stack = 1..Len(stack)
      /\ \A i \in DOMAIN stack : stack[i] \in Clients /\ InRange(stack[i], stack) /\ pc[stack[i]] = "wait"
  <2>1. Len(stack) \in Nat /\ DOMAIN stack = 1..Len(stack) /\ \A i \in DOMAIN stack : stack[i] \in Clients
    BY LenProperties, ElementOfSeq DEF TypeOK
  <2>2. QED BY <2>1 DEF CallerOutlivesJob, InRange
<1>2. ASSUME UNCHANGED <<stack, phase>>, \A i \in DOMAIN stack : call'[stack[i]] = call[stack[i]]
      PROVE  DriversOutermost'
  BY <1>1, <1>2 DEF DriversOutermost
<1>3. ASSUME NEW c \in Clients, Quiet(c) PROVE DriversOutermost'
  <2>1. \A i \in DOMAIN stack : stack[i] # c
    BY <1>1, <1>3 DEF Quiet
  <2>2. QED BY <1>1, <1>2, <1>3, <2>1 DEF Quiet
<1>4. ASSUME NEW c \in Clients, Submit(c) PROVE DriversOutermost'
  BY <1>2, <1>4 DEF Submit, actorVars
<1>9. ASSUME stack # <<>>, call[Top] \in Loops PROVE Len(stack) = 1 /\ call[stack[1]] \in Loops
  <2>1. Len(stack) \in DOMAIN stack /\ call[stack[Len(stack)]] \in Drivers
    BY <1>1, <1>9, EmptySeq DEF TypeOK, Top, Drivers
  <2>2. Len(stack) = 1
    BY <2>1 DEF DriversOutermost
  <2>3. QED BY <1>9, <2>2 DEF Top
<1>5. CASE EmulatorStep
  <2>1. UNCHANGED call
    BY <1>5, EmulatorMoves
  <2>2. CASE UNCHANGED <<stack, phase>>
    BY <1>2, <2>1, <2>2
  <2>7. CASE UNCHANGED stack /\ stack # <<>> /\ call[Top] \in Loops
    <3>1. Len(stack) = 1
      BY <1>9, <2>7
    <3>2. QED BY <2>1, <2>7, <3>1 DEF DriversOutermost
  <2>3. CASE stack' = <<Head(queue)>>
    <3>1. Len(stack') = 1 /\ DOMAIN stack' = {1}
      BY <2>3
    <3>2. QED BY <3>1 DEF DriversOutermost
  <2>4. CASE /\ InLoop("yield") /\ UNCHANGED phase
             /\ \E i \in DOMAIN queue : Servicable(i) /\ stack' = Append(stack, queue[i])
    <3>1. PICK i \in DOMAIN queue : Servicable(i) /\ stack' = Append(stack, queue[i])
      BY <2>4
    <3>2. queue[i] \in Clients /\ call[queue[i]] \notin Drivers
      BY <3>1, ElementOfSeq, LenProperties
         DEF TypeOK, Servicable, Job, Ordinary, Typing, Drivers, Loops, History
    <3>3. Len(stack) = 1 /\ call[stack[1]] \in Loops /\ phase' = "yield"
      BY <1>9, <2>4 DEF InLoop
    <3>4. /\ Len(stack') = 2 /\ DOMAIN stack' = 1..2
          /\ stack'[1] = stack[1] /\ stack'[2] = queue[i]
      <4>1. /\ stack' \in Seq(Clients) /\ Len(stack') = Len(stack) + 1
            /\ \A j \in 1..Len(stack) : stack'[j] = stack[j]
            /\ stack'[Len(stack) + 1] = queue[i]
        BY <3>1, <3>2, AppendProperties DEF TypeOK
      <4>2. QED BY <4>1, <3>3, LenProperties
    <3>5. QED BY <2>1, <3>2, <3>3, <3>4 DEF DriversOutermost
  <2>5. CASE stack # <<>> /\ Answer
    <3>1. /\ Len(stack') = Len(stack) - 1
          /\ \A i \in DOMAIN stack' : i \in DOMAIN stack /\ stack'[i] = stack[i]
      BY <2>5, AnswerTop
    <3>2. QED BY <1>1, <2>1, <3>1 DEF DriversOutermost
  <2>6. QED BY <1>5, <2>2, <2>3, <2>4, <2>5, <2>7, EmulatorMoves
<1>6. CASE UNCHANGED <<queue, stack, phase, pc, call>>
  BY <1>2, <1>6
<1>7. QED BY <1>3, <1>4, <1>5, <1>6, StepCases

\* The steps that touch running_, what was told, or a caller of run.
LEMMA StepClaims ==
  ASSUME IInv, [Next]_vars
  PROVE  RunClaims'
<1> USE DEF IInv
<1>1. pc \in [Clients -> Labels] /\ call \in [Clients -> Queued] /\ view \in {"running", "stopped"} /\ running \in BOOLEAN
  BY DEF TypeOK
<1>2. ASSUME NEW c \in Clients, NEW kind \in Calls, Start(c, kind) PROVE RunClaims'
  <2>1. FirstLabel(kind) \notin {"mark", "continued"} /\ pc[c] = "idle"
    BY <1>2 DEF FirstLabel, Start
  <2>2. QED BY <1>1, <1>2, <2>1 DEF Start, Goto, RunClaims, atomicVars
<1>3. ASSUME NEW c \in Clients, Pause(c) PROVE RunClaims'
  BY <1>3 DEF Pause, RunClaims
<1>4. ASSUME NEW c \in Clients, ClientStep(c) PROVE RunClaims'
  <2> USE DEF Goto, RunClaims, atomicVars
  <2>1. CASE GuardRewind(c)
    BY <1>1, <2>1 DEF GuardRewind
  <2>2. CASE ClearPause(c)
    BY <1>1, <2>2 DEF ClearPause
  <2>3. CASE MarkRunning(c)
    <3>1. call'[c] = "run" /\ pc'[c] = "continued"
      BY <1>1, <2>3 DEF MarkRunning
    <3>2. \A d \in Clients : d # c => pc'[d] = pc[d] /\ call'[d] = call[d]
      BY <1>1, <2>3 DEF MarkRunning
    <3>3. pc[c] = "mark" /\ view' = view
      BY <2>3 DEF MarkRunning
    <3>4. QED BY <3>1, <3>2, <3>3
  <2>4. CASE AnnounceContinued(c)
    <3>1. call'[c] = "run" /\ pc'[c] = "submit"
      BY <1>1, <2>4 DEF AnnounceContinued
    <3>2. \A d \in Clients : d # c => pc'[d] = pc[d] /\ call'[d] = call[d]
      BY <1>1, <2>4 DEF AnnounceContinued
    <3>3. running' = running
      BY <2>4 DEF AnnounceContinued
    <3>4. QED BY <3>1, <3>2, <3>3
  <2>5. CASE Submit(c)
    BY <1>1, <2>5 DEF Submit
  <2>6. CASE ReturnRun(c)
    <3>1. call'[c] = "run" /\ pc'[c] = "announce" /\ pc[c] = "answered"
      BY <1>1, <2>6 DEF ReturnRun
    <3>2. \A d \in Clients : d # c => pc'[d] = pc[d] /\ call'[d] = call[d]
      BY <1>1, <2>6 DEF ReturnRun
    <3>3. ~running' /\ view' = view
      BY <2>6 DEF ReturnRun
    <3>4. QED BY <3>1, <3>2, <3>3
  <2>7. CASE Return(c)
    <3>1. pc'[c] \in AfterAnswer(call[c]) /\ pc[c] = "answered" /\ call[c] # "run"
      BY <1>1, <2>7 DEF Return
    <3>2. pc'[c] \notin {"mark", "continued"}
      BY <3>1 DEF AfterAnswer
    <3>3. \A d \in Clients : d # c => pc'[d] = pc[d] /\ call'[d] = call[d]
      BY <1>1, <2>7 DEF Return
    <3>4. running' = running /\ view' = view
      BY <2>7 DEF Return
    <3>5. QED BY <3>1, <3>2, <3>3, <3>4
  <2>8. CASE CheckRunning(c)
    BY <1>1, <2>8 DEF CheckRunning
  <2>9. CASE AnnounceStopped(c)
    <3>1. pc'[c] = "idle" /\ pc[c] = "announce"
      BY <1>1, <2>9 DEF AnnounceStopped
    <3>2. call' = call /\ \A d \in Clients : d # c => pc'[d] = pc[d]
      BY <1>1, <2>9 DEF AnnounceStopped
    <3>3. view' = "stopped" /\ running' = running
      BY <2>9 DEF AnnounceStopped
    <3>4. QED BY <3>1, <3>2, <3>3
  <2>10. QED BY <1>4, <2>1, <2>2, <2>3, <2>4, <2>5, <2>6, <2>7, <2>8, <2>9 DEF ClientStep
<1>5. CASE EmulatorStep
  <2>1. call' = call /\ view' = view /\ (running' => running)
    <3> USE DEF atomicVars
    <3>1. call' = call
      BY <1>5, EmulatorMoves
    <3>2. CASE Pop \/ Execute \/ TypeLoad \/ Search \/ Service \/ EndYield \/ Exit
      BY <3>1, <3>2 DEF Pop, Execute, TypeLoad, Search, Service, EndYield, Exit
    <3>3. ASSUME Finish PROVE view' = view /\ (running' => running)
      <4>1. view' = view /\ running' = IF call[Top] = "run" THEN FALSE ELSE running
        BY <3>3 DEF Finish
      <4>2. QED BY <4>1
    <3>4. CASE LoopCheck
      BY <3>1, <3>3, <3>4 DEF LoopCheck
    <3>5. CASE LoopExec
      BY <3>1, <3>3, <3>5 DEF LoopExec
    <3>6. QED BY <1>5, <3>2, <3>4, <3>5 DEF EmulatorStep
  <2>2. UNCHANGED pc \/ (stack # <<>> /\ Answer)
    BY <1>5, EmulatorMoves
  <2>3. CASE UNCHANGED pc
    BY <2>1, <2>3 DEF RunClaims
  <2>4. CASE stack # <<>> /\ Answer
    <3>1. pc'[Top] = "answered" /\ \A d \in Clients : d # Top => pc'[d] = pc[d]
      BY <2>4, AnswerTop
    <3>2. Top \in Clients /\ pc[Top] = "wait"
      BY <2>4, TopWaits
    <3>3. QED BY <2>1, <3>1, <3>2 DEF RunClaims
  <2>5. QED BY <2>2, <2>3, <2>4
<1>6. CASE Shutdown
  BY <1>6 DEF Shutdown, RunClaims, clientVars
<1>7. CASE UNCHANGED vars
  BY <1>7 DEF RunClaims, vars, clientVars, atomicVars
<1>8. QED BY <1>2, <1>3, <1>4, <1>5, <1>6, <1>7 DEF Next

-----------------------------------------------------------------------------
(* What the subscribers see of one client's runs.                          *)

\* The others, as front ends that only read, edit and pause.  (One that also
\* drives, resets or loads may announce a stop of its own during the run.)
DrivesAlone(r) == \A c \in Clients \ {r} : May[c] \subseteq {"edit", "pause"}

\* The others never announce, and from its announcement to its answer the run
\* stands as it was announced.
AloneInv(r) ==
  /\ \A c \in Clients \ {r} : call[c] = "edit" /\ pc[c] \in {"idle", "submit", "wait", "answered"}
  /\ pc[r] = "guard" => call[r] # "run"
  /\ call[r] = "run" /\ pc[r] \in {"continued", "submit", "wait"} => running
  /\ call[r] = "run" /\ pc[r] \in {"submit", "wait"} => view = "running"

\* The emulator thread clears running_ only as it answers a run.
LEMMA ClearsAnswered ==
  ASSUME IInv, EmulatorStep
  PROVE  /\ call' = call /\ view' = view
         /\ \/ UNCHANGED <<pc, running>>
            \/ /\ Top \in Clients /\ pc[Top] = "wait" /\ pc' = [pc EXCEPT ![Top] = "answered"]
               /\ running' = running \/ call[Top] = "run"
<1> USE DEF atomicVars, clientVars
<1>1. call' = call
  BY EmulatorMoves DEF IInv
<1>2. ASSUME stack # <<>> PROVE Top \in Clients /\ pc[Top] = "wait"
  BY <1>2, TopWaits DEF IInv
<1>3. CASE Pop \/ Service \/ EndYield \/ Exit
  BY <1>1, <1>3 DEF Pop, Service, EndYield, Exit
<1>4. CASE Execute
  BY <1>1, <1>2, <1>4 DEF Execute, Answer
<1>5. CASE Search
  BY <1>1, <1>2, <1>5 DEF Search, Answer
<1>6. ASSUME Finish, stack # <<>>
      PROVE  /\ view' = view /\ Top \in Clients /\ pc[Top] = "wait"
             /\ pc' = [pc EXCEPT ![Top] = "answered"]
             /\ running' = running \/ call[Top] = "run"
  BY <1>2, <1>6 DEF Finish, Answer
<1>7. CASE LoopCheck
  BY <1>1, <1>6, <1>7 DEF LoopCheck, InLoop
<1>8. CASE LoopExec
  BY <1>1, <1>6, <1>8 DEF LoopExec, InLoop
<1>9. CASE TypeLoad
  BY <1>1, <1>2, <1>9 DEF TypeLoad, Answer
<1>10. QED BY <1>3, <1>4, <1>5, <1>7, <1>8, <1>9 DEF EmulatorStep

\* Every step keeps that: only the runner marks and announces, and its run is
\* answered when running_ goes.
LEMMA StepAlone ==
  ASSUME NEW r \in Clients, DrivesAlone(r), IInv, AloneInv(r), [Next]_vars
  PROVE  AloneInv(r)'
<1> USE DEF AloneInv
<1>1. pc \in [Clients -> Labels] /\ call \in [Clients -> Queued] /\ running \in BOOLEAN
  BY DEF IInv, TypeOK
<1>2. \A c \in Clients : pc[c] \in {"mark", "continued"} => call[c] = "run" /\ c = r
  BY DEF IInv, RunClaims
<1>3. ASSUME NEW c \in Clients, NEW kind \in Calls, Start(c, kind) PROVE AloneInv(r)'
  <2>1. c # r => kind = "edit"
    BY <1>3 DEF Start, DrivesAlone
  <2>2. FirstLabel(kind) \notin {"continued", "wait"}
    BY DEF FirstLabel
  <2>3. kind = "run" => FirstLabel(kind) = "clear"
    BY DEF FirstLabel, Loops, History
  <2>4. kind = "edit" => FirstLabel(kind) = "submit"
    BY DEF FirstLabel, Loops, History
  <2>5. QED BY <1>1, <1>3, <2>1, <2>2, <2>3, <2>4 DEF Start, Goto, atomicVars
<1>4. ASSUME NEW c \in Clients, Pause(c) PROVE AloneInv(r)'
  BY <1>4 DEF Pause
<1>5. ASSUME NEW c \in Clients, ClientStep(c) PROVE AloneInv(r)'
  <2> USE DEF Goto, atomicVars
  <2>1. CASE GuardRewind(c)
    <3>1. c = r /\ call[r] # "run"
      BY <1>1, <2>1 DEF GuardRewind
    <3>2. QED BY <1>1, <2>1, <3>1 DEF GuardRewind
  <2>2. CASE ClearPause(c)
    BY <1>1, <2>2 DEF ClearPause
  <2>3. CASE MarkRunning(c)
    BY <1>1, <1>2, <2>3 DEF MarkRunning
  <2>4. CASE AnnounceContinued(c)
    BY <1>1, <1>2, <2>4 DEF AnnounceContinued
  <2>5. CASE Submit(c)
    BY <1>1, <2>5 DEF Submit
  <2>6. CASE ReturnRun(c)
    BY <1>1, <2>6 DEF ReturnRun
  <2>7. CASE Return(c)
    <3>1. c # r => call'[c] = "edit" /\ pc'[c] = "idle"
      BY <1>1, <2>7 DEF Return, AfterAnswer
    <3>2. c = r => call'[r] # "run"
      BY <1>1, <2>7 DEF Return
    <3>3. QED BY <1>1, <2>7, <3>1, <3>2 DEF Return
  <2>8. CASE CheckRunning(c)
    BY <1>1, <2>8 DEF CheckRunning
  <2>9. CASE AnnounceStopped(c)
    BY <1>1, <2>9 DEF AnnounceStopped
  <2>10. QED BY <1>5, <2>1, <2>2, <2>3, <2>4, <2>5, <2>6, <2>7, <2>8, <2>9 DEF ClientStep
<1>6. CASE EmulatorStep
  BY <1>1, <1>6, ClearsAnswered
<1>7. CASE Shutdown
  BY <1>7 DEF Shutdown, clientVars
<1>8. CASE UNCHANGED vars
  BY <1>8 DEF vars, clientVars, atomicVars
<1>9. QED BY <1>3, <1>4, <1>5, <1>6, <1>7, <1>8 DEF Next

-----------------------------------------------------------------------------
(* The theorems.                                                           *)

\* The invariant holds throughout.
THEOREM Invariance == Spec => []IInv
<1>1. IInv /\ [Next]_vars => IInv'
  BY StepTypes, StepCallers, StepLoops, StepClaims DEF IInv
<1>2. QED BY InitInv, <1>1, PTL DEF Spec

\* The state keeps its shape, and the emulator thread its two counts in range.
THEOREM TypeCorrect == Spec => []TypeOK
<1>1. IInv => TypeOK
  BY DEF IInv
<1>2. QED BY Invariance, <1>1, PTL

\* For any number of callers: a job, and the references into its caller's
\* frame that it holds, exist only while that caller waits in submit().
THEOREM JobsOutlived == Spec => []CallerOutlivesJob
<1>1. IInv => CallerOutlivesJob
  BY DEF IInv
<1>2. QED BY Invariance, <1>1, PTL

\* For any number of callers: service_queue never starts a job marked to wait
\* for the run's end, and never a job inside any but a loop that yields, so the
\* one emulation loop that may begin inside another is a typing.
THEOREM DriversStayOutermost == Spec => []DriversOutermost
<1>1. IInv => DriversOutermost
  BY DEF IInv
<1>2. QED BY Invariance, <1>1, PTL

\* For any number of callers and however their runs overlapped: with no call
\* outstanding, the machine is stopped and the subscribers know.
THEOREM StopsAreTold == Spec => []QuiescentStopped
<1>1. IInv => QuiescentStopped
  BY DEF IInv, TypeOK, RunClaims, QuiescentStopped
<1>2. QED BY Invariance, <1>1, PTL

\* For any number of callers: commands that do not drive emulation are taken
\* up in the order they were queued, inside a run as well as out of it.
THEOREM TakenInOrder == Spec => OrdinaryInOrder
<1> DEFINE Ordered ==
      \A i, j \in DOMAIN queue :
        /\ i < j
        /\ Job(i) \in Ordinary /\ Job(j) \in Ordinary
        /\ ~InRange(queue[j], queue')
        => ~InRange(queue[i], queue')
<1>1. ASSUME IInv, Next PROVE Ordered
  <2>1. TypeOK /\ CallerOutlivesJob /\ Injective(queue)
    BY <1>1 DEF IInv, CallerOutlivesJob
  <2>2. \A i \in DOMAIN queue : i \in Nat /\ InRange(queue[i], queue)
    BY <2>1, LenProperties DEF TypeOK, InRange
  <2>3. ASSUME \A d : InRange(d, queue) => InRange(d, queue') PROVE Ordered
    BY <2>2, <2>3
  <2>4. ASSUME NEW c \in Clients, Submit(c) PROVE Ordered
    <3>1. queue' = Append(queue, c) /\ ~InRange(c, queue)
      BY <2>1, <2>4 DEF Submit, CallerOutlivesJob
    <3>2. QED BY <2>1, <2>3, <3>1, AppendOnce DEF TypeOK
  <2>5. CASE queue # <<>> /\ queue' = Tail(queue)
    <3>1. \A d : InRange(d, queue') <=> InRange(d, queue) /\ d # Head(queue)
      BY <2>1, <2>5, TailOnce DEF TypeOK
    <3>2. Head(queue) = queue[1] /\ \A j \in DOMAIN queue : j > 1 => queue[j] # queue[1]
      BY <2>1, <2>2, <2>5, LenProperties, EmptySeq DEF TypeOK, Injective
    <3>3. \A i, j \in DOMAIN queue : i < j => InRange(queue[j], queue')
      <4>1. \A i, j \in DOMAIN queue : i < j => j > 1
        BY <2>1, LenProperties DEF TypeOK
      <4>2. QED BY <2>2, <3>1, <3>2, <4>1
    <3>4. QED BY <3>3
  <2>6. CASE \E k \in DOMAIN queue : Servicable(k) /\ queue' = DropFirst(k)
    <3>1. PICK k \in DOMAIN queue : Servicable(k) /\ queue' = DropFirst(k)
      BY <2>6
    <3>2. \A d : InRange(d, queue') <=> InRange(d, queue) /\ d # queue[k]
      BY <2>1, <3>1, DropFirstOnce DEF TypeOK
    <3>3. \A j \in DOMAIN queue : ~InRange(queue[j], queue') => j = k
      BY <2>1, <2>2, <3>2 DEF Injective
    <3>4. \A i \in DOMAIN queue : i < k => Job(i) \notin Ordinary
      BY <2>1, <3>1, LenProperties DEF TypeOK, Servicable
    <3>5. QED BY <3>3, <3>4
  <2>7. CASE UNCHANGED queue
    BY <2>3, <2>7 DEF InRange
  <2>8. [Next]_vars
    BY <1>1
  <2>9. QED BY <2>1, <2>4, <2>5, <2>6, <2>7, <2>8, StepCases, EmulatorMoves DEF Quiet
<1>2. IInv /\ [Next]_vars => [Ordered]_vars
  BY <1>1
<1>3. QED BY Invariance, <1>2, PTL DEF Spec, OrdinaryInOrder

\* With one client that drives and any number that read, edit and pause: while
\* its run has the emulator thread, running() says so and the subscribers were
\* last told of it, whoever is serviced in between.
THEOREM RunIsSeen ==
  ASSUME NEW r \in Clients, DrivesAlone(r)
  PROVE  Spec => []ViewTracksRun
<1>1. Init => AloneInv(r)
  BY DEF Init, AloneInv
<1>2. IInv /\ AloneInv(r) /\ [Next]_vars => AloneInv(r)'
  BY StepAlone
<1>3. IInv /\ AloneInv(r) => ViewTracksRun
  <2>1. SUFFICES ASSUME IInv, AloneInv(r), stack # <<>>, call[stack[1]] = "run"
                 PROVE  running /\ view = "running"
    BY DEF ViewTracksRun, RunInFlight
  <2>2. stack[1] \in Clients /\ InRange(stack[1], stack)
    <3>1. stack \in Seq(Clients)
      BY <2>1 DEF IInv, TypeOK
    <3>2. 1 \in DOMAIN stack
      BY <2>1, <3>1, LenProperties, EmptySeq
    <3>3. QED BY <3>1, <3>2, ElementOfSeq, LenProperties DEF InRange
  <2>3. pc[stack[1]] = "wait"
    BY <2>1, <2>2 DEF IInv, CallerOutlivesJob
  <2>4. stack[1] = r
    BY <2>1, <2>2 DEF AloneInv
  <2>5. QED BY <2>1, <2>3, <2>4 DEF AloneInv
<1>4. QED BY Invariance, <1>1, <1>2, <1>3, PTL DEF Spec
=============================================================================
