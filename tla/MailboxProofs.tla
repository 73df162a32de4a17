--------------------------- MODULE MailboxProofs ---------------------------
(***************************************************************************)
(* What holds of the mailboxes between the clients' threads and the        *)
(* emulator thread - commands to the tape deck, logpoints, captured frames *)
(* - for any threads, commands, connections and captures: the theorems     *)
(* TLAPS proves about modules TapeHandover, Logpoints and FrameCapture.    *)
(*                                                                         *)
(* Of the tape, the inductive invariant says that a queued insert is       *)
(* waited for by its caller and by no other job (JobsWaited); that the     *)
(* requests are numbered and the pending command is the last one asked for *)
(* (Numbered); and that a tape put in is in the deck, and in the status    *)
(* before its caller can be let go (Inserted).  RequestsReach is inductive *)
(* beside these.                                                           *)
(*                                                                         *)
(* Of the logpoints, that numbers not given out are nobody's (GivenOut);   *)
(* that the number a connection holds is in the Engine only while it is    *)
(* setting it, and that a delivery finds its caller waiting (Held); that   *)
(* an owner has what it owns listed (OwnersList); and that whatever is in  *)
(* the Engine is held by somebody (AllKept).                               *)
(*                                                                         *)
(* Of their reports, that a delivery has all there was (OneDelivery) and   *)
(* what is on its way is in order, after all that was heard (InTurn); that *)
(* no two clients hold one logpoint (OneHolder); that the owner of a       *)
(* report on its way still has the logpoint or waits for this delivery     *)
(* (StillSet, ForThem), which is why an address given to another hears     *)
(* nothing of its predecessor's; and that the log and what its reader is   *)
(* owed are numbered upwards (Owing).  What is picked from a sequence is   *)
(* found by taking a least place at which it would not be (Least, Picks).  *)
(*                                                                         *)
(* Of a capture, that it is armed for somebody inside (ForSomebody); that  *)
(* a caller alone is the only one inside and the capture its own, its      *)
(* frames spaced as asked and the next one due when it says (OnlyOne,      *)
(* Owned); and that the job it posted has frames enough left (Enough).     *)
(***************************************************************************)
EXTENDS TapeHandover, Logpoints, FrameCapture, SequenceTheorems, FiniteSetTheorems, WellFoundedInduction, TLAPS

-----------------------------------------------------------------------------
(* The tape deck.                                                          *)

JobsWaited ==
  /\ \A i \in 1..Len(jobs) : jobs[i] # Wake => pc[jobs[i]] = "insert"
  /\ \A i, j \in 1..Len(jobs) : jobs[i] = jobs[j] /\ jobs[i] # Wake => i = j

Numbered ==
  /\ \A c \in Clients : pc[c] \in {"post", "wait"} => want[c] <= requested
  /\ pending # NoCommand => pending = last

Inserted ==
  \A c \in Clients :
    /\ image[c] <= deck.tape
    /\ pc[c] = "insert" => image[c] = 0
    /\ pc[c] \in {"post", "wait"} /\ want[c] <= applied => image[c] <= status.tape

HInv == TypeOK /\ JobsWaited /\ Numbered /\ Inserted /\ RequestsReach

\* The initial state satisfies it.
LEMMA AtStart == Init => HInv
<1> SUFFICES ASSUME Init PROVE HInv
  OBVIOUS
<1>1. jobs \in Seq(Clients \cup {Wake}) /\ Len(jobs) = 0
  BY EmptySeq DEF Init
<1>2. EmptyDeck \in Decks /\ MaxCalls \in Nat /\ 0 \in 0..MaxCalls /\ 0 \in 0..0
  BY TapeAssumption DEF EmptyDeck, Decks
<1>3. TypeOK
  BY <1>1, <1>2 DEF Init, TypeOK
<1>4. JobsWaited /\ Numbered /\ Inserted /\ RequestsReach
  BY <1>1 DEF Init, JobsWaited, Numbered, Inserted, RequestsReach, EmptyDeck
<1>5. QED BY <1>3, <1>4 DEF HInv

-----------------------------------------------------------------------------
(* The steps, as the lemmas below take them.                               *)

\* A caller begins: what it wants of the deck, no tape yet, and for an insert
\* its job in the queue.
Begins(c) ==
  /\ pc[c] = "idle" /\ begun' = begun + 1 /\ begun < MaxCalls
  /\ image' = [image EXCEPT ![c] = 0]
  /\ \E command \in Commands \cup {NoCommand} : what' = [what EXCEPT ![c] = command]
  /\ \/ pc' = [pc EXCEPT ![c] = "request"] /\ jobs' = jobs
     \/ pc' = [pc EXCEPT ![c] = "insert"] /\ jobs' = Append(jobs, c) /\ fast' = fast
  /\ fast' \in BOOLEAN
  /\ UNCHANGED <<want, requestVars, emulatorVars>>

\* The emulator thread only moves along.
Passing ==
  /\ UNCHANGED <<clientVars, requestVars, fast, jobs, applied, taken, deck, status>>
  /\ mode' \in {"idle", "run"} /\ at' \in {"free", "queue", "look", "take", "publish"}

\* It runs the oldest job.
RunsJob == RunOldestJob /\ at' \in {"queue", "look"}

\* Every step is one of these.
LEMMA StepCases ==
  ASSUME TypeOK, [Next]_vars
  PROVE  \/ \E c \in Clients : Begins(c) \/ RequestTape(c) \/ PostWake(c) \/ Release(c)
         \/ RunsJob \/ Take \/ Publish \/ Passing
<1>1. ASSUME NEW c \in Clients, AskCommand(c) \/ SetFastLoad(c) \/ LoadTape(c) PROVE Begins(c)
  BY <1>1 DEF AskCommand, SetFastLoad, LoadTape, Begin, Begins, TypeOK
<1>2. CASE Pop \/ ServiceQueue
  BY <1>2 DEF Pop, ServiceQueue, RunsJob
<1>3. CASE StartRun \/ EndRun \/ Yield \/ QueueServiced
  BY <1>3 DEF StartRun, EndRun, Yield, QueueServiced, Passing, TypeOK
<1>4. CASE Look
  BY <1>4 DEF Look, Passing, TypeOK
<1>5. CASE UNCHANGED vars
  BY <1>5 DEF vars, Passing, TypeOK, emulatorVars
<1>6. QED BY <1>1, <1>2, <1>3, <1>4, <1>5 DEF Next, ClientStep, EmulatorStep

\* The oldest job is a wake, or an insert whose caller waits for it alone; the
\* insert puts a new tape in or lets its caller go.
LEMMA JobCases ==
  ASSUME HInv, RunsJob
  PROVE  /\ jobs' \in Seq(Clients \cup {Wake})
         /\ Len(jobs') = Len(jobs) - 1
         /\ \A i \in 1..Len(jobs') : i + 1 \in 1..Len(jobs) /\ jobs'[i] = jobs[i + 1]
         /\ UNCHANGED <<what, want, begun, requestVars, fast, applied, taken, status, mode>>
         /\ \/ UNCHANGED <<pc, image, deck>>
            \/ \E c \in Clients :
                 /\ pc[c] = "insert"
                 /\ \A i \in 1..Len(jobs') : jobs'[i] # c
                 /\ \/ /\ deck' = [deck EXCEPT !.tape = @ + 1, !.fast = fast]
                       /\ image' = [image EXCEPT ![c] = deck.tape + 1]
                       /\ pc' = [pc EXCEPT ![c] = "request"]
                    \/ pc' = [pc EXCEPT ![c] = "idle"] /\ UNCHANGED <<deck, image>>
<1> USE DEF HInv
<1>1. jobs \in Seq(Clients \cup {Wake}) /\ jobs # <<>> /\ jobs' = Tail(jobs)
  BY DEF TypeOK, RunsJob, RunOldestJob
<1>2. /\ Len(jobs) \in Nat \ {0} /\ Head(jobs) = jobs[1] /\ jobs[1] \in Clients \cup {Wake}
      /\ jobs' \in Seq(Clients \cup {Wake}) /\ Len(jobs') = Len(jobs) - 1
      /\ \A i \in 1..Len(jobs') : jobs'[i] = jobs[i + 1]
  BY <1>1, HeadTailProperties, LenProperties, EmptySeq
<1>3. \A i \in 1..Len(jobs') : i + 1 \in 1..Len(jobs)
  BY <1>2
<1>4. UNCHANGED <<what, want, begun, requestVars, fast, applied, taken, status, mode>> /\ Execute(jobs[1])
  BY <1>2 DEF RunsJob, RunOldestJob
<1>5. CASE jobs[1] = Wake
  BY <1>2, <1>3, <1>4, <1>5 DEF Execute
<1>6. CASE jobs[1] # Wake
  <2> DEFINE c == jobs[1]
  <2>1. c \in Clients /\ pc[c] = "insert" /\ Insert(c)
    BY <1>2, <1>4, <1>6 DEF JobsWaited, Execute
  <2>2. \A i \in 1..Len(jobs') : jobs'[i] # c
    BY <1>2, <1>3, <1>6 DEF JobsWaited
  <2>3. \/ /\ deck' = [deck EXCEPT !.tape = @ + 1, !.fast = fast]
           /\ image' = [image EXCEPT ![c] = deck.tape + 1]
           /\ pc' = [pc EXCEPT ![c] = "request"]
        \/ pc' = [pc EXCEPT ![c] = "idle"] /\ UNCHANGED <<deck, image>>
    BY <2>1 DEF Insert, TypeOK, Decks
  <2>4. QED BY <1>2, <1>3, <1>4, <2>1, <2>2, <2>3
<1>7. QED BY <1>5, <1>6

-----------------------------------------------------------------------------
(* The invariant.                                                          *)

\* Every step keeps the state's shape.
LEMMA StepTypes ==
  ASSUME HInv, [Next]_vars
  PROVE  TypeOK'
<1> USE TapeAssumption DEF HInv, TypeOK, clientVars, requestVars, emulatorVars
<1>1. ASSUME NEW c \in Clients, Begins(c) PROVE TypeOK'
  <2>1. jobs' \in Seq(Clients \cup {Wake})
    <3>1. jobs \in Seq(Clients \cup {Wake}) /\ c \in Clients \cup {Wake}
      OBVIOUS
    <3>2. jobs' = jobs \/ jobs' = Append(jobs, c)
      BY <1>1 DEF Begins
    <3>3. Append(jobs, c) \in Seq(Clients \cup {Wake})
      BY <3>1, AppendProperties
    <3>4. QED BY <3>1, <3>2, <3>3
  <2>2. begun' \in 0..MaxCalls
    BY <1>1 DEF Begins
  <2>3. pc' \in [Clients -> {"idle", "insert", "request", "post", "wait"}] /\ image' \in [Clients -> Nat]
    BY <1>1 DEF Begins
  <2>4. QED BY <1>1, <2>1, <2>2, <2>3 DEF Begins
<1>2. ASSUME NEW c \in Clients, RequestTape(c) PROVE TypeOK'
  <2>1. requested' = requested + 1 /\ taken \in 0..requested' /\ applied \in 0..requested'
    BY <1>2 DEF RequestTape
  <2>2. pending' \in Commands \cup {NoCommand} /\ last' \in Commands \cup {NoCommand}
    BY <1>2 DEF RequestTape
  <2>3. QED BY <1>2, <2>1, <2>2 DEF RequestTape
<1>3. ASSUME NEW c \in Clients, PostWake(c) PROVE TypeOK'
  <2>1. jobs' \in Seq(Clients \cup {Wake})
    BY <1>3, AppendProperties DEF PostWake
  <2>2. QED BY <1>3, <2>1 DEF PostWake
<1>4. ASSUME NEW c \in Clients, Release(c) PROVE TypeOK'
  BY <1>4 DEF Release
<1>5. CASE RunsJob
  <2>1. jobs' \in Seq(Clients \cup {Wake}) /\ at' \in {"queue", "look"}
    BY <1>5, JobCases DEF RunsJob
  <2>2. ASSUME NEW c \in Clients,
               deck' = [deck EXCEPT !.tape = @ + 1, !.fast = fast],
               image' = [image EXCEPT ![c] = deck.tape + 1],
               pc' = [pc EXCEPT ![c] = "request"]
        PROVE  deck' \in Decks /\ image' \in [Clients -> Nat] /\ pc' \in [Clients -> {"idle", "insert", "request", "post", "wait"}]
    <3>1. deck.tape \in Nat /\ deck.tape + 1 \in Nat
      BY DEF Decks
    <3>2. deck' \in Decks
      BY <2>2, <3>1 DEF Decks
    <3>3. QED BY <2>2, <3>1, <3>2
  <2>3. ASSUME NEW c \in Clients, pc' = [pc EXCEPT ![c] = "idle"], UNCHANGED <<deck, image>>
        PROVE  deck' \in Decks /\ image' \in [Clients -> Nat] /\ pc' \in [Clients -> {"idle", "insert", "request", "post", "wait"}]
    BY <2>3
  <2>4. deck' \in Decks /\ image' \in [Clients -> Nat] /\ pc' \in [Clients -> {"idle", "insert", "request", "post", "wait"}]
    BY <1>5, <2>2, <2>3, JobCases
  <2>5. UNCHANGED <<what, want, begun, requestVars, fast, applied, taken, status, mode>>
    BY <1>5, JobCases
  <2>6. QED BY <2>1, <2>4, <2>5
<1>6. CASE Take
  <2>1. deck' \in Decks
    BY <1>6 DEF Take, Decks
  <2>2. taken' \in 0..requested' /\ applied' \in 0..requested' /\ requested' \in Nat
    BY <1>6 DEF Take
  <2>3. QED BY <1>6, <2>1, <2>2 DEF Take
<1>7. CASE Publish
  <2>1. taken' \in 0..requested' /\ applied' \in 0..requested' /\ requested' \in Nat
    BY <1>7 DEF Publish
  <2>2. QED BY <1>7, <2>1 DEF Publish
<1>8. CASE Passing
  BY <1>8 DEF Passing
<1>9. QED BY <1>1, <1>2, <1>3, <1>4, <1>5, <1>6, <1>7, <1>8, StepCases

\* Every step keeps each insert with the one caller that waits for it.
LEMMA StepJobs ==
  ASSUME HInv, [Next]_vars
  PROVE  JobsWaited'
<1> USE DEF HInv
<1>1. /\ Len(jobs) \in Nat /\ Wake \notin Clients
      /\ \A i \in 1..Len(jobs) : jobs[i] \in Clients \cup {Wake}
  BY LenProperties, ElementOfSeq, TapeAssumption DEF TypeOK
<1>2. ASSUME NEW x, jobs' = Append(jobs, x)
      PROVE  Len(jobs') = Len(jobs) + 1 /\ jobs'[Len(jobs) + 1] = x /\ \A i \in 1..Len(jobs) : jobs'[i] = jobs[i]
  BY <1>2, <1>1, LenProperties DEF TypeOK
<1>3. ASSUME NEW c \in Clients, Begins(c) PROVE JobsWaited'
  <2>1. pc[c] = "idle" /\ \A d \in Clients : d # c => pc'[d] = pc[d]
    BY <1>3 DEF Begins, TypeOK
  <2>2. \A i \in 1..Len(jobs) : jobs[i] # c
    BY <1>1, <2>1 DEF JobsWaited
  <2>3. CASE jobs' = jobs
    BY <1>1, <2>1, <2>2, <2>3 DEF JobsWaited
  <2>4. CASE jobs' = Append(jobs, c) /\ pc'[c] = "insert"
    BY <1>1, <1>2, <2>1, <2>2, <2>4 DEF JobsWaited
  <2>5. jobs' = jobs \/ (jobs' = Append(jobs, c) /\ pc'[c] = "insert")
    BY <1>3 DEF Begins, TypeOK
  <2>6. QED BY <2>3, <2>4, <2>5
<1>4. ASSUME NEW c \in Clients, PostWake(c) PROVE JobsWaited'
  <2>1. jobs' = Append(jobs, Wake) /\ pc[c] = "post" /\ \A d \in Clients : d # c => pc'[d] = pc[d]
    BY <1>4 DEF PostWake, TypeOK
  <2>2. QED BY <1>1, <1>2, <2>1 DEF JobsWaited
<1>5. ASSUME NEW c \in Clients, RequestTape(c) \/ Release(c) PROVE JobsWaited'
  <2>1. jobs' = jobs /\ pc[c] # "insert" /\ \A d \in Clients : d # c => pc'[d] = pc[d]
    BY <1>5 DEF RequestTape, Release, TypeOK
  <2>2. QED BY <1>1, <2>1 DEF JobsWaited
<1>6. CASE RunsJob
  <2>1. /\ Len(jobs') = Len(jobs) - 1
        /\ \A i \in 1..Len(jobs') : i + 1 \in 1..Len(jobs) /\ jobs'[i] = jobs[i + 1]
    BY <1>6, JobCases
  <2>2. \A i \in 1..Len(jobs') : jobs'[i] # Wake => jobs'[i] \in Clients /\ pc'[jobs'[i]] = pc[jobs'[i]]
    BY <1>1, <1>6, <2>1, JobCases DEF TypeOK
  <2>3. ASSUME NEW i \in 1..Len(jobs'), NEW j \in 1..Len(jobs'), jobs'[i] = jobs'[j], jobs'[i] # Wake
        PROVE  i = j
    <3>1. i + 1 = j + 1
      BY <2>1, <2>3 DEF JobsWaited
    <3>2. QED BY <3>1
  <2>4. \A i \in 1..Len(jobs') : jobs'[i] # Wake => pc'[jobs'[i]] = "insert"
    BY <2>1, <2>2 DEF JobsWaited
  <2>5. QED BY <2>3, <2>4 DEF JobsWaited
<1>7. CASE Take \/ Publish \/ Passing
  BY <1>7 DEF Take, Publish, Passing, clientVars, JobsWaited
<1>8. QED BY <1>3, <1>4, <1>5, <1>6, <1>7, StepCases

\* Every step keeps the requests numbered, and the last command the one pending.
LEMMA StepNumbered ==
  ASSUME HInv, [Next]_vars
  PROVE  Numbered'
<1> USE DEF HInv, Numbered, requestVars, emulatorVars, clientVars
<1>1. ASSUME NEW c \in Clients, Begins(c) PROVE Numbered'
  BY <1>1 DEF Begins, TypeOK
<1>2. ASSUME NEW c \in Clients, RequestTape(c) PROVE Numbered'
  BY <1>2 DEF RequestTape, TypeOK
<1>3. ASSUME NEW c \in Clients, PostWake(c) \/ Release(c) PROVE Numbered'
  BY <1>3 DEF PostWake, Release, TypeOK
<1>4. CASE RunsJob
  <2>1. \A c \in Clients : pc'[c] \in {"post", "wait"} => pc'[c] = pc[c]
    BY <1>4, JobCases DEF TypeOK
  <2>2. QED BY <1>4, <2>1, JobCases
<1>5. CASE Take
  BY <1>5 DEF Take
<1>6. CASE Publish \/ Passing
  BY <1>6 DEF Publish, Passing
<1>7. QED BY <1>1, <1>2, <1>3, <1>4, <1>5, <1>6, StepCases

\* Every step keeps a tape put in where it can be seen: a caller's number is
\* above applied until a status that has its tape is published.
LEMMA StepInserted ==
  ASSUME HInv, [Next]_vars
  PROVE  Inserted'
<1> USE DEF HInv, Inserted, requestVars, emulatorVars, clientVars
<1>1. ASSUME NEW c \in Clients, Begins(c) PROVE Inserted'
  <2>1. /\ pc'[c] \in {"request", "insert"} /\ image'[c] = 0
        /\ \A d \in Clients : d # c => pc'[d] = pc[d] /\ image'[d] = image[d]
        /\ UNCHANGED <<want, applied, deck, status>>
    BY <1>1 DEF Begins, TypeOK
  <2>2. deck.tape \in Nat
    BY DEF TypeOK, Decks
  <2>3. QED BY <2>1, <2>2
<1>2. ASSUME NEW c \in Clients, RequestTape(c) PROVE Inserted'
  <2>1. /\ pc'[c] = "post" /\ want'[c] = requested + 1
        /\ \A d \in Clients : d # c => pc'[d] = pc[d] /\ want'[d] = want[d]
        /\ UNCHANGED <<image, applied, deck, status>>
    BY <1>2 DEF RequestTape, TypeOK
  <2>2. ~(want'[c] <= applied)
    BY <2>1 DEF TypeOK
  <2>3. QED BY <2>1, <2>2
<1>3. ASSUME NEW c \in Clients, PostWake(c) \/ Release(c) PROVE Inserted'
  <2>1. /\ pc[c] \in {"post", "wait"} /\ pc'[c] \in {"wait", "idle"}
        /\ \A d \in Clients : d # c => pc'[d] = pc[d]
        /\ UNCHANGED <<want, image, applied, deck, status>>
    BY <1>3 DEF PostWake, Release, TypeOK
  <2>2. QED BY <2>1
<1>4. CASE RunsJob
  <2>1. UNCHANGED <<want, applied, status>>
    BY <1>4, JobCases
  <2>2. CASE UNCHANGED <<pc, image, deck>>
    BY <2>1, <2>2
  <2>3. ASSUME NEW c \in Clients, pc[c] = "insert",
               deck' = [deck EXCEPT !.tape = @ + 1, !.fast = fast],
               image' = [image EXCEPT ![c] = deck.tape + 1],
               pc' = [pc EXCEPT ![c] = "request"]
        PROVE  Inserted'
    <3>1. deck'.tape = deck.tape + 1 /\ deck.tape \in Nat /\ \A d \in Clients : image[d] \in Nat
      BY <2>3 DEF TypeOK, Decks
    <3>2. image'[c] = deck'.tape /\ pc'[c] = "request"
      BY <2>3, <3>1 DEF TypeOK
    <3>3. \A d \in Clients : d # c => image'[d] = image[d] /\ pc'[d] = pc[d] /\ image[d] <= deck'.tape
      BY <2>3, <3>1 DEF TypeOK
    <3>4. QED BY <2>1, <3>1, <3>2, <3>3
  <2>4. ASSUME NEW c \in Clients, pc' = [pc EXCEPT ![c] = "idle"], UNCHANGED <<deck, image>>
        PROVE  Inserted'
    BY <2>1, <2>4 DEF TypeOK
  <2>5. QED BY <1>4, <2>2, <2>3, <2>4, JobCases
<1>5. CASE Take
  <2>1. deck'.tape = deck.tape /\ UNCHANGED <<pc, image, want, applied, status>>
    BY <1>5 DEF Take, TypeOK, Decks
  <2>2. QED BY <2>1
<1>6. CASE Publish
  BY <1>6 DEF Publish
<1>7. CASE Passing
  BY <1>7 DEF Passing
<1>8. QED BY <1>1, <1>2, <1>3, <1>4, <1>5, <1>6, <1>7, StepCases

\* Every step keeps what is asked for on its way to the deck.
LEMMA StepReaches ==
  ASSUME HInv, [Next]_vars
  PROVE  RequestsReach'
<1> USE DEF HInv, RequestsReach, requestVars, emulatorVars, clientVars
<1>1. ASSUME NEW c \in Clients, Begins(c) PROVE RequestsReach'
  <2>1. /\ pc'[c] = "request" \/ (pc'[c] = "insert" /\ fast' = fast)
        /\ pc[c] = "idle" /\ \A d \in Clients : d # c => pc'[d] = pc[d]
        /\ UNCHANGED <<want, pending, last, change_pending, deck, taken>>
    BY <1>1 DEF Begins, TypeOK
  <2>2. QED BY <2>1
<1>2. ASSUME NEW c \in Clients, RequestTape(c) PROVE RequestsReach'
  BY <1>2 DEF RequestTape, TypeOK
<1>3. ASSUME NEW c \in Clients, PostWake(c) \/ Release(c) PROVE RequestsReach'
  <2>1. /\ pc[c] \in {"post", "wait"} /\ pc'[c] \in {"wait", "idle"}
        /\ \A d \in Clients : d # c => pc'[d] = pc[d]
        /\ UNCHANGED <<want, pending, last, change_pending, deck, taken, fast>>
    BY <1>3 DEF PostWake, Release, TypeOK
  <2>2. QED BY <2>1
<1>4. CASE RunsJob
  <2>1. UNCHANGED <<want, pending, last, change_pending, taken, fast>>
    BY <1>4, JobCases
  <2>2. \A c \in Clients : pc'[c] \in {"post", "wait"} => pc'[c] = pc[c]
    BY <1>4, JobCases DEF TypeOK
  <2>3. \A c \in Clients : pc[c] = "request" => pc'[c] = "request"
    BY <1>4, JobCases DEF TypeOK
  <2>4. deck'.command = deck.command /\ (deck'.fast = deck.fast \/ deck'.fast = fast)
    BY <1>4, JobCases DEF TypeOK, Decks
  <2>5. QED BY <2>1, <2>2, <2>3, <2>4
<1>5. CASE Take
  <2>1. /\ deck'.command = (IF pending = NoCommand THEN deck.command ELSE pending) /\ deck'.fast = fast
        /\ taken' = requested /\ UNCHANGED <<pc, want, last, fast>> /\ ~change_pending'
    BY <1>5 DEF Take, TypeOK, Decks
  <2>2. \A c \in Clients : pc[c] \in {"post", "wait"} => ~(want[c] > taken')
    BY <2>1 DEF Numbered, TypeOK
  <2>3. deck'.command = last'
    BY <2>1 DEF Numbered
  <2>4. QED BY <2>1, <2>2, <2>3
<1>6. CASE Publish \/ Passing
  BY <1>6 DEF Publish, Passing
<1>7. QED BY <1>1, <1>2, <1>3, <1>4, <1>5, <1>6, StepCases

-----------------------------------------------------------------------------
(* The theorems.                                                           *)

\* The invariant holds throughout.
THEOREM TapeInvariance == Spec => []HInv
<1>1. HInv /\ [Next]_vars => HInv'
  BY StepTypes, StepJobs, StepNumbered, StepInserted, StepReaches DEF HInv
<1>2. QED BY AtStart, <1>1, PTL DEF Spec

\* The state keeps its shape.
THEOREM TapeTypeCorrect == Spec => []TypeOK
<1>1. HInv => TypeOK
  BY DEF HInv
<1>2. QED BY TapeInvariance, <1>1, PTL

\* For any threads and commands: the deck has had the last command unless it is
\* still pending, and the setting unless a request is on its way; and no request
\* waits with nothing pending for the emulator thread to look at.
THEOREM RequestsAlwaysReach == Spec => []RequestsReach
<1>1. HInv => RequestsReach
  BY DEF HInv
<1>2. QED BY TapeInvariance, <1>1, PTL

\* For any threads and tapes: load_tape returns to a status that has its tape,
\* whoever else's insert, command or publication came in between.
THEOREM InsertsAreSeen == Spec => InsertSeen
<1> DEFINE Seen == \A c \in Clients : pc[c] # "idle" /\ pc'[c] = "idle" => status.tape >= image'[c]
<1>1. ASSUME HInv, [Next]_vars PROVE Seen
  <2> USE <1>1 DEF HInv, clientVars
  <2>1. status.tape \in Nat /\ \A c \in Clients : image[c] \in Nat /\ want[c] \in Nat
    BY DEF TypeOK, Decks
  <2>2. ASSUME NEW c \in Clients, Release(c) PROVE Seen
    <3>1. image' = image /\ pc[c] = "wait" /\ want[c] <= applied /\ \A d \in Clients : d # c => pc'[d] = pc[d]
      BY <2>1, <2>2 DEF Release, TypeOK
    <3>2. QED BY <2>1, <3>1 DEF Inserted
  <2>3. CASE RunsJob
    <3>1. \A c \in Clients : pc[c] # "idle" /\ pc'[c] = "idle" => image'[c] = image[c] /\ pc[c] = "insert"
      BY <2>3, JobCases DEF TypeOK
    <3>2. QED BY <2>1, <3>1 DEF Inserted
  <2>4. CASE \E c \in Clients : Begins(c) \/ RequestTape(c) \/ PostWake(c)
    BY <2>4 DEF Begins, RequestTape, PostWake, TypeOK
  <2>5. CASE Take \/ Publish \/ Passing
    BY <2>5 DEF Take, Publish, Passing
  <2>6. QED BY <2>2, <2>3, <2>4, <2>5, StepCases
<1>2. HInv /\ [Next]_vars => [Seen]_vars
  BY <1>1
<1>3. QED BY TapeInvariance, <1>2, PTL DEF Spec, InsertSeen

-----------------------------------------------------------------------------
(* The logpoints.                                                          *)

Places == {"gone", "idle", "drop", "clear", "disown", "set", "own"}
ConnRecord == [at : Places, group : Groups \cup {All}, id : Nat, life : Nat]
LogTypes ==
  /\ conn \in [Conns -> ConnRecord]
  /\ lists \in [Conns -> [Groups -> SUBSET Nat]]
  /\ next_id \in Nat \ {0}
  /\ task \in [at : {"idle", "set", "own", "clear", "clearing"}, ids : SUBSET Nat]
  /\ "ids" \in DOMAIN mcp /\ mcp.ids \subseteq Nat
  /\ "for" \in DOMAIN flush

\* Numbers not given out yet are nobody's.
GivenOut ==
  /\ \A i \in points : i \in Nat /\ 0 < i /\ i < next_id
  /\ \A c \in Conns : conn[c].id < next_id /\ \A i \in Listing(c) : i < next_id

\* The number a connection holds is in the Engine only while it is setting it,
\* in a group of its own; a delivery finds its caller waiting; and what is gone
\* has nothing listed.
Held ==
  \A c \in Conns :
    /\ conn[c].at \notin {"set", "own"} => conn[c].id \notin points
    /\ conn[c].at \in {"set", "own"} => conn[c].group \in Groups
    /\ conn[c].at = "gone" => Listing(c) = {}
    /\ flush.for = c => conn[c].at \in {"set", "clear"}

\* The task holds numbers only while it is at work.
TaskDone == task.at = "idle" => task.ids = {}

\* An owner has what it owns listed, in its present life.
Owns(i) == owners[i].conn \in Conns /\ i \in Listing(owners[i].conn) /\ owners[i].life = conn[owners[i].conn].life
OwnersList == \A i \in DOMAIN owners : Owns(i)

\* What is in the Engine is held by somebody.
Kept(i) ==
  \/ i \in mcp.ids \cup task.ids
  \/ \E c \in Conns : conn[c].at # "gone" /\ i \in Listing(c) \cup {conn[c].id}
AllKept == \A i \in points : Kept(i)

LogInv == LogTypes /\ GivenOut /\ Held /\ TaskDone /\ OwnersList /\ AllKept

-----------------------------------------------------------------------------
\* A step that touches none of it.
LEMMA OthersKeep ==
  ASSUME LogInv, UNCHANGED <<conn, lists, owners, points, next_id, task>>,
         mcp'.ids = mcp.ids, "ids" \in DOMAIN mcp', "for" \in DOMAIN flush',
         flush'.for = flush.for \/ flush'.for \notin Conns
  PROVE  LogInv'
<1>1. \A c \in Conns : Listing(c)' = Listing(c)
  BY DEF Listing
<1>2. LogTypes'
  BY DEF LogInv, LogTypes
<1>3. GivenOut' /\ Held' /\ TaskDone'
  BY <1>1 DEF LogInv, GivenOut, Held, TaskDone
<1>4. OwnersList'
  BY <1>1 DEF LogInv, OwnersList, Owns
<1>5. AllKept'
  BY <1>1 DEF LogInv, AllKept, Kept
<1> QED BY <1>2, <1>3, <1>4, <1>5 DEF LogInv

\* Only the record of a connection changes, and its number only to one not set.
LEMMA ConnKeeps ==
  ASSUME LogInv, NEW c \in Conns, UNCHANGED <<lists, owners, points, next_id, task, mcp>>,
         NEW r \in ConnRecord, conn' = [conn EXCEPT ![c] = r],
         "for" \in DOMAIN flush', flush'.for = flush.for \/ flush'.for \notin Conns,
         r.id = conn[c].id \/ (r.id = 0 /\ conn[c].id \notin points),
         r.at \in {"set", "own"} => conn[c].at \in {"set", "own"} /\ r.group = conn[c].group,
         r.id \in points => r.at \in {"set", "own"},
         r.at = "gone" => Listing(c) = {},
         r.life = conn[c].life \/ Listing(c) = {},
         flush'.for = c => r.at \in {"set", "clear"}
  PROVE  LogInv'
<1>1. \A d \in Conns : Listing(d)' = Listing(d)
  BY DEF Listing
<1>2. \A d \in Conns : conn'[d] = IF d = c THEN r ELSE conn[d]
  BY DEF LogInv, LogTypes
<1>3. r.id \in Nat /\ r.id < next_id
  BY DEF LogInv, LogTypes, GivenOut, ConnRecord
<1>4. LogTypes'
  BY DEF LogInv, LogTypes
<1>5. GivenOut'
  BY <1>1, <1>2, <1>3 DEF LogInv, GivenOut
<1>6. Held'
  BY <1>1, <1>2 DEF LogInv, Held
<1>7. OwnersList'
  BY <1>1, <1>2 DEF LogInv, OwnersList, Owns
<1>8. AllKept'
  <2> SUFFICES ASSUME NEW i \in points PROVE Kept(i)'
    BY DEF AllKept
  <2>1. CASE i \in mcp.ids \cup task.ids
    BY <2>1 DEF Kept
  <2>2. ASSUME NEW d \in Conns, conn[d].at # "gone", i \in Listing(d) \cup {conn[d].id} PROVE Kept(i)'
    <3>1. CASE d # c
      BY <1>1, <1>2, <2>2, <3>1 DEF Kept
    <3>2. CASE d = c /\ i \in Listing(c)
      BY <1>1, <1>2, <3>2 DEF Kept
    <3>3. CASE d = c /\ i = conn[c].id
      BY <1>1, <1>2, <3>3 DEF Kept
    <3> QED BY <2>2, <3>1, <3>2, <3>3
  <2> QED BY <2>1, <2>2 DEF LogInv, AllKept, Kept
<1> QED BY <1>4, <1>5, <1>6, <1>7, <1>8 DEF LogInv, TaskDone

\* A connection moves on with a number.
LEMMA Moves ==
  ASSUME LogTypes, NEW c \in Conns, NEW place \in Places, NEW number \in Nat,
         conn' = [conn EXCEPT ![c].at = place, ![c].id = number]
  PROVE  /\ conn' \in [Conns -> ConnRecord]
         /\ conn'[c].at = place /\ conn'[c].id = number
         /\ conn'[c].group = conn[c].group /\ conn'[c].life = conn[c].life
         /\ \A d \in Conns : d # c => conn'[d] = conn[d]
<1> DEFINE r == [conn[c] EXCEPT !.at = place, !.id = number]
<1>0. conn \in [Conns -> ConnRecord]
  BY DEF LogTypes
<1>1. conn' = [conn EXCEPT ![c] = r] /\ \A d \in Conns : conn[d] \in ConnRecord
  BY <1>0
<1>2. r \in ConnRecord /\ r.at = place /\ r.id = number /\ r.group = conn[c].group /\ r.life = conn[c].life
  BY <1>1 DEF ConnRecord
<1> HIDE DEF r
<1>3. conn' \in [Conns -> ConnRecord]
  BY <1>0, <1>1, <1>2
<1>4. conn'[c] = r /\ \A d \in Conns : d # c => conn'[d] = conn[d]
  BY <1>0, <1>1
<1> QED BY <1>2, <1>3, <1>4

\* What is left to drop is listed.
LEMMA DropsListed ==
  ASSUME LogInv, NEW c \in Conns
  PROVE  /\ ToDrop(c) \subseteq Listing(c) /\ ToDrop(c) \subseteq Nat
         /\ conn[c].group = All => ToDrop(c) = Listing(c)
  BY DEF ToDrop, Listing, LogInv, LogTypes

-----------------------------------------------------------------------------
(* The emulator thread's steps.                                            *)

\* The caller of a delivery goes on.
LEMMA LetGoKeeps ==
  ASSUME LogInv, LetGo
  PROVE  LogInv'
<1>1. CASE flush.for \in Conns
  <2> PICK c \in Conns : c = flush.for
    BY <1>1
  <2> DEFINE r == [conn[c] EXCEPT !.at = IF conn[c].at = "set" THEN "own" ELSE "disown"]
  <2>1. /\ conn[c] \in ConnRecord /\ conn' = [conn EXCEPT ![c] = r] /\ flush'.for = None /\ "for" \in DOMAIN flush'
        /\ UNCHANGED <<lists, owners, points, next_id, task, mcp>> /\ c # Mcp /\ None \notin Conns
    BY <1>1, LogpointsAssumption DEF LetGo, LogInv, LogTypes, machine, NoFlush
  <2>2. /\ r \in ConnRecord /\ r.id = conn[c].id /\ r.life = conn[c].life /\ r.group = conn[c].group
        /\ r.at = IF conn[c].at = "set" THEN "own" ELSE "disown"
    BY <2>1 DEF ConnRecord, Places
  <2>3. conn[c].at \in {"set", "clear"} /\ (conn[c].at = "clear" => conn[c].id \notin points)
    BY <1>1 DEF LogInv, Held
  <2>4. c \in Conns /\ flush'.for # c /\ flush'.for \notin Conns
    BY <1>1, <2>1
  <2>0. UNCHANGED <<lists, owners, points, next_id, task, mcp>> /\ "for" \in DOMAIN flush'
    BY <2>1
  <2> HIDE DEF r
  <2>5. r.at \in {"set", "own"} => conn[c].at \in {"set", "own"} /\ r.group = conn[c].group
    BY <2>2, <2>3
  <2>6. r.at # "gone" /\ (r.id \in points => r.at \in {"set", "own"})
    BY <2>2, <2>3
  <2>7. r \in ConnRecord /\ conn' = [conn EXCEPT ![c] = r] /\ r.id = conn[c].id /\ r.life = conn[c].life
    BY <2>1, <2>2
  <2>8. /\ flush'.for = flush.for \/ flush'.for \notin Conns
        /\ r.id = conn[c].id \/ (r.id = 0 /\ conn[c].id \notin points)
        /\ r.at = "gone" => Listing(c) = {}
        /\ r.life = conn[c].life \/ Listing(c) = {}
        /\ flush'.for = c => r.at \in {"set", "clear"}
    BY <2>4, <2>6, <2>7
  <2> QED BY <2>0, <2>5, <2>6, <2>7, <2>8, ConnKeeps
<1>2. CASE flush.for \notin Conns
  <2>1. /\ UNCHANGED <<conn, lists, owners, points, next_id, mcp>> /\ flush'.for = None /\ "for" \in DOMAIN flush'
        /\ None \notin Conns
    BY <1>2, LogpointsAssumption DEF LetGo, machine, NoFlush
  <2>2. task' \in [at : {"idle", "set", "own", "clear", "clearing"}, ids : SUBSET Nat] /\ task'.ids = task.ids
        /\ (task'.at = "idle" => task.at = "idle")
    BY DEF LetGo, LogInv, LogTypes
  <2>3. \A c \in Conns : Listing(c)' = Listing(c)
    BY <2>1 DEF Listing
  <2>4. LogTypes'
    BY <2>1, <2>2 DEF LogInv, LogTypes
  <2>5. GivenOut' /\ Held' /\ TaskDone'
    BY <2>1, <2>2, <2>3 DEF LogInv, GivenOut, Held, TaskDone
  <2>6. OwnersList'
    BY <2>1, <2>3 DEF LogInv, OwnersList, Owns
  <2>7. AllKept'
    BY <2>1, <2>2, <2>3 DEF LogInv, AllKept, Kept
  <2> QED BY <2>4, <2>5, <2>6, <2>7 DEF LogInv
<1> QED BY <1>1, <1>2

\* Hits, runs and the parts of a delivery.
LEMMA EmulatorKeeps ==
  ASSUME LogInv, LogEmulatorStep
  PROVE  LogInv'
<1>1. CASE (\E i \in points : Hit(i)) \/ BeginRun
  BY <1>1, OthersKeep DEF Hit, BeginRun, dap, LogInv, LogTypes
<1>2. CASE Progress \/ FinishRun
  <2>1. flush'.for \notin Conns /\ "for" \in DOMAIN flush'
    BY <1>2, LogpointsAssumption DEF Progress, FinishRun, Deliver, NoFlush
  <2> QED BY <1>2, <2>1, OthersKeep DEF Progress, FinishRun, dap, LogInv, LogTypes
<1>3. CASE Sort \/ Send
  <2>1. flush'.for = flush.for /\ "for" \in DOMAIN flush'
    BY <1>3 DEF Sort, Send, LogInv, LogTypes
  <2> QED BY <1>3, <2>1, OthersKeep DEF Sort, Send, dap, machine, LogInv, LogTypes
<1>4. CASE Keep
  <2>1. flush'.for = flush.for /\ "for" \in DOMAIN flush'
    BY <1>4 DEF Keep, NoFlush
  <2>2. mcp'.ids = mcp.ids /\ "ids" \in DOMAIN mcp'
    BY <1>4 DEF Keep, LogInv, LogTypes
  <2> QED BY <1>4, <2>1, <2>2, OthersKeep DEF Keep, dap, machine
<1> QED BY <1>1, <1>2, <1>3, <1>4, LetGoKeeps DEF LogEmulatorStep

-----------------------------------------------------------------------------
(* A connection's steps.                                                   *)

\* Those that change its record alone.
LEMMA ConnRestKeeps ==
  ASSUME LogInv, NEW c \in Conns, Connect(c) \/ Dropped(c) \/ \E g \in Groups \cup {All} : Ask(c, g)
  PROVE  LogInv'
<1>1. conn[c] \in ConnRecord /\ conn[c].life \in Nat /\ conn[c].at \in Places
  BY DEF LogInv, LogTypes, ConnRecord
<1>2. UNCHANGED <<lists, owners, points, next_id, task, mcp, flush>>
  BY DEF Connect, Dropped, Ask, machine
<1>3. "for" \in DOMAIN flush /\ 0 \notin points
  BY DEF LogInv, LogTypes, GivenOut
<1>4. /\ conn[c].at \notin {"set", "own"} => conn[c].id \notin points
      /\ conn[c].at = "gone" => Listing(c) = {}
      /\ flush.for = c => conn[c].at \in {"set", "clear"}
  BY DEF LogInv, Held
<1>5. CASE Connect(c)
  <2> DEFINE r == Resting("idle", conn[c].life + 1)
  <2>1. r \in ConnRecord /\ r.at = "idle" /\ r.id = 0
    BY <1>1 DEF Resting, ConnRecord, Places
  <2>2. conn' = [conn EXCEPT ![c] = r] /\ conn[c].at = "gone"
    BY <1>5 DEF Connect
  <2> HIDE DEF r
  <2> QED BY <1>2, <1>3, <1>4, <2>1, <2>2, ConnKeeps
<1>6. CASE Dropped(c)
  <2> DEFINE r == Resting(IF conn[c].group = All THEN "gone" ELSE "idle", conn[c].life)
  <2>1. r \in ConnRecord /\ r.at = (IF conn[c].group = All THEN "gone" ELSE "idle") /\ r.id = 0 /\ r.life = conn[c].life
    BY <1>1 DEF Resting, ConnRecord, Places
  <2>2. conn' = [conn EXCEPT ![c] = r] /\ conn[c].at = "drop" /\ (r.at = "gone" => Listing(c) = {})
    BY <1>6, <2>1, DropsListed DEF Dropped
  <2>3. r.at \notin {"set", "own", "drop"}
    BY <2>1
  <2> HIDE DEF r
  <2> QED BY <1>2, <1>3, <1>4, <2>1, <2>2, <2>3, ConnKeeps
<1>7. ASSUME NEW g \in Groups \cup {All}, Ask(c, g) PROVE LogInv'
  <2> DEFINE r == [conn[c] EXCEPT !.at = "drop", !.group = g]
  <2>1. r \in ConnRecord /\ r.at = "drop" /\ r.id = conn[c].id /\ r.life = conn[c].life
    BY <1>1 DEF ConnRecord, Places
  <2>2. conn' = [conn EXCEPT ![c] = r] /\ conn[c].at = "idle"
    BY <1>7 DEF Ask
  <2> HIDE DEF r
  <2> QED BY <1>2, <1>3, <1>4, <2>1, <2>2, ConnKeeps
<1> QED BY <1>5, <1>6, <1>7

\* One is cleared in the Engine.
LEMMA ClearOneKeeps ==
  ASSUME LogInv, NEW c \in Conns, ClearOne(c)
  PROVE  LogInv'
<1>1. PICK i \in ToDrop(c) : conn' = [conn EXCEPT ![c].at = "clear", ![c].id = i] /\ points' = points \ {i}
  BY DEF ClearOne
<1>2. /\ conn[c].at = "drop" /\ flush'.for = c /\ "for" \in DOMAIN flush'
      /\ UNCHANGED <<lists, owners, next_id, task, mcp>>
  BY DEF ClearOne, Deliver, NoFlush
<1>3. i \in Nat /\ i \in Listing(c) /\ i < next_id
  BY DropsListed DEF LogInv, GivenOut
<1>4. conn' \in [Conns -> ConnRecord]
  BY <1>1, <1>3, Moves DEF LogInv, Places
<1>5. /\ conn'[c].at = "clear" /\ conn'[c].id = i
      /\ conn'[c].group = conn[c].group /\ conn'[c].life = conn[c].life
      /\ \A d \in Conns : d # c => conn'[d] = conn[d]
  BY <1>1, <1>3, Moves DEF LogInv, Places
<1>6. \A d \in Conns : Listing(d)' = Listing(d)
  BY <1>2 DEF Listing
<1>7. LogTypes'
  BY <1>2, <1>4 DEF LogInv, LogTypes
<1>8. GivenOut' /\ TaskDone'
  <2>1. \A d \in Conns : conn[d].id < next_id /\ (\A j \in Listing(d) : j < next_id)
    BY DEF LogInv, GivenOut
  <2>2. \A d \in Conns : conn'[d].id < next_id /\ (\A j \in Listing(d)' : j < next_id)
    BY <1>3, <1>5, <1>6, <2>1
  <2>3. \A j \in points' : j \in Nat /\ 0 < j /\ j < next_id
    BY <1>1 DEF LogInv, GivenOut
  <2> QED BY <1>2, <2>2, <2>3 DEF LogInv, GivenOut, TaskDone
<1>9. Held'
  <2> SUFFICES ASSUME NEW d \in Conns
               PROVE  /\ conn'[d].at \notin {"set", "own"} => conn'[d].id \notin points'
                      /\ conn'[d].at \in {"set", "own"} => conn'[d].group \in Groups
                      /\ conn'[d].at = "gone" => Listing(d)' = {}
                      /\ flush'.for = d => conn'[d].at \in {"set", "clear"}
    BY DEF Held
  <2>1. /\ conn[d].at \notin {"set", "own"} => conn[d].id \notin points
        /\ conn[d].at \in {"set", "own"} => conn[d].group \in Groups
        /\ conn[d].at = "gone" => Listing(d) = {}
    BY DEF LogInv, Held
  <2>2. CASE d = c
    BY <1>1, <1>2, <1>5, <2>2
  <2>3. CASE d # c
    <3>1. conn'[d] = conn[d] /\ Listing(d)' = Listing(d) /\ flush'.for # d
      BY <1>2, <1>5, <1>6, <2>3
    <3>2. points' \subseteq points
      BY <1>1
    <3> QED BY <2>1, <3>1, <3>2
  <2> QED BY <2>2, <2>3
<1>10. OwnersList'
  BY <1>2, <1>5, <1>6 DEF LogInv, OwnersList, Owns
<1>11. AllKept'
  <2> SUFFICES ASSUME NEW j \in points, j # i PROVE Kept(j)'
    BY <1>1 DEF AllKept
  <2>1. CASE j \in mcp.ids \cup task.ids
    BY <1>2, <2>1 DEF Kept
  <2>2. ASSUME NEW d \in Conns, conn[d].at # "gone", j \in Listing(d) \cup {conn[d].id} PROVE Kept(j)'
    <3>1. CASE d # c
      BY <1>5, <1>6, <2>2, <3>1 DEF Kept
    <3>2. CASE d = c
      <4>1. j \in Listing(c)
        BY <1>2, <2>2, <3>2 DEF LogInv, Held
      <4> QED BY <1>5, <1>6, <4>1 DEF Kept
    <3> QED BY <3>1, <3>2
  <2> QED BY <2>1, <2>2 DEF LogInv, AllKept, Kept
<1> QED BY <1>7, <1>8, <1>9, <1>10, <1>11 DEF LogInv

\* Then it is nobody's any more.
LEMMA DisownKeeps ==
  ASSUME LogInv, NEW c \in Conns, Disown(c)
  PROVE  LogInv'
<1> DEFINE i == conn[c].id
<1>1. /\ conn[c].at = "disown" /\ conn' = [conn EXCEPT ![c].at = "drop", ![c].id = 0]
      /\ owners' = [j \in DOMAIN owners \ {i} |-> owners[j]]
      /\ lists' = [lists EXCEPT ![c] = [g \in Groups |-> lists[c][g] \ {i}]]
      /\ UNCHANGED <<points, next_id, flush, mcp, task>>
  BY DEF Disown, Unlist, machine
<1>2. i \notin points /\ 0 \notin points /\ i \in Nat
  BY <1>1 DEF LogInv, LogTypes, ConnRecord, Held, GivenOut
<1> HIDE DEF i
<1>3. conn' \in [Conns -> ConnRecord]
  BY <1>1, Moves DEF LogInv, Places
<1>4. /\ conn'[c].at = "drop" /\ conn'[c].id = 0
      /\ conn'[c].group = conn[c].group /\ conn'[c].life = conn[c].life
      /\ \A d \in Conns : d # c => conn'[d] = conn[d]
  BY <1>1, Moves DEF LogInv, Places
<1>5. lists' \in [Conns -> [Groups -> SUBSET Nat]]
  BY <1>1 DEF LogInv, LogTypes
<1>6. Listing(c)' = Listing(c) \ {i} /\ \A d \in Conns : d # c => Listing(d)' = Listing(d)
  BY <1>1 DEF Listing, LogInv, LogTypes
<1>7. LogTypes'
  BY <1>1, <1>3, <1>5 DEF LogInv, LogTypes
<1>8. GivenOut' /\ TaskDone'
  BY <1>1, <1>4, <1>6 DEF LogInv, LogTypes, GivenOut, TaskDone
<1>9. Held'
  <2> SUFFICES ASSUME NEW d \in Conns
               PROVE  /\ conn'[d].at \notin {"set", "own"} => conn'[d].id \notin points'
                      /\ conn'[d].at \in {"set", "own"} => conn'[d].group \in Groups
                      /\ conn'[d].at = "gone" => Listing(d)' = {}
                      /\ flush'.for = d => conn'[d].at \in {"set", "clear"}
    BY DEF Held
  <2>1. /\ conn[d].at \notin {"set", "own"} => conn[d].id \notin points
        /\ conn[d].at \in {"set", "own"} => conn[d].group \in Groups
        /\ conn[d].at = "gone" => Listing(d) = {}
        /\ flush.for = d => conn[d].at \in {"set", "clear"}
    BY DEF LogInv, Held
  <2>2. CASE d = c
    BY <1>1, <1>2, <1>4, <2>1, <2>2
  <2>3. CASE d # c
    <3>1. conn'[d] = conn[d] /\ Listing(d)' = Listing(d)
      BY <1>4, <1>6, <2>3
    <3>2. points' = points /\ flush' = flush
      BY <1>1
    <3> QED BY <2>1, <3>1, <3>2
  <2> QED BY <2>2, <2>3
<1>10. OwnersList'
  <2> SUFFICES ASSUME NEW j \in DOMAIN owners, j # i PROVE Owns(j)'
    BY <1>1 DEF OwnersList
  <2>1. Owns(j) /\ owners'[j] = owners[j]
    BY <1>1 DEF LogInv, OwnersList
  <2> QED BY <1>4, <1>6, <2>1 DEF Owns
<1>11. AllKept'
  <2> SUFFICES ASSUME NEW j \in points PROVE Kept(j)'
    BY <1>1 DEF AllKept
  <2>1. CASE j \in mcp.ids \cup task.ids
    BY <1>1, <2>1 DEF Kept
  <2>2. ASSUME NEW d \in Conns, conn[d].at # "gone", j \in Listing(d) \cup {conn[d].id} PROVE Kept(j)'
    <3>1. j # i
      BY <1>2
    <3>2. CASE d # c
      BY <1>4, <1>6, <2>2, <3>2 DEF Kept
    <3>3. CASE d = c
      BY <1>4, <1>6, <2>2, <3>1, <3>3 DEF Kept, i
    <3> QED BY <3>2, <3>3
  <2> QED BY <2>1, <2>2 DEF LogInv, AllKept, Kept
<1> QED BY <1>7, <1>8, <1>9, <1>10, <1>11 DEF LogInv

\* One is set in the Engine.
LEMMA SetOneKeeps ==
  ASSUME LogInv, NEW c \in Conns, SetOne(c)
  PROVE  LogInv'
<1> PICK n \in Nat \ {0} : n = next_id
  BY DEF LogInv, LogTypes
<1>1. /\ conn[c].at = "drop" /\ flush'.for = c /\ "for" \in DOMAIN flush' /\ conn[c].group # All
      /\ conn' = [conn EXCEPT ![c].at = "set", ![c].id = n]
      /\ points' = points \cup {n} /\ next_id' = n + 1
      /\ UNCHANGED <<lists, owners, task, mcp>>
  BY DEF SetOne, Deliver, NoFlush
<1>2. next_id = n /\ n \in Nat /\ next_id' \in Nat \ {0} /\ n < next_id'
  BY <1>1 DEF LogInv, LogTypes
<1>3. conn' \in [Conns -> ConnRecord]
  <2>1. conn' = [conn EXCEPT ![c].at = "set", ![c].id = n] /\ LogTypes /\ "set" \in Places
    BY <1>1 DEF LogInv, Places
  <2> QED BY <2>1, Moves
<1>4. /\ conn'[c].at = "set" /\ conn'[c].id = n
      /\ conn'[c].group = conn[c].group /\ conn'[c].life = conn[c].life
      /\ \A d \in Conns : d # c => conn'[d] = conn[d]
  <2>1. conn' = [conn EXCEPT ![c].at = "set", ![c].id = n] /\ LogTypes /\ "set" \in Places
    BY <1>1 DEF LogInv, Places
  <2>2. conn'[c].at = "set"
    BY <2>1, Moves
  <2>4. conn'[c].id = n
    <3>1. conn[c] \in ConnRecord /\ conn \in [Conns -> ConnRecord]
      BY <2>1 DEF LogTypes
    <3> QED BY <2>1, <3>1 DEF ConnRecord
  <2>3. /\ conn'[c].group = conn[c].group /\ conn'[c].life = conn[c].life
        /\ \A d \in Conns : d # c => conn'[d] = conn[d]
    BY <2>1, Moves
  <2> QED BY <2>2, <2>3, <2>4
<1>5. \A d \in Conns : Listing(d)' = Listing(d) /\ Listing(d) \subseteq Nat
  BY <1>1 DEF Listing, LogInv, LogTypes
<1>6. LogTypes'
  BY <1>1, <1>2, <1>3 DEF LogInv, LogTypes
<1>7. GivenOut' /\ TaskDone'
  <2>1. \A d \in Conns : conn[d].id < next_id /\ (\A j \in Listing(d) : j < next_id)
    BY DEF LogInv, GivenOut
  <2>2. \A d \in Conns : conn'[d].id < next_id'
    <3> SUFFICES ASSUME NEW d \in Conns PROVE conn'[d].id < next_id'
      OBVIOUS
    <3>1. CASE d = c
      BY <1>2, <1>4, <3>1
    <3>2. CASE d # c
      <4>1. conn[d].id < n /\ conn[d].id \in Nat /\ conn'[d] = conn[d]
        BY <1>2, <1>4, <2>1, <3>2 DEF LogInv, LogTypes, ConnRecord
      <4> QED BY <1>2, <4>1
    <3> QED BY <3>1, <3>2
  <2>3. \A d \in Conns : \A j \in Listing(d)' : j < next_id'
    BY <1>1, <1>2, <1>5, <2>1
  <2>4. \A j \in points' : j \in Nat /\ 0 < j /\ j < next_id'
    BY <1>1, <1>2 DEF LogInv, GivenOut
  <2> QED BY <1>1, <2>2, <2>3, <2>4 DEF LogInv, GivenOut, TaskDone
<1>8. Held'
  <2> SUFFICES ASSUME NEW d \in Conns
               PROVE  /\ conn'[d].at \notin {"set", "own"} => conn'[d].id \notin points'
                      /\ conn'[d].at \in {"set", "own"} => conn'[d].group \in Groups
                      /\ conn'[d].at = "gone" => Listing(d)' = {}
                      /\ flush'.for = d => conn'[d].at \in {"set", "clear"}
    BY DEF Held
  <2>1. conn[d].id # n
    BY <1>2, <1>4 DEF LogInv, GivenOut
  <2>2. /\ conn[d].at \notin {"set", "own"} => conn[d].id \notin points
        /\ conn[d].at \in {"set", "own"} => conn[d].group \in Groups
        /\ conn[d].at = "gone" => Listing(d) = {}
    BY DEF LogInv, Held
  <2>3. CASE d = c
    <3>1. conn[c].group \in Groups
      BY <1>1 DEF LogInv, LogTypes, ConnRecord
    <3> QED BY <1>1, <1>4, <2>3, <3>1
  <2>4. CASE d # c
    <3>1. conn'[d] = conn[d] /\ Listing(d)' = Listing(d) /\ flush'.for # d
      BY <1>1, <1>4, <1>5, <2>4
    <3>2. conn[d].id \notin points => conn[d].id \notin points'
      BY <1>1, <2>1
    <3> QED BY <2>2, <3>1, <3>2
  <2> QED BY <2>3, <2>4
<1>9. OwnersList'
  <2> SUFFICES ASSUME NEW j \in DOMAIN owners PROVE Owns(j)'
    BY <1>1 DEF OwnersList
  <2>1. Owns(j) /\ owners' = owners
    BY <1>1 DEF LogInv, OwnersList
  <2>2. conn'[owners[j].conn].life = conn[owners[j].conn].life
    BY <1>4, <2>1 DEF Owns
  <2> QED BY <1>5, <2>1, <2>2 DEF Owns
<1>10. AllKept'
  <2>1. Kept(n)'
    <3>1. conn'[c].at # "gone" /\ n \in Listing(c)' \cup {conn'[c].id}
      BY <1>4
    <3> QED BY <3>1 DEF Kept
  <2>2. ASSUME NEW j \in points PROVE Kept(j)'
    <3>1. CASE j \in mcp.ids \cup task.ids
      BY <1>1, <3>1 DEF Kept
    <3>2. ASSUME NEW d \in Conns, conn[d].at # "gone", j \in Listing(d) \cup {conn[d].id} PROVE Kept(j)'
      <4>1. d = c => j \in Listing(c)
        BY <1>1, <3>2 DEF LogInv, Held
      <4> QED BY <1>4, <1>5, <3>2, <4>1 DEF Kept
    <3> QED BY <3>1, <3>2 DEF LogInv, AllKept, Kept
  <2>3. \A j \in points' : j = n \/ j \in points
    BY <1>1
  <2> QED BY <2>1, <2>2, <2>3 DEF AllKept
<1> QED BY <1>6, <1>7, <1>8, <1>9, <1>10 DEF LogInv

\* Then it is the connection's.
LEMMA OwnKeeps ==
  ASSUME LogInv, NEW c \in Conns, Own(c)
  PROVE  LogInv'
<1> DEFINE i == conn[c].id
           group == conn[c].group
<1>1. /\ conn[c].at = "own" /\ conn' = [conn EXCEPT ![c] = Resting("idle", conn[c].life)]
      /\ owners' = [j \in DOMAIN owners \cup {i} |-> 
           IF j = i THEN [conn |-> c, group |-> Through(group), life |-> conn[c].life] ELSE owners[j]]
      /\ lists' = [lists EXCEPT ![c][group] = lists[c][group] \cup {i}]
      /\ UNCHANGED <<points, next_id, flush, mcp, task>>
  BY DEF Own, machine
<1>2. group \in Groups /\ i \in Nat /\ i < next_id /\ 0 \notin points /\ conn[c].life \in Nat /\ flush.for # c
  BY <1>1 DEF LogInv, LogTypes, ConnRecord, Held, GivenOut
<1>3. conn' \in [Conns -> ConnRecord]
  BY <1>1, <1>2 DEF LogInv, LogTypes, ConnRecord, Places, Resting
<1>4. /\ conn'[c].at = "idle" /\ conn'[c].id = 0 /\ conn'[c].life = conn[c].life
      /\ \A d \in Conns : d # c => conn'[d] = conn[d]
  BY <1>1 DEF LogInv, LogTypes, ConnRecord, Resting
<1> HIDE DEF i, group
<1>5. lists' \in [Conns -> [Groups -> SUBSET Nat]]
  BY <1>1, <1>2 DEF LogInv, LogTypes
<1>6. Listing(c)' = Listing(c) \cup {i} /\ \A d \in Conns : d # c => Listing(d)' = Listing(d)
  <2>1. ASSUME NEW d \in Conns, d # c PROVE Listing(d)' = Listing(d)
    BY <1>1, <2>1 DEF Listing, LogInv, LogTypes
  <2>2. \A g \in Groups : lists'[c][g] = IF g = group THEN lists[c][g] \cup {i} ELSE lists[c][g]
    BY <1>1, <1>2 DEF LogInv, LogTypes
  <2>3. Listing(c)' = Listing(c) \cup {i}
    BY <1>2, <2>2 DEF Listing
  <2> QED BY <2>1, <2>3
<1>7. LogTypes'
  BY <1>1, <1>3, <1>5 DEF LogInv, LogTypes
<1>8. GivenOut' /\ TaskDone'
  BY <1>1, <1>2, <1>4, <1>6 DEF LogInv, LogTypes, GivenOut, TaskDone
<1>9. Held'
  BY <1>1, <1>2, <1>4, <1>6 DEF LogInv, Held
<1>10. OwnersList'
  <2> SUFFICES ASSUME NEW j \in DOMAIN owners' PROVE Owns(j)'
    BY DEF OwnersList
  <2>1. CASE j = i
    <3>1. owners'[j].conn = c /\ owners'[j].life = conn[c].life
      BY <1>1, <2>1
    <3> QED BY <1>4, <1>6, <2>1, <3>1 DEF Owns
  <2>2. CASE j # i
    <3>1. j \in DOMAIN owners /\ owners'[j] = owners[j]
      BY <1>1, <2>2
    <3>2. Owns(j)
      BY <3>1 DEF LogInv, OwnersList
    <3> QED BY <1>4, <1>6, <3>1, <3>2 DEF Owns
  <2> QED BY <2>1, <2>2
<1>11. AllKept'
  <2> SUFFICES ASSUME NEW j \in points PROVE Kept(j)'
    BY <1>1 DEF AllKept
  <2>1. CASE j \in mcp.ids \cup task.ids
    BY <1>1, <2>1 DEF Kept
  <2>2. ASSUME NEW d \in Conns, conn[d].at # "gone", j \in Listing(d) \cup {conn[d].id} PROVE Kept(j)'
    <3>1. CASE d # c
      BY <1>4, <1>6, <2>2, <3>1 DEF Kept
    <3>2. CASE d = c
      BY <1>4, <1>6, <2>2, <3>2 DEF Kept, i
    <3> QED BY <3>1, <3>2
  <2> QED BY <2>1, <2>2 DEF LogInv, AllKept, Kept
<1> QED BY <1>7, <1>8, <1>9, <1>10, <1>11 DEF LogInv

-----------------------------------------------------------------------------
(* An MCP client's steps.                                                  *)

LEMMA McpKeeps ==
  ASSUME LogInv, McpStep
  PROVE  LogInv'
<1> DEFINE Working == [at : {"idle", "set", "own", "clear", "clearing"}, ids : SUBSET Nat]
<1>0. UNCHANGED <<conn, lists, owners>> /\ \A c \in Conns : Listing(c)' = Listing(c)
  BY DEF McpStep, McpSet, McpOwn, McpForget, McpClear, GetLog, dap, Listing
<1>1. next_id \in Nat /\ next_id # 0 /\ \A c \in Conns : conn[c].id \in Nat /\ Listing(c) \subseteq Nat
  BY DEF LogInv, LogTypes, ConnRecord, Listing
<1>2. CASE McpSet
  <2>1. /\ task' = [at |-> "set", ids |-> {next_id}] /\ points' = points \cup {next_id} /\ next_id' = next_id + 1
        /\ task.ids = {} /\ flush'.for \notin Conns /\ "for" \in DOMAIN flush' /\ mcp' = mcp
    BY <1>2, LogpointsAssumption DEF McpSet, Deliver, NoFlush, LogInv, TaskDone
  <2>2. LogTypes' /\ TaskDone'
    BY <1>0, <1>1, <2>1 DEF LogInv, LogTypes, TaskDone
  <2>3. GivenOut'
    BY <1>0, <1>1, <2>1 DEF LogInv, GivenOut
  <2>4. Held'
    <3>1. \A c \in Conns : conn[c].id # next_id
      BY <1>1 DEF LogInv, GivenOut
    <3> QED BY <1>0, <2>1, <3>1 DEF LogInv, Held
  <2>5. OwnersList'
    BY <1>0 DEF LogInv, OwnersList, Owns
  <2>6. AllKept'
    BY <1>0, <2>1 DEF LogInv, AllKept, Kept
  <2> QED BY <2>2, <2>3, <2>4, <2>5, <2>6 DEF LogInv
<1>3. CASE McpOwn \/ McpForget
  <2>1. UNCHANGED <<points, next_id, flush>>
    BY <1>3 DEF McpOwn, McpForget, machine
  <2>2. /\ "ids" \in DOMAIN mcp' /\ mcp'.ids \subseteq Nat /\ task' \in Working
        /\ mcp.ids \cup task.ids \subseteq mcp'.ids \cup task'.ids /\ (task'.at = "idle" => task'.ids = {})
    <3>1. task \in Working /\ "ids" \in DOMAIN mcp /\ mcp.ids \subseteq Nat /\ (task.at = "idle" => task.ids = {})
      BY DEF LogInv, LogTypes, TaskDone
    <3>2. CASE McpOwn
      BY <3>1, <3>2 DEF McpOwn
    <3>3. CASE McpForget
      BY <3>1, <3>3 DEF McpForget
    <3> QED BY <1>3, <3>2, <3>3
  <2>3. LogTypes' /\ TaskDone'
    BY <1>0, <2>1, <2>2 DEF LogInv, LogTypes, TaskDone
  <2>4. GivenOut' /\ Held'
    BY <1>0, <2>1 DEF LogInv, GivenOut, Held
  <2>5. OwnersList'
    BY <1>0 DEF LogInv, OwnersList, Owns
  <2>6. AllKept'
    BY <1>0, <2>1, <2>2 DEF LogInv, AllKept, Kept
  <2> QED BY <2>3, <2>4, <2>5, <2>6 DEF LogInv
<1>4. CASE McpClear
  <2>1. UNCHANGED <<next_id, mcp>> /\ task \in Working
    BY <1>4 DEF McpClear, LogInv, LogTypes
  <2>2. /\ task' \in Working /\ points' \subseteq points
        /\ \A i \in task.ids : i \in task'.ids \/ i \notin points'
        /\ (task'.at = "idle" => task'.ids = {})
        /\ "for" \in DOMAIN flush' /\ (flush' = flush \/ flush'.for \notin Conns)
    <3>1. CASE task.ids = {}
      BY <1>4, <2>1, <3>1 DEF McpClear, LogInv, LogTypes
    <3>2. ASSUME NEW i \in task.ids, task' = [at |-> "clearing", ids |-> task.ids \ {i}], points' = points \ {i},
                 Deliver(Mcp)
          PROVE  /\ task' \in Working /\ points' \subseteq points
                 /\ \A j \in task.ids : j \in task'.ids \/ j \notin points'
                 /\ task'.at # "idle" /\ "for" \in DOMAIN flush' /\ flush'.for \notin Conns
      BY <2>1, <3>2, LogpointsAssumption DEF Deliver, NoFlush
    <3> QED BY <1>4, <3>1, <3>2 DEF McpClear
  <2>3. LogTypes' /\ TaskDone'
    BY <1>0, <2>1, <2>2 DEF LogInv, LogTypes, TaskDone
  <2>4. GivenOut' /\ Held'
    BY <1>0, <2>1, <2>2 DEF LogInv, GivenOut, Held
  <2>5. OwnersList'
    BY <1>0 DEF LogInv, OwnersList, Owns
  <2>6. AllKept'
    BY <1>0, <2>1, <2>2 DEF LogInv, AllKept, Kept
  <2> QED BY <2>3, <2>4, <2>5, <2>6 DEF LogInv
<1>5. CASE GetLog
  BY <1>5, OthersKeep DEF GetLog, machine, dap, LogInv, LogTypes
<1> QED BY <1>2, <1>3, <1>4, <1>5 DEF McpStep

-----------------------------------------------------------------------------
\* The inductive invariant of the logpoints.
THEOREM LogInvariance == LogSpec => []LogInv
<1>1. LogInit => LogInv
  <2> SUFFICES ASSUME LogInit PROVE LogInv
    OBVIOUS
  <2>1. \A c \in Conns : /\ conn[c] \in ConnRecord /\ conn[c].at = "gone" /\ conn[c].id = 0 /\ Listing(c) = {}
    BY DEF LogInit, Resting, ConnRecord, Places, Listing
  <2>2. LogTypes
    BY <2>1 DEF LogInit, LogTypes, NoFlush, Resting, ConnRecord, Places
  <2>3. flush.for \notin Conns
    BY LogpointsAssumption DEF LogInit, NoFlush
  <2>4. DOMAIN owners = {}
    BY DEF LogInit
  <2> QED BY <2>1, <2>2, <2>3, <2>4 DEF LogInit, LogInv, GivenOut, Held, TaskDone, OwnersList, AllKept
<1>2. LogInv /\ [LogNext]_logVars => LogInv'
  <2> SUFFICES ASSUME LogInv, [LogNext]_logVars PROVE LogInv'
    OBVIOUS
  <2>1. CASE UNCHANGED logVars
    BY <2>1, OthersKeep DEF logVars, machine, dap, LogInv, LogTypes
  <2> QED BY <2>1, EmulatorKeeps, McpKeeps, ConnRestKeeps, ClearOneKeeps, DisownKeeps, SetOneKeeps, OwnKeeps
          DEF LogNext, ConnStep
<1> QED BY <1>1, <1>2, PTL DEF LogSpec

\* Every logpoint in the Engine is somebody's who will clear it, and a
\* connection that is gone has left none and no owner.
THEOREM NothingIsLeftBehind == LogSpec => []NothingOfTheGone
<1>1. LogInv => NothingOfTheGone
  <2> SUFFICES ASSUME LogInv PROVE NothingOfTheGone
    OBVIOUS
  <2>1. \A i \in points : Kept(i)
    BY DEF LogInv, AllKept
  <2>2. \A i \in DOMAIN owners : conn[owners[i].conn].at # "gone"
    BY DEF LogInv, OwnersList, Owns, Held
  <2> QED BY <2>1, <2>2 DEF NothingOfTheGone, Kept
<1> QED BY <1>1, LogInvariance, PTL

-----------------------------------------------------------------------------
(* The reports.                                                            *)

Line == [id : Nat, n : Nat]
Message == [n : Nat, life : Nat, stop : BOOLEAN]
ReportTypes ==
  /\ waiting \in Seq(Line) /\ dropped \in Nat /\ serial \in Nat /\ reader \in Nat
  /\ flush \in [at : {"none", "sort", "send", "keep", "done"}, lines : Seq(Line), dropped : Nat,
                console : {<<>>} \cup [Ears -> Seq([n : Nat, life : Nat])],
                for : Conns \cup {Mcp, Run, None}]
  /\ heard \in [Ears -> Seq(Message)]
  /\ mcp \in [ids : SUBSET Nat, lines : Seq([seq : Nat, n : Nat]), next : Nat, dropped : Nat]
  /\ owed \subseteq Line

\* A delivery has all there was to deliver.
OneDelivery ==
  /\ Idle => flush = NoFlush
  /\ ~Idle => waiting = <<>> /\ dropped = 0
  /\ flush.at = "done" => flush.lines = <<>> /\ flush.dropped = 0

\* The reports on their way, in the engine or in a delivery.
OnTheWay == IF Idle THEN waiting ELSE flush.lines

\* They are in the order they were made in, and after all that was heard.
InTurn ==
  /\ \A i, j \in 1..Len(OnTheWay) : i < j => OnTheWay[i].n < OnTheWay[j].n
  /\ \A i \in 1..Len(OnTheWay) : OnTheWay[i].n <= serial
  /\ \A e \in Ears : \A i \in 1..Len(heard[e]) :
       /\ heard[e][i].n <= serial
       /\ flush.at \in {"none", "sort", "send"} =>
            \A k \in 1..Len(OnTheWay) : heard[e][i].n < OnTheWay[k].n

\* A connection is setting a logpoint; those it holds, that one and those in its
\* lists; and those of MCP.
Setting(c) == conn[c].at \in {"set", "own"}
Its(c) == Listing(c) \cup (IF Setting(c) THEN {conn[c].id} ELSE {})
Mcps == mcp.ids \cup task.ids

\* Each logpoint is one client's.
OneHolder ==
  /\ \A i \in Mcps : i < next_id
  /\ \A c \in Conns : Its(c) \cap Mcps = {}
  /\ \A c, d \in Conns : c # d => Its(c) \cap Its(d) = {}
  /\ \A c \in Conns : Setting(c) => conn[c].id \in points /\ conn[c].id \notin Listing(c)

\* A report on its way is of a logpoint still set, or its owner waits for the
\* very delivery; so does whoever it was sorted for.
StillSet ==
  /\ Idle => \A k \in 1..Len(waiting) : waiting[k].id \in points
  /\ flush.at = "sort" => \A k \in 1..Len(flush.lines) :
       LET i == flush.lines[k].id IN i \in points \/ i \notin DOMAIN owners \/ flush.for = owners[i].conn

Awaited(c) == flush.for = c \/ \E i \in points : i \in Listing(c)
ForEach(e) ==
  LET its == flush.console[e]
  IN /\ its # <<>> => conn[e[1]].at # "gone" /\ Awaited(e[1])
     /\ \A k \in 1..Len(its) : its[k].life = conn[e[1]].life /\ \E m \in 1..Len(flush.lines) : its[k].n = flush.lines[m].n
     /\ \A j, k \in 1..Len(its) : j < k => its[j].n < its[k].n
ForThem ==
  flush.at = "send" => flush.console \in [Ears -> Seq([n : Nat, life : Nat])] /\ \A e \in Ears : ForEach(e)

\* The log's lines are numbered upwards.
LogInOrder(lines, next) ==
  \A i \in 1..Len(lines) :
    lines[i].seq < next /\ \A j \in 1..Len(lines) : i < j => lines[i].seq < lines[j].seq

\* What is owed is of MCP's logpoints, and known by its number.
OwedItsOwn ==
  \A o \in owed : o.id \in mcp.ids /\ o.n <= serial /\ \A k \in 1..Len(OnTheWay) : OnTheWay[k].n = o.n => OnTheWay[k].id = o.id

Owing == OwedItsOwn /\ LogInOrder(mcp.lines, mcp.next) /\ reader <= mcp.next

ReportInv ==
  /\ ReportTypes /\ OneDelivery /\ InTurn /\ OneHolder /\ StillSet /\ ForThem /\ Owing
  /\ ReportsStayHome /\ ReportsBeforeTheStop /\ LossesAreCounted

-----------------------------------------------------------------------------
(* Sequences.                                                              *)

\* Induction: what fails of a number fails of a least one.
LEMMA Least ==
  ASSUME NEW T, T \subseteq Nat, T # {}
  PROVE  \E n \in T : \A m \in T : n <= m
<1> DEFINE R == OpToRel(<, Nat)
<1>1. IsWellFoundedOn(R, Nat)
  BY NatLessThanWellFounded
<1>2. PICK n \in T : \A m \in T : ~(<<m, n>> \in R)
  BY <1>1, WFMin
<1>3. \A m \in T : ~(m < n)
  BY <1>2 DEF OpToRel
<1> QED BY <1>3

\* The places a sequence was picked from, in order.
From(f, r, s, P) ==
  /\ f \in [1..Len(r) -> P]
  /\ \A k \in 1..Len(r) : r[k] = s[f[k]]
  /\ \A j, k \in 1..Len(r) : j < k => f[j] < f[k]
  /\ \A i \in P : \E k \in 1..Len(r) : f[k] = i

\* One place more.
LEMMA FromNext ==
  ASSUME NEW S, NEW s \in Seq(S), NEW n \in 1..Len(s), NEW r \in Seq(S), NEW P, P \subseteq 1..(n - 1),
         NEW f, From(f, r, s, P)
  PROVE  \E g : From(g, Append(r, s[n]), s, P \cup {n})
<1> DEFINE t == Append(r, s[n])
           l == Len(r) + 1
           g == [k \in 1..l |-> IF k = l THEN n ELSE f[k]]
<1>1. /\ Len(r) \in Nat /\ Len(t) = l /\ t[l] = s[n] /\ \A k \in 1..Len(r) : t[k] = r[k]
  BY AppendProperties
<1>0. n \in Nat /\ \A i \in P : i \in Nat /\ i < n
  BY LenProperties
<1>2. \A k \in 1..Len(r) : f[k] \in P /\ f[k] < n /\ f[k] \in Nat
  BY <1>0 DEF From
<1>3. g \in [1..Len(t) -> P \cup {n}]
  BY <1>1, <1>2
<1>4. \A k \in 1..Len(t) : t[k] = s[g[k]]
  BY <1>1 DEF From
<1>5. \A j, k \in 1..Len(t) : j < k => g[j] < g[k]
  <2> SUFFICES ASSUME NEW j \in 1..Len(t), NEW k \in 1..Len(t), j < k PROVE g[j] < g[k]
    OBVIOUS
  <2>1. j \in 1..Len(r) /\ g[j] = f[j]
    BY <1>1
  <2>2. CASE k = l
    BY <1>1, <1>2, <2>1, <2>2
  <2>3. CASE k # l
    <3>1. k \in 1..Len(r) /\ g[k] = f[k]
      BY <1>1, <2>3
    <3> HIDE DEF g
    <3> QED BY <2>1, <3>1 DEF From
  <2> QED BY <2>2, <2>3
<1>6. \A i \in P \cup {n} : \E k \in 1..Len(t) : g[k] = i
  <2> SUFFICES ASSUME NEW i \in P \cup {n} PROVE \E k \in 1..Len(t) : g[k] = i
    OBVIOUS
  <2>1. CASE i = n
    <3>1. l \in 1..Len(t) /\ g[l] = n
      BY <1>1
    <3> QED BY <2>1, <3>1
  <2>2. CASE i \in P
    <3>1. PICK k \in 1..Len(r) : f[k] = i
      BY <2>2 DEF From
    <3>2. k \in 1..Len(t) /\ g[k] = f[k]
      BY <1>1
    <3> QED BY <3>1, <3>2
  <2> QED BY <2>1, <2>2
<1>7. From(g, t, s, P \cup {n})
  <2> HIDE DEF g, t
  <2> QED BY <1>3, <1>4, <1>5, <1>6 DEF From
<1> QED BY <1>7

\* What Picked picks is at the places given, and in order.
LEMMA Picks ==
  ASSUME NEW S, NEW s \in Seq(S), NEW P, P \subseteq 1..Len(s)
  PROVE  Picked(s, P) \in Seq(S) /\ \E f : From(f, Picked(s, P), s, P)
<1> DEFINE L == Len(s)
           Picking(g, n) ==
             /\ g \in [0..n -> Seq(S)]
             /\ g[0] = <<>>
             /\ \A i \in 1..n : g[i] = IF i \in P THEN Append(g[i - 1], s[i]) ELSE g[i - 1]
<1>0. L \in Nat /\ \A i \in 1..L : s[i] \in S
  BY LenProperties, ElementOfSeq
<1>1. ASSUME NEW n \in 0..L PROVE \E g : Picking(g, n)
  <2> DEFINE T == {m \in Nat : m <= L /\ ~ \E g : Picking(g, m)}
  <2> HIDE DEF Picking
  <2>1. CASE T = {}
    <3>1. n \in Nat /\ n <= L /\ n \notin T
      BY <1>0, <2>1
    <3> QED BY <3>1
  <2>2. CASE T # {}
    <3>1. PICK m \in T : \A k \in T : m <= k
      BY <2>2, Least
    <3>2. CASE m = 0
      <4> DEFINE g == [i \in 0..0 |-> <<>>]
      <4>1. Picking(g, 0)
        BY EmptySeq DEF Picking
      <4> QED BY <3>1, <3>2, <4>1
    <3>3. CASE m # 0
      <4>1. m \in 1..L /\ m - 1 \in Nat /\ m - 1 <= L /\ m - 1 \notin T
        BY <1>0, <3>1, <3>3
      <4>2. PICK h : Picking(h, m - 1)
        BY <4>1
      <4>3. h \in [0..(m - 1) -> Seq(S)] /\ h[0] = <<>>
            /\ \A i \in 1..(m - 1) : h[i] = IF i \in P THEN Append(h[i - 1], s[i]) ELSE h[i - 1]
        BY <4>2 DEF Picking
      <4> DEFINE next == IF m \in P THEN Append(h[m - 1], s[m]) ELSE h[m - 1]
                 g == [i \in 0..m |-> IF i = m THEN next ELSE h[i]]
      <4>4. next \in Seq(S)
        BY <1>0, <4>1, <4>3, AppendProperties
      <4>5. g \in [0..m -> Seq(S)] /\ g[0] = <<>>
        <5> HIDE DEF next
        <5> QED BY <4>1, <4>3, <4>4
      <4>6. ASSUME NEW i \in 1..m PROVE g[i] = IF i \in P THEN Append(g[i - 1], s[i]) ELSE g[i - 1]
        <5>1. CASE i = m
          <6>1. g[i] = next /\ g[i - 1] = h[m - 1]
            <7> HIDE DEF next
            <7> QED BY <4>1, <5>1
          <6> HIDE DEF g
          <6> QED BY <5>1, <6>1
        <5>2. CASE i # m
          <6>1. i \in 1..(m - 1) /\ g[i] = h[i] /\ g[i - 1] = h[i - 1]
            <7> HIDE DEF next
            <7> QED BY <4>1, <5>2
          <6> HIDE DEF g
          <6> QED BY <4>3, <6>1
        <5> QED BY <5>1, <5>2
      <4>7. Picking(g, m)
        <5> HIDE DEF g
        <5> QED BY <4>5, <4>6 DEF Picking
      <4> QED BY <3>1, <4>7
    <3> QED BY <3>2, <3>3
  <2> QED BY <2>1, <2>2
<1>2. PICK g : Picking(g, L)
  <2> HIDE DEF Picking
  <2> QED BY <1>0, <1>1
<1>3. g = [i \in 0..L |-> IF i = 0 THEN <<>> ELSE IF i \in P THEN Append(g[i - 1], s[i]) ELSE g[i - 1]]
  <2> DEFINE h == [i \in 0..L |-> IF i = 0 THEN <<>> ELSE IF i \in P THEN Append(g[i - 1], s[i]) ELSE g[i - 1]]
  <2>1. ASSUME NEW i \in 0..L PROVE g[i] = h[i]
    <3>1. CASE i = 0
      BY <1>2, <3>1
    <3>2. CASE i # 0
      <4>1. i \in 1..L
        BY <1>0, <3>2
      <4> QED BY <1>2, <3>2, <4>1
    <3> QED BY <3>1, <3>2
  <2>2. DOMAIN g = 0..L /\ DOMAIN h = 0..L /\ g = [i \in 0..L |-> g[i]]
    BY <1>2
  <2> QED BY <2>1, <2>2
<1> DEFINE picked[i \in 0..Len(s)] ==
             IF i = 0 THEN <<>> ELSE IF i \in P THEN Append(picked[i - 1], s[i]) ELSE picked[i - 1]
<1>4. picked = [i \in 0..L |-> IF i = 0 THEN <<>> ELSE IF i \in P THEN Append(picked[i - 1], s[i]) ELSE picked[i - 1]]
  BY <1>3
<1>5. Picked(s, P) = picked[L]
  BY DEF Picked
<1> HIDE DEF picked
<1> DEFINE Well(n) == picked[n] \in Seq(S) /\ \E f : From(f, picked[n], s, P \cap 1..n)
<1>6. ASSUME NEW n \in 0..L PROVE Well(n)
  <2> DEFINE T == {m \in Nat : m <= L /\ ~Well(m)}
  <2> HIDE DEF Well
  <2>1. CASE T = {}
    <3>1. n \in Nat /\ n <= L /\ n \notin T
      BY <1>0, <2>1
    <3> QED BY <3>1
  <2>2. CASE T # {}
    <3>1. PICK m \in T : \A k \in T : m <= k
      BY <2>2, Least
    <3>2. CASE m = 0
      <4>1. picked[0] = <<>> /\ P \cap 1..0 = {}
        BY <1>0, <1>4
      <4>2. From(<<>>, <<>>, s, {})
        BY EmptySeq DEF From
      <4>3. Well(0)
        BY <4>1, <4>2, EmptySeq DEF Well
      <4> QED BY <3>1, <3>2, <4>3
    <3>3. CASE m # 0
      <4>1. m \in 1..L /\ m - 1 \in Nat /\ m - 1 <= L /\ m - 1 \notin T
        BY <1>0, <3>1, <3>3
      <4>2. Well(m - 1)
        BY <4>1
      <4>3. picked[m] = IF m \in P THEN Append(picked[m - 1], s[m]) ELSE picked[m - 1]
        <5>1. m \in 0..L /\ m # 0
          BY <1>0, <4>1
        <5> QED BY <1>4, <5>1
      <4>4. PICK f : From(f, picked[m - 1], s, P \cap 1..(m - 1))
        BY <4>2 DEF Well
      <4>5. picked[m - 1] \in Seq(S)
        BY <4>2 DEF Well
      <4>6. CASE m \in P
        <5>1. \E h : From(h, Append(picked[m - 1], s[m]), s, (P \cap 1..(m - 1)) \cup {m})
          BY <4>1, <4>4, <4>5, FromNext
        <5>2. (P \cap 1..(m - 1)) \cup {m} = P \cap 1..m
          BY <4>1, <4>6
        <5>3. Append(picked[m - 1], s[m]) \in Seq(S)
          BY <1>0, <4>1, <4>5, AppendProperties
        <5> QED BY <3>1, <4>3, <4>6, <5>1, <5>2, <5>3 DEF Well
      <4>7. CASE m \notin P
        <5>1. P \cap 1..(m - 1) = P \cap 1..m
          BY <4>1, <4>7
        <5> QED BY <3>1, <4>3, <4>4, <4>5, <4>7, <5>1 DEF Well
      <4> QED BY <4>6, <4>7
    <3> QED BY <3>2, <3>3
  <2> QED BY <2>1, <2>2
<1>7. Well(L) /\ P \cap 1..L = P
  <2> HIDE DEF Well
  <2>1. L \in 0..L
    BY <1>0
  <2> QED BY <1>6, <2>1
<1> QED BY <1>5, <1>7

\* What is picked, place for place.
InPlaces(r, s, P) ==
  /\ \A k \in 1..Len(r) : \E i \in P : r[k] = s[i]
  /\ \A i \in P : \E k \in 1..Len(r) : r[k] = s[i]
  /\ \A j, k \in 1..Len(r) : j < k => \E h, i \in P : h < i /\ r[j] = s[h] /\ r[k] = s[i]

LEMMA PicksAll ==
  ASSUME NEW S, NEW s \in Seq(S), NEW P, P \subseteq 1..Len(s), NEW r, r = Picked(s, P)
  PROVE  r \in Seq(S) /\ InPlaces(r, s, P)
<1>1. r \in Seq(S)
  BY Picks
<1>2. PICK f : From(f, r, s, P)
  BY Picks
<1>3. \A k \in 1..Len(r) : f[k] \in P /\ r[k] = s[f[k]]
  BY <1>2 DEF From
<1>4. \A i \in P : \E k \in 1..Len(r) : r[k] = s[i]
  BY <1>2 DEF From
<1>5. ASSUME NEW j \in 1..Len(r), NEW k \in 1..Len(r), j < k
      PROVE  \E h, i \in P : h < i /\ r[j] = s[h] /\ r[k] = s[i]
  <2>1. f[j] < f[k]
    BY <1>2, <1>5 DEF From
  <2> QED BY <1>3, <2>1
<1> QED BY <1>1, <1>3, <1>4, <1>5 DEF InPlaces

\* A sequence from a function.
LEMMA AsSeq ==
  ASSUME NEW S, NEW n \in Nat, NEW s \in [1..n -> S]
  PROVE  s \in Seq(S) /\ Len(s) = n
  BY SeqDef

\* A connection's ear is the connection's.
LEMMA EarOf == \A e \in Ears : e[1] \in Conns
  BY DEF Ears

\* What is for one ear of a connection: in order, from the delivery, of
\* its life.
LEMMA SortedAre ==
  ASSUME LogInv, flush.lines \in Seq(Line), InTurn, ~Idle, NEW e \in Ears
  PROVE  /\ Sorted(e) \in Seq([n : Nat, life : Nat])
         /\ \A k \in 1..Len(Sorted(e)) : \E m \in 1..Len(flush.lines) :
              /\ Sorted(e)[k].n = flush.lines[m].n
              /\ flush.lines[m].id \in DOMAIN owners
              /\ owners[flush.lines[m].id].conn = e[1]
              /\ Sorted(e)[k].life = conn[e[1]].life
         /\ \A j, k \in 1..Len(Sorted(e)) : j < k => Sorted(e)[j].n < Sorted(e)[k].n
<1> DEFINE c == e[1]
           lines == flush.lines
           ids == {i \in DOMAIN owners : <<owners[i].conn, owners[i].group>> = e}
           P == {i \in DOMAIN lines : lines[i].id \in ids}
           r == Picked(lines, P)
           it == [k \in DOMAIN r |-> [n |-> r[k].n, life |-> owners[r[k].id].life]]
<1>1. DOMAIN lines = 1..Len(lines) /\ \A i \in 1..Len(lines) : lines[i] \in Line
  BY LenProperties, ElementOfSeq
<1>2. P \subseteq 1..Len(lines)
  BY <1>1
<1>3. /\ r \in Seq(Line)
      /\ \A k \in 1..Len(r) : \E i \in P : r[k] = lines[i]
      /\ \A j, k \in 1..Len(r) : j < k => \E h, i \in P : h < i /\ r[j] = lines[h] /\ r[k] = lines[i]
  <2>1. lines \in Seq(Line) /\ r = Picked(lines, P)
    OBVIOUS
  <2> HIDE DEF P, lines, r
  <2>2. r \in Seq(Line) /\ InPlaces(r, lines, P)
    BY <1>2, <2>1, PicksAll
  <2> QED BY <2>2 DEF InPlaces
<1>4. Sorted(e) = it
  BY DEF Sorted, Those
<1>5. DOMAIN r = 1..Len(r) /\ Len(r) \in Nat
  BY <1>3, LenProperties
<1>6. \A i \in ids : owners[i].conn = c /\ owners[i].life = conn[c].life /\ conn[c].life \in Nat
  <2>1. \A i \in ids : owners[i].conn = c
    OBVIOUS
  <2>2. c \in Conns
    BY DEF Ears
  <2> HIDE DEF c
  <2>3. \A i \in ids : owners[i].life = conn[c].life
    BY <2>1 DEF LogInv, OwnersList, Owns
  <2> QED BY <2>1, <2>2, <2>3 DEF LogInv, LogTypes, ConnRecord
<1>7. \A i \in P : lines[i].id \in ids /\ lines[i].n \in Nat
  BY <1>1 DEF Line
<1>8. \A k \in 1..Len(r) : r[k].id \in ids /\ r[k].n \in Nat
  BY <1>3, <1>7
<1> HIDE DEF r, P, ids
<1>9. it \in [1..Len(r) -> [n : Nat, life : Nat]]
  BY <1>5, <1>6, <1>8
<1>10. it \in Seq([n : Nat, life : Nat]) /\ Len(it) = Len(r)
  BY <1>5, <1>9, AsSeq
<1>11. \A k \in 1..Len(r) : it[k].n = r[k].n /\ it[k].life = conn[c].life
  BY <1>5, <1>6, <1>8
<1>12. ASSUME NEW k \in 1..Len(it)
       PROVE  \E m \in 1..Len(lines) : /\ it[k].n = lines[m].n
                                       /\ lines[m].id \in DOMAIN owners
                                       /\ owners[lines[m].id].conn = c
                                       /\ it[k].life = conn[c].life
  <2>1. PICK i \in P : r[k] = lines[i]
    BY <1>3, <1>10
  <2>2. i \in 1..Len(lines) /\ lines[i].id \in DOMAIN owners /\ owners[lines[i].id].conn = c
    <3>1. lines[i].id \in ids
      BY <1>7
    <3>2. lines[i].id \in DOMAIN owners
      BY <3>1 DEF ids
    <3> QED BY <1>2, <1>6, <3>1, <3>2
  <2> HIDE DEF it
  <2> QED BY <1>10, <1>11, <2>1, <2>2
<1>13. ASSUME NEW j \in 1..Len(it), NEW k \in 1..Len(it), j < k PROVE it[j].n < it[k].n
  <2>1. PICK h \in P, i \in P : h < i /\ r[j] = lines[h] /\ r[k] = lines[i]
    BY <1>3, <1>10, <1>13
  <2>2. h \in 1..Len(lines) /\ i \in 1..Len(lines)
    BY <1>2
  <2>3. lines[h].n < lines[i].n
    BY <2>1, <2>2 DEF InTurn, OnTheWay
  <2> HIDE DEF it
  <2> QED BY <1>10, <1>11, <2>1, <2>3
<1> HIDE DEF it, lines
<1> QED BY <1>4, <1>10, <1>12, <1>13 DEF lines

\* What is heard after some messages: the last of the old ones and then the new.
After(F, h, ms) ==
  /\ \A i \in 1..Len(F) : (\E k \in 1..Len(h) : F[i] = h[k]) \/ (\E k \in 1..Len(ms) : F[i] = ms[k])
  /\ \A i, j \in 1..Len(F) : i < j =>
       \/ \E a, b \in 1..Len(h) : a < b /\ F[i] = h[a] /\ F[j] = h[b]
       \/ \E a \in 1..Len(h), b \in 1..Len(ms) : F[i] = h[a] /\ F[j] = ms[b]
       \/ \E a, b \in 1..Len(ms) : a < b /\ F[i] = ms[a] /\ F[j] = ms[b]

LEMMA FurtherIs ==
  ASSUME NEW e \in Ears, heard[e] \in Seq(Message), NEW ms \in Seq(Message), NEW F, F = Further(e, ms)
  PROVE  F \in Seq(Message) /\ After(F, heard[e], ms)
<1> DEFINE h == heard[e]
<1>0. Len(h) \in Nat /\ Len(ms) \in Nat /\ (h # <<>> => Len(h) \in 1..Len(h) /\ h[Len(h)] \in Message)
  BY LenProperties, ElementOfSeq, EmptySeq
<1>1. CASE ms = <<>>
  BY <1>1 DEF Further, After
<1>2. CASE ms # <<>> /\ h = <<>>
  <2>1. F = <<>> \o ms
    BY <1>2 DEF Further
  <2>2. F = ms
    BY <2>1, ConcatEmptySeq
  <2> QED BY <1>2, <2>2 DEF After
<1>3. CASE ms # <<>> /\ h # <<>>
  <2> DEFINE newest == h[Len(h)]
  <2>1. F = <<newest>> \o ms
    BY <1>3 DEF Further, Last
  <2>2. newest \in Message
    BY <1>0, <1>3
  <2> HIDE DEF newest
  <2>3. <<newest>> \in Seq(Message) /\ Len(<<newest>>) = 1 /\ <<newest>>[1] = newest
    BY <2>2
  <2>4. F \in Seq(Message) /\ Len(F) = 1 + Len(ms) /\ F[1] = newest /\ \A i \in 2..Len(F) : F[i] = ms[i - 1]
    <3>1. F \in Seq(Message) /\ Len(F) = 1 + Len(ms)
      BY <2>1, <2>3, ConcatProperties
    <3>2. \A i \in 1..Len(F) : F[i] = IF i <= 1 THEN <<newest>>[i] ELSE ms[i - 1]
      BY <2>1, <2>3, <3>1, ConcatProperties
    <3> QED BY <1>0, <2>3, <3>1, <3>2
  <2>5. \A i \in 2..Len(F) : i - 1 \in 1..Len(ms)
    BY <1>0, <2>4
  <2>6. ASSUME NEW i \in 1..Len(F)
        PROVE  (\E k \in 1..Len(h) : F[i] = h[k]) \/ (\E k \in 1..Len(ms) : F[i] = ms[k])
    <3>1. CASE i = 1
      BY <1>0, <1>3, <2>4, <3>1 DEF newest
    <3>2. CASE i # 1
      <4>1. i \in 2..Len(F)
        BY <3>2
      <4> QED BY <2>4, <2>5, <4>1
    <3> QED BY <3>1, <3>2
  <2>7. ASSUME NEW i \in 1..Len(F), NEW j \in 1..Len(F), i < j
        PROVE  \/ \E a \in 1..Len(h), b \in 1..Len(ms) : F[i] = h[a] /\ F[j] = ms[b]
               \/ \E a, b \in 1..Len(ms) : a < b /\ F[i] = ms[a] /\ F[j] = ms[b]
    <3>1. j \in 2..Len(F) /\ F[j] = ms[j - 1] /\ j - 1 \in 1..Len(ms)
      BY <1>0, <2>4, <2>5, <2>7
    <3>2. CASE i = 1
      BY <1>0, <1>3, <2>4, <3>1, <3>2 DEF newest
    <3>3. CASE i # 1
      <4>1. i \in 2..Len(F) /\ F[i] = ms[i - 1] /\ i - 1 \in 1..Len(ms) /\ i - 1 < j - 1
        BY <1>0, <2>4, <2>5, <2>7, <3>3
      <4> QED BY <3>1, <4>1
    <3> QED BY <3>2, <3>3
  <2> QED BY <2>4, <2>6, <2>7 DEF After
<1> QED BY <1>1, <1>2, <1>3

\* Reports as messages.
LEMMA MessagesAre ==
  ASSUME NEW its \in Seq([n : Nat, life : Nat]), NEW ms, ms = [k \in DOMAIN its |-> Report(its[k])]
  PROVE  /\ ms \in Seq(Message) /\ Len(ms) = Len(its)
         /\ \A k \in 1..Len(ms) : ms[k].n = its[k].n /\ ms[k].life = its[k].life /\ ~ms[k].stop
<1>1. DOMAIN its = 1..Len(its) /\ Len(its) \in Nat /\ \A k \in 1..Len(its) : its[k] \in [n : Nat, life : Nat]
  BY LenProperties, ElementOfSeq
<1>2. ms \in [1..Len(its) -> Message]
  BY <1>1 DEF Report, Message
<1>3. ms \in Seq(Message) /\ Len(ms) = Len(its)
  BY <1>1, <1>2, AsSeq
<1> QED BY <1>1, <1>3 DEF Report

\* The newest of a sequence.
LEMMA LatestIs ==
  ASSUME NEW S, NEW s \in Seq(S), NEW r, r = Latest(s)
  PROVE  /\ r \in Seq(S) /\ Len(r) \in Nat /\ Len(s) \in Nat /\ Len(s) - Len(r) \in Nat
         /\ \A i \in 1..Len(r) : r[i] = s[i + (Len(s) - Len(r))]
<1>0. Len(s) \in Nat /\ McpKeep \in Nat \ {0} /\ \A i \in 1..Len(s) : s[i] \in S
  BY LenProperties, ElementOfSeq, LogpointsAssumption
<1>1. CASE Len(s) > McpKeep
  <2> DEFINE m == Len(s) - McpKeep + 1
             n == Len(s)
  <2>1. r = SubSeq(s, m, n) /\ m \in Int /\ n \in Int /\ m <= n /\ \A i \in m..n : s[i] \in S
    BY <1>0, <1>1 DEF Latest
  <2>2. /\ SubSeq(s, m, n) \in Seq(S)
        /\ Len(SubSeq(s, m, n)) = IF m <= n THEN n - m + 1 ELSE 0
        /\ \A i \in 1..(n - m + 1) : SubSeq(s, m, n)[i] = s[m + i - 1]
    <3> HIDE DEF m, n
    <3> QED BY <2>1, SubSeqProperties
  <2>3. Len(r) = McpKeep /\ r \in Seq(S)
    BY <1>0, <2>1, <2>2
  <2>4. \A i \in 1..Len(r) : r[i] = s[i + (Len(s) - Len(r))]
    <3> SUFFICES ASSUME NEW i \in 1..Len(r) PROVE r[i] = s[i + (Len(s) - Len(r))]
      OBVIOUS
    <3>1. m + i - 1 = i + (Len(s) - Len(r)) /\ i \in 1..(n - m + 1)
      BY <1>0, <2>3
    <3> QED BY <2>1, <2>2, <3>1
  <2> QED BY <1>0, <1>1, <2>3, <2>4
<1>2. CASE ~(Len(s) > McpKeep)
  BY <1>0, <1>2 DEF Latest
<1> QED BY <1>1, <1>2

\* The log with what a delivery brings for MCP.
Entry == [seq : Nat, n : Nat]
LEMMA MineIs ==
  ASSUME ReportTypes, NEW m, m = Mine
  PROVE  /\ m \in Seq(Entry) /\ Len(m) \in Nat /\ Len(mcp.lines) \in Nat /\ Len(mcp.lines) <= Len(m)
         /\ \A i \in 1..Len(mcp.lines) : m[i] = mcp.lines[i]
         /\ \A i \in (Len(mcp.lines) + 1)..Len(m) : m[i].seq = mcp.next + (i - Len(mcp.lines)) - 1
         /\ \A k \in 1..Len(flush.lines) : flush.lines[k].id \in mcp.ids =>
              \E i \in (Len(mcp.lines) + 1)..Len(m) : m[i].n = flush.lines[k].n
<1> DEFINE lines == flush.lines
           old == mcp.lines
           P == {i \in DOMAIN lines : lines[i].id \in mcp.ids}
           r == Picked(lines, P)
           new == [i \in DOMAIN r |-> [seq |-> mcp.next + i - 1, n |-> r[i].n]]
<1>1. lines \in Seq(Line) /\ old \in Seq(Entry) /\ mcp.next \in Nat
  BY DEF ReportTypes, Entry
<1>2. DOMAIN lines = 1..Len(lines) /\ Len(old) \in Nat
  BY <1>1, LenProperties
<1>3. r \in Seq(Line) /\ InPlaces(r, lines, P)
  <2>1. P \subseteq 1..Len(lines) /\ r = Picked(lines, P)
    BY <1>2
  <2> HIDE DEF lines, P, r
  <2> QED BY <1>1, <2>1, PicksAll
<1>4. m = old \o new
  BY DEF Mine, Those
<1>5. \A k \in 1..Len(lines) : lines[k].id \in mcp.ids => k \in P
  BY <1>2
<1> HIDE DEF P, r, lines, old
<1>6. DOMAIN r = 1..Len(r) /\ Len(r) \in Nat /\ \A i \in 1..Len(r) : r[i] \in Line
  BY <1>3, LenProperties, ElementOfSeq
<1>7. new \in [1..Len(r) -> Entry]
  BY <1>1, <1>6 DEF Line, Entry
<1>8. new \in Seq(Entry) /\ Len(new) = Len(r)
  BY <1>6, <1>7, AsSeq
<1>9. \A i \in 1..Len(r) : new[i].seq = mcp.next + i - 1 /\ new[i].n = r[i].n
  BY <1>6
<1> HIDE DEF new
<1>10. /\ m \in Seq(Entry) /\ Len(m) = Len(old) + Len(new)
       /\ \A i \in 1..(Len(old) + Len(new)) : m[i] = IF i <= Len(old) THEN old[i] ELSE new[i - Len(old)]
  <2>1. /\ old \o new \in Seq(Entry) /\ Len(old \o new) = Len(old) + Len(new)
        /\ \A i \in 1..(Len(old) + Len(new)) : (old \o new)[i] = IF i <= Len(old) THEN old[i] ELSE new[i - Len(old)]
    BY <1>1, <1>8, ConcatProperties
  <2> QED BY <1>4, <2>1
<1>11. ASSUME NEW i \in 1..Len(old) PROVE m[i] = old[i]
  <2>1. i \in 1..(Len(old) + Len(new)) /\ i <= Len(old)
    BY <1>2, <1>6, <1>8
  <2> QED BY <1>10, <2>1
<1>12. \A i \in (Len(old) + 1)..Len(m) : i - Len(old) \in 1..Len(r) /\ m[i] = new[i - Len(old)]
  BY <1>2, <1>6, <1>8, <1>10
<1>13. ASSUME NEW i \in (Len(old) + 1)..Len(m) PROVE m[i].seq = mcp.next + (i - Len(old)) - 1
  BY <1>1, <1>2, <1>9, <1>12
<1>14. ASSUME NEW k \in 1..Len(lines), lines[k].id \in mcp.ids
       PROVE  \E i \in (Len(old) + 1)..Len(m) : m[i].n = lines[k].n
  <2>1. PICK j \in 1..Len(r) : r[j] = lines[k]
    BY <1>3, <1>5, <1>14 DEF InPlaces
  <2>2. j + Len(old) \in (Len(old) + 1)..Len(m) /\ (j + Len(old)) - Len(old) = j
    BY <1>2, <1>6, <1>8, <1>10
  <2>3. m[j + Len(old)].n = r[j].n
    BY <1>9, <1>12, <2>2
  <2> QED BY <2>1, <2>2, <2>3
<1>15. Len(m) \in Nat /\ Len(old) <= Len(m)
  BY <1>2, <1>6, <1>8, <1>10
<1> QED BY <1>2, <1>10, <1>11, <1>13, <1>14, <1>15 DEF old, lines

\* The lines from one on.
LinesFrom(r, from) ==
  /\ \A k \in 1..Len(r) : \E i \in 1..Len(mcp.lines) : mcp.lines[i].seq >= from /\ r[k] = mcp.lines[i]
  /\ \A i \in 1..Len(mcp.lines) : mcp.lines[i].seq >= from => \E k \in 1..Len(r) : r[k] = mcp.lines[i]
  /\ \A j, k \in 1..Len(r) : j < k => \E h, i \in 1..Len(mcp.lines) : h < i /\ r[j] = mcp.lines[h] /\ r[k] = mcp.lines[i]

LEMMA UnreadIs ==
  ASSUME ReportTypes, NEW from \in Nat, NEW r, r = Unread(from)
  PROVE  r \in Seq(Entry) /\ LinesFrom(r, from)
<1> DEFINE s == mcp.lines
           P == {i \in DOMAIN s : s[i].seq >= from}
<1>1. s \in Seq(Entry) /\ r = Picked(s, P)
  BY DEF ReportTypes, Entry, Unread
<1>2. DOMAIN s = 1..Len(s)
  BY <1>1, LenProperties
<1>3. P \subseteq 1..Len(s) /\ \A i \in 1..Len(s) : i \in P <=> s[i].seq >= from
  BY <1>2
<1> HIDE DEF s, P
<1>4. r \in Seq(Entry) /\ InPlaces(r, s, P)
  BY <1>1, <1>3, PicksAll
<1>5. \A k \in 1..Len(r) : \E i \in 1..Len(s) : s[i].seq >= from /\ r[k] = s[i]
  BY <1>3, <1>4 DEF InPlaces
<1>6. \A i \in 1..Len(s) : s[i].seq >= from => \E k \in 1..Len(r) : r[k] = s[i]
  BY <1>3, <1>4 DEF InPlaces
<1>7. ASSUME NEW j \in 1..Len(r), NEW k \in 1..Len(r), j < k
      PROVE  \E h, i \in 1..Len(s) : h < i /\ r[j] = s[h] /\ r[k] = s[i]
  <2>1. PICK h \in P, i \in P : h < i /\ r[j] = s[h] /\ r[k] = s[i]
    BY <1>4, <1>7 DEF InPlaces
  <2> QED BY <1>3, <2>1
<1> QED BY <1>4, <1>5, <1>6, <1>7 DEF s, LinesFrom

\* The shape of a delivery.
Ats == {"none", "sort", "send", "keep", "done"}
Deliveries ==
  [at : Ats, lines : Seq(Line), dropped : Nat,
   console : {<<>>} \cup [Ears -> Seq([n : Nat, life : Nat])], for : Conns \cup {Mcp, Run, None}]

\* What is waiting is on its way in a delivery.
LEMMA DeliverIs ==
  ASSUME ReportTypes, Idle, NEW who \in Conns \cup {Mcp, Run, None}, Deliver(who)
  PROVE  /\ flush' \in Deliveries /\ flush'.at = "sort" /\ ~Idle' /\ flush'.for = who
         /\ flush'.lines = waiting /\ flush'.dropped = dropped
         /\ waiting' = <<>> /\ dropped' = 0
         /\ OnTheWay' = OnTheWay
<1>1. flush' = [at |-> "sort", lines |-> waiting, dropped |-> dropped, console |-> <<>>, for |-> who]
  BY DEF Deliver, NoFlush
<1>2. flush' \in Deliveries
  BY <1>1 DEF ReportTypes, Deliveries, Ats
<1>3. OnTheWay = waiting /\ OnTheWay' = flush'.lines
  BY <1>1 DEF OnTheWay, Idle
<1> QED BY <1>1, <1>2, <1>3 DEF Deliver, Idle

\* The types, and that there is one delivery at a time.
LEMMA ReportTypesKept ==
  ASSUME LogInv, ReportInv, LogNext
  PROVE  ReportTypes' /\ OneDelivery'
<1>0. /\ waiting \in Seq(Line) /\ dropped \in Nat /\ serial \in Nat /\ reader \in Nat
      /\ flush \in Deliveries /\ heard \in [Ears -> Seq(Message)]
      /\ mcp \in [ids : SUBSET Nat, lines : Seq(Entry), next : Nat, dropped : Nat]
      /\ owed \subseteq Line
      /\ OneDelivery
  BY DEF ReportInv, ReportTypes, Deliveries, Ats, Entry
<1>a. SUFFICES
      /\ waiting' \in Seq(Line) /\ dropped' \in Nat /\ serial' \in Nat /\ reader' \in Nat
      /\ flush' \in Deliveries /\ heard' \in [Ears -> Seq(Message)]
      /\ mcp' \in [ids : SUBSET Nat, lines : Seq(Entry), next : Nat, dropped : Nat]
      /\ owed' \subseteq Line
      /\ OneDelivery'
  BY DEF ReportTypes, Deliveries, Ats, Entry
<1>b. NoFlush \in Deliveries
  BY EmptySeq DEF NoFlush, Deliveries, Ats
<1>c. <<>> \in Seq(Line)
  BY EmptySeq
<1>t. ReportTypes
  BY DEF ReportInv
<1>1. ASSUME NEW i \in points, Hit(i) PROVE <1>a!1
  <2>1. Idle /\ serial' = serial + 1 /\ UNCHANGED <<flush, heard, mcp, reader>>
    BY <1>1 DEF Hit
  <2>2. [id |-> i, n |-> serial'] \in Line
    BY <1>0, <2>1 DEF LogInv, GivenOut, Line
  <2>3. waiting' \in Seq(Line) /\ dropped' \in Nat
    <3>1. CASE Len(waiting) >= MaxPending
      BY <1>0, <1>1, <3>1 DEF Hit
    <3>2. CASE ~(Len(waiting) >= MaxPending)
      <4>1. waiting' = Append(waiting, [id |-> i, n |-> serial']) /\ dropped' = dropped
        BY <1>1, <3>2 DEF Hit
      <4> QED BY <1>0, <2>2, <4>1, AppendProperties
    <3> QED BY <3>1, <3>2
  <2>4. owed' \subseteq Line
    BY <1>0, <1>1, <2>2 DEF Hit
  <2>5. OneDelivery'
    BY <1>0, <2>1 DEF OneDelivery, Idle
  <2> QED BY <1>0, <2>1, <2>3, <2>4, <2>5
<1>2. ASSUME NEW who \in Conns \cup {Mcp, Run, None}, Idle, Deliver(who), UNCHANGED <<heard, mcp, reader, serial, owed>>
      PROVE  <1>a!1
  <2>1. /\ flush' \in Deliveries /\ flush'.at = "sort" /\ ~Idle'
        /\ waiting' = <<>> /\ dropped' = 0
    BY <1>2, <1>t, DeliverIs
  <2>2. OneDelivery'
    BY <2>1 DEF OneDelivery
  <2> QED BY <1>0, <1>2, <1>c, <2>1, <2>2
<1>3. CASE Sort
  <2>1. /\ flush.at = "sort" /\ flush' = [flush EXCEPT !.at = "send", !.console = [e \in Ears |-> Sorted(e)]]
        /\ UNCHANGED <<waiting, dropped, serial, reader, heard, mcp, owed>>
    BY <1>3 DEF Sort, machine, history
  <2>2. \A e \in Ears : Sorted(e) \in Seq([n : Nat, life : Nat])
    BY <1>0, <2>1, SortedAre DEF ReportInv, Idle, Deliveries
  <2>3. flush' \in Deliveries /\ flush'.at = "send" /\ flush'.lines = flush.lines
    <3>1. [e \in Ears |-> Sorted(e)] \in [Ears -> Seq([n : Nat, life : Nat])]
      BY <2>2
    <3> DEFINE console == [e \in Ears |-> Sorted(e)]
    <3> HIDE DEF console
    <3> QED BY <1>0, <2>1, <3>1 DEF Deliveries, Ats, console
  <2>4. OneDelivery'
    BY <1>0, <2>1, <2>3 DEF OneDelivery, Idle
  <2> QED BY <1>0, <2>1, <2>3, <2>4
<1>4. CASE Send
  <2>1. /\ flush.at = "send" /\ flush' = [flush EXCEPT !.at = "keep", !.console = <<>>]
        /\ UNCHANGED <<waiting, dropped, serial, reader, mcp, owed>>
    BY <1>4 DEF Send, machine, history
  <2>2. heard' \in [Ears -> Seq(Message)]
    <3>1. ASSUME NEW e \in Ears
          PROVE  Further(e, [k \in DOMAIN flush.console[e] |-> Report(flush.console[e][k])]) \in Seq(Message)
      <4>1. flush.console[e] \in Seq([n : Nat, life : Nat])
        BY <2>1 DEF ReportInv, ForThem
      <4> DEFINE ms == [k \in DOMAIN flush.console[e] |-> Report(flush.console[e][k])]
      <4>2. ms \in Seq(Message)
        BY <4>1, MessagesAre
      <4>3. Further(e, ms) \in Seq(Message)
        <5> HIDE DEF ms
        <5> QED BY <1>0, <4>2, FurtherIs
      <4> QED BY <4>3
    <3> QED BY <1>0, <1>4, <3>1 DEF Send
  <2>3. flush' \in Deliveries
    BY <1>0, <2>1 DEF Deliveries, Ats
  <2>4. OneDelivery'
    BY <1>0, <2>1 DEF OneDelivery, Idle, Deliveries
  <2> QED BY <1>0, <2>1, <2>2, <2>3, <2>4
<1>5. CASE Keep
  <2>1. /\ flush.at = "keep" /\ flush' = [NoFlush EXCEPT !.at = "done", !.for = flush.for]
        /\ UNCHANGED <<waiting, dropped, serial, reader, heard, owed>>
        /\ mcp' = [mcp EXCEPT !.lines = Latest(Mine), !.next = @ + Len(Mine) - Len(mcp.lines),
                              !.dropped = @ + flush.dropped + (Len(Mine) - Len(Latest(Mine)))]
    BY <1>5 DEF Keep, machine, history
  <2>2. flush' \in Deliveries /\ flush'.lines = <<>> /\ flush'.dropped = 0 /\ flush'.at = "done"
    BY <1>0, <1>c, <2>1 DEF NoFlush, Deliveries, Ats
  <2>3. Mine \in Seq(Entry) /\ Len(Mine) \in Nat /\ Len(mcp.lines) \in Nat /\ Len(mcp.lines) <= Len(Mine)
    BY <1>t, MineIs
  <2>4. Latest(Mine) \in Seq(Entry) /\ Len(Mine) - Len(Latest(Mine)) \in Nat
    BY <2>3, LatestIs
  <2>5. flush.dropped \in Nat
    BY <1>0 DEF Deliveries
  <2> DEFINE d == Len(Mine) - Len(Latest(Mine))
             more == Len(Mine) - Len(mcp.lines)
  <2>6. d \in Nat /\ more \in Nat
    BY <2>3, <2>4
  <2>7. mcp' = [mcp EXCEPT !.lines = Latest(Mine), !.next = mcp.next + more, !.dropped = mcp.dropped + flush.dropped + d]
    BY <1>0, <2>1, <2>3
  <2> HIDE DEF d, more
  <2>8. mcp' \in [ids : SUBSET Nat, lines : Seq(Entry), next : Nat, dropped : Nat]
    <3>1. mcp.next + more \in Nat /\ mcp.dropped + flush.dropped + d \in Nat
      BY <1>0, <2>5, <2>6
    <3>2. mcp' = [ids |-> mcp.ids, lines |-> Latest(Mine), next |-> mcp.next + more,
                  dropped |-> mcp.dropped + flush.dropped + d]
      BY <1>0, <2>7
    <3>3. mcp.ids \in SUBSET Nat
      BY <1>0
    <3> QED BY <2>4, <3>1, <3>2, <3>3
  <2>9. OneDelivery'
    BY <1>0, <2>1, <2>2 DEF OneDelivery, Idle
  <2> QED BY <1>0, <2>1, <2>2, <2>8, <2>9
<1>6. CASE LetGo
  <2>1. flush.at = "done" /\ flush' = NoFlush /\ UNCHANGED <<waiting, dropped, serial, reader, mcp, owed>>
    BY <1>6 DEF LetGo, machine, history
  <2>2. heard' \in [Ears -> Seq(Message)]
    <3>1. ASSUME NEW e \in Ears PROVE Told(e) \in Seq(Message)
      <4> DEFINE stop == [n |-> serial, life |-> conn[e[1]].life, stop |-> TRUE]
      <4>1. stop \in Message
        BY <1>0, EarOf DEF LogInv, LogTypes, ConnRecord, Message
      <4>2. <<stop>> \in Seq(Message)
        BY <4>1
      <4>3. Further(e, <<stop>>) \in Seq(Message)
        BY <1>0, <4>2, FurtherIs
      <4> QED BY <1>0, <4>3 DEF Told
    <3> QED BY <1>0, <1>6, <3>1 DEF LetGo
  <2>3. OneDelivery'
    BY <1>0, <2>1 DEF OneDelivery, Idle, NoFlush
  <2> QED BY <1>0, <1>b, <2>1, <2>2, <2>3
<1>7. CASE BeginRun \/ (\E c \in Conns : Disown(c) \/ Own(c) \/ Dropped(c) \/ \E g \in Groups \cup {All} : Ask(c, g))
  <2>1. UNCHANGED <<waiting, dropped, serial, reader, flush, heard, mcp, owed>>
    BY <1>7 DEF BeginRun, Disown, Own, Dropped, Ask, machine, history
  <2> QED BY <1>0, <2>1 DEF OneDelivery, Idle
<1>8. ASSUME NEW c \in Conns, Connect(c) PROVE <1>a!1
  <2>1. UNCHANGED <<waiting, dropped, serial, reader, flush, mcp, owed>> /\ heard' = [e \in Ears |-> IF e[1] = c THEN <<>> ELSE heard[e]]
    BY <1>8 DEF Connect, machine, history
  <2>2. heard' \in [Ears -> Seq(Message)]
    BY <1>0, <2>1, EmptySeq
  <2> QED BY <1>0, <2>1, <2>2 DEF OneDelivery, Idle
<1>9. CASE McpOwn \/ McpForget
  <2>1. UNCHANGED <<waiting, dropped, serial, reader, flush, heard>> /\ owed' \subseteq owed
    BY <1>9 DEF McpOwn, McpForget, machine, history
  <2>2. \E ids \in SUBSET Nat : mcp' = [mcp EXCEPT !.ids = ids]
    <3>1. mcp.ids \cup task.ids \in SUBSET Nat
      BY <1>0 DEF LogInv, LogTypes
    <3>2. CASE McpOwn
      BY <3>1, <3>2 DEF McpOwn
    <3>3. CASE McpForget
      BY <3>3 DEF McpForget
    <3> QED BY <1>9, <3>2, <3>3
  <2>3. mcp' \in [ids : SUBSET Nat, lines : Seq(Entry), next : Nat, dropped : Nat]
    BY <1>0, <2>2
  <2> QED BY <1>0, <2>1, <2>3 DEF OneDelivery, Idle
<1>10. CASE GetLog
  <2>1. UNCHANGED <<waiting, dropped, serial, flush, mcp, heard>> /\ owed' \subseteq owed
    BY <1>10 DEF GetLog, machine, history
  <2>2. reader' \in Nat
    <3>1. Unread(reader) \in Seq(Entry)
      BY <1>0, <1>t, UnreadIs
    <3>2. Len(Unread(reader)) > Page => Unread(reader)[Page + 1] \in Entry
      <4>1. Page \in Nat \ {0} /\ Len(Unread(reader)) \in Nat
        BY <3>1, LogpointsAssumption, LenProperties
      <4> QED BY <3>1, <4>1, ElementOfSeq
    <3> QED BY <1>0, <1>10, <3>2 DEF GetLog, Entry
  <2> QED BY <1>0, <2>1, <2>2 DEF OneDelivery, Idle
<1>11. CASE McpClear /\ task.ids = {}
  <2>1. UNCHANGED <<waiting, dropped, serial, reader, flush, heard, mcp, owed>>
    BY <1>11 DEF McpClear, history
  <2> QED BY <1>0, <2>1 DEF OneDelivery, Idle
<1>12. CASE Progress \/ FinishRun \/ McpSet \/ (McpClear /\ task.ids # {})
            \/ \E c \in Conns : ClearOne(c) \/ SetOne(c)
  <2>1. \E who \in Conns \cup {Mcp, Run, None} :
          Idle /\ Deliver(who) /\ UNCHANGED <<heard, mcp, reader, serial, owed>>
    BY <1>12 DEF Progress, FinishRun, McpSet, McpClear, ClearOne, SetOne, history
  <2> QED BY <1>2, <2>1
<1> QED BY <1>1, <1>3, <1>4, <1>5, <1>6, <1>7, <1>8, <1>9, <1>10, <1>11, <1>12
        DEF LogNext, LogEmulatorStep, ConnStep, McpStep

\* What may be heard after what, which is what ReportsStayHome and
\* ReportsBeforeTheStop come to.
MayFollow(x, y) ==
  /\ ~x.stop => x.n < y.n \/ (y.stop /\ x.n = y.n)
  /\ x.stop /\ ~y.stop => x.n < y.n
HeardWell ==
  \A e \in Ears : \A i \in 1..Len(heard[e]) :
    /\ heard[e][i].life = conn[e[1]].life
    /\ \A j \in 1..Len(heard[e]) : i < j => MayFollow(heard[e][i], heard[e][j])

LEMMA HeardWellIs == ReportTypes /\ OwnersList => (HeardWell <=> ReportsStayHome /\ ReportsBeforeTheStop)
<1> SUFFICES ASSUME ReportTypes, OwnersList
             PROVE  HeardWell <=> ReportsStayHome /\ ReportsBeforeTheStop
  OBVIOUS
<1>1. \A e \in Ears : DOMAIN heard[e] = 1..Len(heard[e])
  BY LenProperties DEF ReportTypes
<1>2. \A i \in DOMAIN owners : owners[i].life = conn[owners[i].conn].life
  BY DEF OwnersList, Owns
<1>3. ASSUME HeardWell PROVE ReportsStayHome /\ ReportsBeforeTheStop
  <2>1. ReportsStayHome
    BY <1>1, <1>2, <1>3 DEF HeardWell, MayFollow, ReportsStayHome
  <2>2. ASSUME NEW e \in Ears, NEW i \in DOMAIN heard[e], NEW j \in DOMAIN heard[e],
               i < j, heard[e][i].stop, ~heard[e][j].stop
        PROVE  heard[e][j].n > heard[e][i].n
    <3>1. MayFollow(heard[e][i], heard[e][j])
      BY <1>1, <1>3, <2>2 DEF HeardWell
    <3>2. heard[e][i] \in Message /\ heard[e][j] \in Message
      BY <1>1, ElementOfSeq DEF ReportTypes
    <3> QED BY <2>2, <3>1, <3>2 DEF MayFollow, Message
  <2> QED BY <2>1, <2>2 DEF ReportsBeforeTheStop
<1>4. ASSUME ReportsStayHome, ReportsBeforeTheStop PROVE HeardWell
  <2> SUFFICES ASSUME NEW e \in Ears, NEW i \in 1..Len(heard[e])
               PROVE  /\ heard[e][i].life = conn[e[1]].life
                      /\ \A j \in 1..Len(heard[e]) : i < j => MayFollow(heard[e][i], heard[e][j])
    BY DEF HeardWell
  <2>1. heard[e][i].life = conn[e[1]].life
    BY <1>1, <1>4 DEF ReportsStayHome
  <2>2. ASSUME NEW j \in 1..Len(heard[e]), i < j PROVE MayFollow(heard[e][i], heard[e][j])
    <3>1. ~heard[e][i].stop => \/ heard[e][i].n < heard[e][j].n
                               \/ heard[e][j].stop /\ heard[e][i].n = heard[e][j].n
      BY <1>1, <1>4, <2>2 DEF ReportsStayHome
    <3>2. heard[e][i].stop /\ ~heard[e][j].stop => heard[e][j].n > heard[e][i].n
      BY <1>1, <1>4, <2>2 DEF ReportsBeforeTheStop
    <3>3. heard[e][i] \in Message /\ heard[e][j] \in Message
      BY ElementOfSeq DEF ReportTypes
    <3> QED BY <3>1, <3>2, <3>3 DEF MayFollow, Message
  <2> QED BY <2>1, <2>2
<1> QED BY <1>3, <1>4

\* A step that tells nobody anything and leaves what is on its way.
LEMMA TellsNobody ==
  ASSUME ReportTypes, InTurn, HeardWell, UNCHANGED <<heard, serial>>, OnTheWay' = OnTheWay,
         \A c \in Conns : conn'[c].life = conn[c].life,
         flush'.at \in {"none", "sort", "send"} => flush.at \in {"none", "sort", "send"}
  PROVE  InTurn' /\ HeardWell'
<1>1. InTurn'
  BY DEF InTurn
<1>2. HeardWell'
  BY EarOf DEF HeardWell
<1> QED BY <1>1, <1>2

\* What a connection heard, up to some report, is its own and in order.
HeardUpTo(h, life, top) ==
  \A i \in 1..Len(h) :
    /\ h[i].n <= top /\ h[i].life = life
    /\ \A j \in 1..Len(h) : i < j => MayFollow(h[i], h[j])

\* One that tells each connection more, all of it after what it heard.
LEMMA TellsMore ==
  ASSUME ReportTypes, HeardWell, NEW e \in Ears, NEW ms \in Seq(Message), NEW top \in Nat, NEW h, h = Further(e, ms),
         \A i \in 1..Len(heard[e]) : heard[e][i].n <= top,
         \A k \in 1..Len(ms) : ms[k].n <= top /\ ms[k].life = conn[e[1]].life,
         \A j, k \in 1..Len(ms) : j < k => MayFollow(ms[j], ms[k]),
         \A i \in 1..Len(heard[e]), k \in 1..Len(ms) : MayFollow(heard[e][i], ms[k])
  PROVE  HeardUpTo(h, conn[e[1]].life, top)
<1> DEFINE old == heard[e]
<1>0. old \in Seq(Message)
  BY DEF ReportTypes
<1>1. After(h, old, ms)
  BY <1>0, FurtherIs
<1>2. \A i \in 1..Len(old) : old[i].life = conn[e[1]].life
  BY DEF HeardWell
<1>3. \A i, j \in 1..Len(old) : i < j => MayFollow(old[i], old[j])
  BY DEF HeardWell
<1>4. ASSUME NEW i \in 1..Len(h) PROVE h[i].n <= top /\ h[i].life = conn[e[1]].life
  <2>1. CASE \E k \in 1..Len(old) : h[i] = old[k]
    BY <1>2, <2>1
  <2>2. CASE \E k \in 1..Len(ms) : h[i] = ms[k]
    BY <2>2
  <2> QED BY <1>1, <2>1, <2>2 DEF After
<1>5. ASSUME NEW i \in 1..Len(h), NEW j \in 1..Len(h), i < j PROVE MayFollow(h[i], h[j])
  <2>1. CASE \E a, b \in 1..Len(old) : a < b /\ h[i] = old[a] /\ h[j] = old[b]
    BY <1>3, <2>1
  <2>2. CASE \E a \in 1..Len(old), b \in 1..Len(ms) : h[i] = old[a] /\ h[j] = ms[b]
    BY <2>2
  <2>3. CASE \E a, b \in 1..Len(ms) : a < b /\ h[i] = ms[a] /\ h[j] = ms[b]
    BY <2>3
  <2> QED BY <1>1, <1>5, <2>1, <2>2, <2>3 DEF After
<1> QED BY <1>4, <1>5 DEF HeardUpTo

\* Each step keeps the order.
LEMMA InTurnKept ==
  ASSUME LogInv, ReportInv, HeardWell, LogNext
  PROVE  InTurn' /\ HeardWell'
<1>0. /\ waiting \in Seq(Line) /\ serial \in Nat /\ flush \in Deliveries /\ heard \in [Ears -> Seq(Message)]
      /\ conn \in [Conns -> ConnRecord]
      /\ ReportTypes /\ OneDelivery /\ InTurn
  BY DEF ReportInv, ReportTypes, Deliveries, Ats, LogInv, LogTypes
<1>a. /\ \A i, j \in 1..Len(OnTheWay) : i < j => OnTheWay[i].n < OnTheWay[j].n
      /\ \A i \in 1..Len(OnTheWay) : OnTheWay[i].n <= serial
      /\ \A e \in Ears : \A i \in 1..Len(heard[e]) : heard[e][i].n <= serial
      /\ flush.at \in {"none", "sort", "send"} =>
           \A e \in Ears : \A i \in 1..Len(heard[e]) : \A k \in 1..Len(OnTheWay) : heard[e][i].n < OnTheWay[k].n
  BY <1>0 DEF InTurn
<1>b. ASSUME NEW e \in Ears, NEW i \in 1..Len(heard[e])
      PROVE  heard[e][i] \in Message /\ heard[e][i].n \in Nat /\ heard[e][i].n <= serial
  <2>1. heard[e][i] \in Message
    BY <1>0, ElementOfSeq
  <2> QED BY <1>a, <2>1 DEF Message
<1>1. ASSUME NEW x \in points, Hit(x) PROVE InTurn' /\ HeardWell'
  <2> DEFINE l == [id |-> x, n |-> serial + 1]
  <2>1. Idle /\ serial' = serial + 1 /\ UNCHANGED <<flush, heard, conn>> /\ OnTheWay = waiting /\ OnTheWay' = waiting'
    BY <1>1 DEF Hit, OnTheWay, Idle, dap
  <2>2. waiting' = waiting \/ waiting' = Append(waiting, l)
    BY <1>1, <2>1 DEF Hit
  <2>3. HeardWell'
    BY <2>1 DEF HeardWell
  <2>4. l \in Line /\ l.n = serial + 1
    BY <1>0 DEF LogInv, GivenOut, Line
  <2> HIDE DEF l
  <2>5. CASE waiting' = waiting
    <3>1. \A i \in 1..Len(waiting) : waiting[i] \in Line
      BY <1>0, ElementOfSeq
    <3>2. ASSUME NEW i \in 1..Len(waiting') PROVE waiting'[i].n <= serial'
      <4>1. waiting[i].n \in Nat /\ waiting[i].n <= serial /\ waiting'[i] = waiting[i]
        BY <1>a, <2>1, <2>5, <3>1 DEF Line
      <4> QED BY <1>0, <2>1, <4>1
    <3>3. ASSUME NEW e \in Ears, NEW i \in 1..Len(heard[e]) PROVE heard[e][i].n <= serial'
      BY <1>0, <1>b, <2>1
    <3> QED BY <1>0, <1>a, <2>1, <2>3, <2>5, <3>2, <3>3 DEF InTurn
  <2>6. CASE waiting' = Append(waiting, l)
    <3> DEFINE n == Len(waiting)
    <3>1. n \in Nat /\ Len(waiting') = n + 1 /\ waiting'[n + 1] = l /\ \A i \in 1..n : waiting'[i] = waiting[i]
      BY <1>0, <2>4, <2>6, AppendProperties, LenProperties
    <3>2. ASSUME NEW i \in 1..n PROVE waiting[i].n \in Nat /\ waiting[i].n <= serial
      <4>1. waiting[i] \in Line
        BY <1>0, ElementOfSeq
      <4> QED BY <1>a, <2>1, <4>1 DEF Line
    <3> HIDE DEF n
    <3>3. ASSUME NEW i \in 1..(n + 1) PROVE waiting'[i].n <= serial'
      <4>1. CASE i = n + 1
        BY <1>0, <2>1, <2>4, <3>1, <4>1
      <4>2. CASE i # n + 1
        <5>1. i \in 1..n
          BY <3>1, <4>2
        <5> QED BY <1>0, <2>1, <3>1, <3>2, <5>1
      <4> QED BY <4>1, <4>2
    <3>4. ASSUME NEW i \in 1..(n + 1), NEW j \in 1..(n + 1), i < j PROVE waiting'[i].n < waiting'[j].n
      <4>1. i \in 1..n
        BY <3>1, <3>4
      <4>2. CASE j = n + 1
        BY <1>0, <2>4, <3>1, <3>2, <4>1, <4>2
      <4>3. CASE j # n + 1
        <5>1. j \in 1..n
          BY <3>1, <4>3
        <5>2. waiting[i].n < waiting[j].n
          BY <1>a, <2>1, <3>4, <4>1, <5>1 DEF n
        <5> QED BY <3>1, <4>1, <5>1, <5>2
      <4> QED BY <4>2, <4>3
    <3>5. ASSUME NEW e \in Ears, NEW i \in 1..Len(heard[e])
          PROVE  heard[e][i].n <= serial' /\ \A k \in 1..(n + 1) : heard[e][i].n < waiting'[k].n
      <4>1. heard[e][i].n \in Nat /\ heard[e][i].n <= serial
        BY <1>a, <1>b
      <4>2. ASSUME NEW k \in 1..(n + 1) PROVE heard[e][i].n < waiting'[k].n
        <5>1. CASE k = n + 1
          BY <1>0, <2>4, <3>1, <4>1, <5>1
        <5>2. CASE k # n + 1
          <6>1. k \in 1..n /\ flush.at = "none"
            BY <2>1, <3>1, <5>2 DEF Idle
          <6>2. heard[e][i].n < waiting[k].n
            BY <1>a, <2>1, <6>1 DEF n
          <6> QED BY <3>1, <6>1, <6>2
        <5> QED BY <5>1, <5>2
      <4> QED BY <1>0, <2>1, <4>1, <4>2
    <3> QED BY <2>1, <2>3, <3>1, <3>3, <3>4, <3>5 DEF InTurn
  <2> QED BY <2>2, <2>5, <2>6
<1>2. ASSUME NEW who \in Conns \cup {Mcp, Run, None}, Idle, Deliver(who), UNCHANGED <<heard, serial>>,
             \A c \in Conns : conn'[c].life = conn[c].life
      PROVE  InTurn' /\ HeardWell'
  <2>1. OnTheWay' = OnTheWay /\ flush.at = "none"
    BY <1>0, <1>2, DeliverIs DEF Idle
  <2> QED BY <1>0, <1>2, <2>1, TellsNobody
<1>3. CASE Sort
  <2>1. OnTheWay' = OnTheWay /\ flush.at = "sort" /\ UNCHANGED <<heard, serial, conn>>
    BY <1>0, <1>3 DEF Sort, OnTheWay, Idle, Deliveries, history, dap
  <2> QED BY <1>0, <2>1, TellsNobody
<1>4. CASE Send
  <2>1. /\ flush.at = "send" /\ flush'.at = "keep" /\ UNCHANGED <<serial, conn>>
        /\ OnTheWay = flush.lines /\ OnTheWay' = flush.lines /\ ~Idle
        /\ \A e \in Ears : heard'[e] = heard[e]
                            \/ heard'[e] = Further(e, [k \in DOMAIN flush.console[e] |-> Report(flush.console[e][k])])
    BY <1>0, <1>4 DEF Send, OnTheWay, Idle, Deliveries, history, dap
  <2>2. ASSUME NEW e \in Ears
        PROVE  HeardUpTo(heard'[e], conn[e[1]].life, serial)
    <3>1. CASE heard'[e] = heard[e]
      BY <1>a, <3>1 DEF HeardWell, HeardUpTo
    <3>2. CASE heard'[e] = Further(e, [k \in DOMAIN flush.console[e] |-> Report(flush.console[e][k])])
      <4> DEFINE its == flush.console[e]
                 ms == [k \in DOMAIN its |-> Report(its[k])]
      <4>1. its \in Seq([n : Nat, life : Nat]) /\ ForEach(e)
        BY <2>1 DEF ReportInv, ForThem
      <4>2. /\ ms \in Seq(Message) /\ Len(ms) = Len(its)
            /\ \A k \in 1..Len(ms) : ms[k].n = its[k].n /\ ms[k].life = its[k].life /\ ~ms[k].stop
        BY <4>1, MessagesAre
      <4>3. /\ \A k \in 1..Len(its) : its[k].life = conn[e[1]].life /\ \E m \in 1..Len(flush.lines) : its[k].n = flush.lines[m].n
            /\ \A j, k \in 1..Len(its) : j < k => its[j].n < its[k].n
        BY <4>1 DEF ForEach
      <4>4. heard'[e] = Further(e, ms)
        BY <3>2
      <4> HIDE DEF ms, its
      <4>5. \A k \in 1..Len(ms) : ms[k].n <= serial /\ ms[k].life = conn[e[1]].life
        BY <1>a, <2>1, <4>2, <4>3
      <4>6. \A j, k \in 1..Len(ms) : j < k => MayFollow(ms[j], ms[k])
        BY <4>2, <4>3 DEF MayFollow
      <4>7. \A i \in 1..Len(heard[e]), k \in 1..Len(ms) : MayFollow(heard[e][i], ms[k])
        BY <1>a, <2>1, <4>2, <4>3 DEF MayFollow
      <4>8. \A i \in 1..Len(heard[e]) : heard[e][i].n <= serial
        BY <1>a
      <4> QED BY <1>0, <4>2, <4>4, <4>5, <4>6, <4>7, <4>8, TellsMore
    <3> QED BY <2>1, <3>1, <3>2
  <2>3. HeardWell'
    BY <2>1, <2>2 DEF HeardWell, HeardUpTo
  <2>4. InTurn'
    BY <1>a, <2>1, <2>2 DEF InTurn, HeardUpTo
  <2> QED BY <2>3, <2>4
<1>5. CASE Keep
  <2>1. UNCHANGED <<heard, serial, conn>> /\ flush'.at = "done" /\ OnTheWay' = <<>>
    BY <1>5 DEF Keep, NoFlush, OnTheWay, Idle, history, dap
  <2>2. HeardWell'
    BY <2>1 DEF HeardWell
  <2>3. InTurn'
    BY <1>a, <2>1 DEF InTurn
  <2> QED BY <2>2, <2>3
<1>6. CASE LetGo
  <2>1. /\ flush.at = "done" /\ flush'.at = "none" /\ serial' = serial /\ waiting' = waiting
        /\ waiting = <<>> /\ OnTheWay' = <<>>
        /\ heard' = heard \/ heard' = [e \in Ears |-> Told(e)]
    BY <1>0, <1>6 DEF LetGo, NoFlush, OnTheWay, Idle, history, machine, OneDelivery
  <2>2. \A c \in Conns : conn'[c].life = conn[c].life
    BY <1>0, <1>6 DEF LetGo, ConnRecord
  <2>3. ASSUME NEW e \in Ears
        PROVE  HeardUpTo(heard'[e], conn[e[1]].life, serial)
    <3> DEFINE stop == [n |-> serial, life |-> conn[e[1]].life, stop |-> TRUE]
    <3>1. CASE heard'[e] = heard[e]
      BY <1>a, <3>1 DEF HeardWell, HeardUpTo
    <3>2. CASE heard'[e] = Further(e, <<stop>>)
      <4> DEFINE ms == <<stop>>
      <4>1. stop \in Message /\ stop.n = serial /\ stop.life = conn[e[1]].life /\ stop.stop
        BY <1>0, EarOf DEF ConnRecord, Message
      <4> HIDE DEF stop
      <4>2. ms \in Seq(Message) /\ Len(ms) = 1 /\ ms[1] = stop
        BY <4>1
      <4>3. heard'[e] = Further(e, ms)
        BY <3>2
      <4> HIDE DEF ms
      <4>4. \A k \in 1..Len(ms) : ms[k].n <= serial /\ ms[k].life = conn[e[1]].life
        BY <1>0, <4>1, <4>2
      <4>5. \A j, k \in 1..Len(ms) : j < k => MayFollow(ms[j], ms[k])
        BY <4>2
      <4>6. \A i \in 1..Len(heard[e]) : heard[e][i].n <= serial
        BY <1>a
      <4>7. \A i \in 1..Len(heard[e]), k \in 1..Len(ms) : MayFollow(heard[e][i], ms[k])
        BY <1>0, <1>b, <4>1, <4>2, <4>6 DEF MayFollow
      <4>8. ms \in Seq(Message)
        BY <4>2
      <4>9. serial \in Nat /\ ReportTypes
        BY <1>0
      <4> QED BY <4>3, <4>4, <4>5, <4>6, <4>7, <4>8, <4>9, TellsMore
    <3> QED BY <2>1, <3>1, <3>2 DEF Told
  <2>4. HeardWell'
    BY <2>2, <2>3, EarOf DEF HeardWell, HeardUpTo
  <2>5. InTurn'
    BY <2>1, <2>3 DEF InTurn, HeardUpTo
  <2> QED BY <2>4, <2>5
<1>7. CASE BeginRun \/ McpOwn \/ McpForget \/ GetLog \/ (McpClear /\ task.ids = {})
           \/ \E c \in Conns : Disown(c) \/ Own(c) \/ Dropped(c) \/ \E g \in Groups \cup {All} : Ask(c, g)
  <2>1. UNCHANGED <<waiting, serial, flush, heard>>
    BY <1>7 DEF BeginRun, McpOwn, McpForget, GetLog, McpClear, Disown, Own, Dropped, Ask, machine, history
  <2>2. \A c \in Conns : conn'[c].life = conn[c].life
    <3>1. CASE BeginRun \/ McpOwn \/ McpForget \/ GetLog \/ McpClear
      BY <3>1 DEF BeginRun, McpOwn, McpForget, GetLog, McpClear, dap
    <3>2. ASSUME NEW c \in Conns, Disown(c) PROVE \A d \in Conns : conn'[d].life = conn[d].life
      BY <1>0, <3>2 DEF Disown, ConnRecord
    <3>3. ASSUME NEW c \in Conns, Own(c) PROVE \A d \in Conns : conn'[d].life = conn[d].life
      BY <1>0, <3>3 DEF Own, Resting, ConnRecord
    <3>4. ASSUME NEW c \in Conns, Dropped(c) PROVE \A d \in Conns : conn'[d].life = conn[d].life
      BY <1>0, <3>4 DEF Dropped, Resting, ConnRecord
    <3>5. ASSUME NEW c \in Conns, NEW g \in Groups \cup {All}, Ask(c, g) PROVE \A d \in Conns : conn'[d].life = conn[d].life
      BY <1>0, <3>5 DEF Ask, ConnRecord
    <3> QED BY <1>7, <3>1, <3>2, <3>3, <3>4, <3>5
  <2>3. OnTheWay' = OnTheWay
    BY <2>1 DEF OnTheWay, Idle
  <2> QED BY <1>0, <2>1, <2>2, <2>3, TellsNobody
<1>8. ASSUME NEW c \in Conns, Connect(c) PROVE InTurn' /\ HeardWell'
  <2>1. /\ UNCHANGED <<waiting, serial, flush>> /\ heard' = [e \in Ears |-> IF e[1] = c THEN <<>> ELSE heard[e]]
        /\ \A d \in Conns : d # c => conn'[d] = conn[d]
    BY <1>0, <1>8 DEF Connect, machine, history
  <2>2. \A e \in Ears : (e[1] # c /\ heard'[e] = heard[e]) \/ (e[1] = c /\ heard'[e] = <<>>)
    BY <1>0, <2>1
  <2>3. Len(<<>>) = 0 /\ OnTheWay' = OnTheWay
    BY <1>0, <2>1, EmptySeq DEF OnTheWay, Idle
  <2>4. HeardWell'
    BY <2>1, <2>2, <2>3, EarOf DEF HeardWell
  <2>5. InTurn'
    BY <1>a, <2>1, <2>2, <2>3 DEF InTurn
  <2> QED BY <2>4, <2>5
<1>9. CASE Progress \/ FinishRun \/ McpSet \/ (McpClear /\ task.ids # {})
           \/ \E c \in Conns : ClearOne(c) \/ SetOne(c)
  <2>1. \E who \in Conns \cup {Mcp, Run, None} : Idle /\ Deliver(who) /\ UNCHANGED <<heard, serial>>
    BY <1>9 DEF Progress, FinishRun, McpSet, McpClear, ClearOne, SetOne, history
  <2>2. \A c \in Conns : conn'[c].life = conn[c].life
    <3>1. CASE Progress \/ FinishRun \/ McpSet \/ McpClear
      BY <3>1 DEF Progress, FinishRun, McpSet, McpClear, dap
    <3>2. ASSUME NEW c \in Conns, ClearOne(c) PROVE \A d \in Conns : conn'[d].life = conn[d].life
      BY <1>0, <3>2 DEF ClearOne, ConnRecord
    <3>3. ASSUME NEW c \in Conns, SetOne(c) PROVE \A d \in Conns : conn'[d].life = conn[d].life
      BY <1>0, <3>3 DEF SetOne, ConnRecord
    <3> QED BY <1>9, <3>1, <3>2, <3>3
  <2> QED BY <1>2, <2>1, <2>2
<1> QED BY <1>1, <1>3, <1>4, <1>5, <1>6, <1>7, <1>8, <1>9 DEF LogNext, LogEmulatorStep, ConnStep, McpStep

-----------------------------------------------------------------------------
(* Whose each logpoint is.                                                 *)

\* What is held has been given out.
LEMMA HeldAreOut ==
  ASSUME LogInv, NEW c \in Conns
  PROVE  /\ next_id \notin Its(c) /\ Its(c) \subseteq Nat /\ Listing(c) \subseteq Its(c)
         /\ \A i \in Its(c) : i < next_id
<1>1. next_id \in Nat /\ conn[c].id \in Nat /\ Listing(c) \subseteq Nat
  BY DEF LogInv, LogTypes, ConnRecord, Listing
<1>2. conn[c].id < next_id /\ \A i \in Listing(c) : i < next_id
  BY DEF LogInv, GivenOut
<1> QED BY <1>1, <1>2 DEF Its

\* A new number may come to one holder; else nobody comes to hold more.
Holding(new, who) ==
  /\ new = {} \/ (new = {next_id} /\ next_id' = next_id + 1)
  /\ next_id' = next_id \/ next_id' = next_id + 1
  /\ Mcps' \subseteq Mcps \cup (IF who = Mcp THEN new ELSE {})
  /\ \A c \in Conns : Its(c)' \subseteq Its(c) \cup (IF who = c THEN new ELSE {})
  /\ \A c \in Conns : Setting(c)' => conn'[c].id \in points' /\ conn'[c].id \notin Listing(c)'

LEMMA HoldersKept ==
  ASSUME LogInv, OneHolder, NEW new, NEW who, Holding(new, who)
  PROVE  OneHolder'
<1>1. /\ \A i \in Mcps : i < next_id /\ i \in Nat
      /\ \A c \in Conns : Its(c) \cap Mcps = {} /\ next_id \notin Its(c)
      /\ \A c, d \in Conns : c # d => Its(c) \cap Its(d) = {}
      /\ next_id \in Nat /\ next_id \notin Mcps
  <2>1. Mcps \subseteq Nat /\ next_id \in Nat
    BY DEF Mcps, LogInv, LogTypes
  <2> QED BY <2>1, HeldAreOut DEF OneHolder
<1>2. ASSUME NEW i \in Mcps' PROVE i < next_id'
  BY <1>1, <1>2 DEF Holding
<1>3. \A c \in Conns : Its(c)' \cap Mcps' = {}
  BY <1>1, LogpointsAssumption DEF Holding
<1>4. \A c, d \in Conns : c # d => Its(c)' \cap Its(d)' = {}
  BY <1>1 DEF Holding
<1> QED BY <1>2, <1>3, <1>4 DEF Holding, OneHolder

\* Each step keeps each logpoint one client's.
LEMMA OneHolderKept ==
  ASSUME LogInv, OneHolder, LogNext
  PROVE  OneHolder'
<1>0. /\ conn \in [Conns -> ConnRecord] /\ lists \in [Conns -> [Groups -> SUBSET Nat]] /\ next_id \in Nat
      /\ LogTypes
      /\ \A c \in Conns : Setting(c) => conn[c].id \in points /\ conn[c].id \notin Listing(c)
      /\ \A c \in Conns : Its(c) \cap Mcps = {} /\ next_id \notin Its(c)
      /\ \A c, d \in Conns : c # d => Its(c) \cap Its(d) = {}
  BY HeldAreOut DEF LogInv, LogTypes, OneHolder
<1>1. ASSUME UNCHANGED <<conn, lists, points, next_id>>, Mcps' \subseteq Mcps PROVE OneHolder'
  <2>1. \A c \in Conns : Listing(c)' = Listing(c) /\ Setting(c)' = Setting(c)
    BY <1>1 DEF Listing, Setting
  <2>2. \A c \in Conns : Its(c)' = Its(c)
    BY <1>1, <2>1 DEF Its
  <2>3. Holding({}, None)
    BY <1>0, <1>1, <2>1, <2>2 DEF Holding
  <2> QED BY <2>3, HoldersKept
<1>2. CASE LogEmulatorStep /\ ~LetGo
  <2>1. UNCHANGED <<conn, lists, points, next_id, task>> /\ mcp'.ids = mcp.ids
    <3>1. CASE Keep
      BY <3>1 DEF Keep, machine, dap, LogInv, LogTypes
    <3>2. CASE LogEmulatorStep /\ ~LetGo /\ ~Keep
      BY <3>2 DEF LogEmulatorStep, Hit, BeginRun, Progress, FinishRun, Sort, Send, machine, dap
    <3> QED BY <1>2, <3>1, <3>2
  <2> QED BY <1>1, <2>1 DEF Mcps
<1>3. CASE LetGo
  <2>1. UNCHANGED <<lists, points, next_id, mcp>> /\ task'.ids = task.ids
    BY <1>0, <1>3 DEF LetGo, machine, LogTypes
  <2>2. ASSUME NEW c \in Conns
        PROVE  conn'[c].id = conn[c].id /\ (Setting(c)' => Setting(c)) /\ Listing(c)' = Listing(c)
    <3>1. conn'[c] = conn[c] \/ (flush.for = c /\ conn'[c] = [conn[c] EXCEPT !.at = IF @ = "set" THEN "own" ELSE "disown"])
      BY <1>0, <1>3 DEF LetGo
    <3>2. conn[c] \in ConnRecord
      BY <1>0
    <3>3. conn'[c].id = conn[c].id /\ (conn'[c].at = conn[c].at \/ conn'[c].at = IF conn[c].at = "set" THEN "own" ELSE "disown")
      BY <3>1, <3>2 DEF ConnRecord
    <3> QED BY <2>1, <3>3 DEF Setting, Listing
  <2>3. \A c \in Conns : Its(c)' \subseteq Its(c)
    BY <2>2 DEF Its
  <2>4. Mcps' = Mcps
    BY <2>1 DEF Mcps
  <2>5. Holding({}, None)
    BY <1>0, <2>1, <2>2, <2>3, <2>4 DEF Holding
  <2> QED BY <2>5, HoldersKept
<1>4. CASE McpOwn \/ McpForget \/ GetLog \/ (McpClear /\ task.ids = {})
  <2>1. UNCHANGED <<conn, lists, points, next_id>>
    BY <1>4 DEF McpOwn, McpForget, GetLog, McpClear, machine, dap
  <2>2. Mcps' \subseteq Mcps
    <3>1. CASE McpOwn
      BY <1>0, <3>1 DEF McpOwn, Mcps, LogTypes
    <3>2. CASE McpForget
      BY <1>0, <3>2 DEF McpForget, Mcps, LogTypes
    <3>3. CASE GetLog
      BY <3>3 DEF GetLog, Mcps
    <3>4. CASE McpClear /\ task.ids = {}
      BY <1>0, <3>4 DEF McpClear, Mcps, LogTypes
    <3> QED BY <1>4, <3>1, <3>2, <3>3, <3>4
  <2> QED BY <1>1, <2>1, <2>2
<1>5. CASE McpSet
  <2>1. /\ UNCHANGED <<conn, lists, mcp>> /\ task'.ids = {next_id} /\ points' = points \cup {next_id}
        /\ next_id' = next_id + 1
    BY <1>5 DEF McpSet, dap
  <2>2. \A c \in Conns : Listing(c)' = Listing(c) /\ Setting(c)' = Setting(c)
    BY <2>1 DEF Listing, Setting
  <2>3. \A c \in Conns : Its(c)' = Its(c)
    BY <2>1, <2>2 DEF Its
  <2>4. Mcps' \subseteq Mcps \cup {next_id}
    BY <2>1 DEF Mcps
  <2>5. Holding({next_id}, Mcp)
    BY <1>0, <2>1, <2>2, <2>3, <2>4 DEF Holding
  <2> QED BY <2>5, HoldersKept
<1>6. ASSUME NEW i \in task.ids, McpClear, points' = points \ {i}, task' = [at |-> "clearing", ids |-> task.ids \ {i}]
      PROVE  OneHolder'
  <2>1. UNCHANGED <<conn, lists, mcp, next_id>>
    BY <1>6 DEF McpClear, dap
  <2>2. \A c \in Conns : Listing(c)' = Listing(c) /\ Setting(c)' = Setting(c)
    BY <2>1 DEF Listing, Setting
  <2>3. \A c \in Conns : Its(c)' = Its(c)
    BY <2>1, <2>2 DEF Its
  <2>4. Mcps' \subseteq Mcps
    BY <1>6, <2>1 DEF Mcps
  <2>5. \A c \in Conns : Setting(c) => conn[c].id \in Its(c) /\ conn[c].id # i
    BY <1>0, <1>6 DEF Its, Mcps
  <2>6. Holding({}, None)
    BY <1>0, <1>6, <2>1, <2>2, <2>3, <2>4, <2>5 DEF Holding
  <2> QED BY <2>6, HoldersKept
<1>7. ASSUME NEW c \in Conns, NEW new, ConnStep(c), UNCHANGED <<mcp, task>>,
             new = {} \/ (new = {next_id} /\ next_id' = next_id + 1),
             next_id' = next_id \/ next_id' = next_id + 1,
             \A d \in Conns : d # c => conn'[d] = conn[d] /\ lists'[d] = lists[d],
             Its(c)' \subseteq Its(c) \cup new,
             Setting(c)' => conn'[c].id \in points' /\ conn'[c].id \notin Listing(c)',
             \A i \in points : i \in points' \/ i \in Its(c)
      PROVE  OneHolder'
  <2>1. \A d \in Conns : d # c => Listing(d)' = Listing(d) /\ Setting(d)' = Setting(d)
    BY <1>7 DEF Listing, Setting
  <2>2. \A d \in Conns : d # c => Its(d)' = Its(d)
    BY <1>7, <2>1 DEF Its
  <2>3. Mcps' = Mcps
    BY <1>7 DEF Mcps
  <2>4. ASSUME NEW d \in Conns, d # c, Setting(d)' PROVE conn'[d].id \in points' /\ conn'[d].id \notin Listing(d)'
    <3>1. Setting(d) /\ conn'[d] = conn[d] /\ conn[d].id \in Its(d)
      BY <1>7, <2>1, <2>4 DEF Its
    <3>2. conn[d].id \notin Its(c) /\ conn[d].id \in points /\ conn[d].id \notin Listing(d)
      BY <1>0, <2>4, <3>1
    <3> QED BY <1>7, <2>1, <2>4, <3>1, <3>2
  <2>5. Holding(new, c)
    BY <1>7, <2>2, <2>3, <2>4 DEF Holding
  <2> QED BY <2>5, HoldersKept
<1>8. ASSUME NEW c \in Conns, Connect(c) \/ Dropped(c) \/ \E g \in Groups \cup {All} : Ask(c, g) PROVE OneHolder'
  <2>1. /\ UNCHANGED <<mcp, task, points, next_id, lists>> /\ ConnStep(c)
        /\ \A d \in Conns : d # c => conn'[d] = conn[d]
    BY <1>0, <1>8 DEF Connect, Dropped, Ask, ConnStep, machine
  <2>2. ~Setting(c)'
    <3>1. CASE Connect(c)
      BY <1>0, <3>1 DEF Connect, Resting, Setting
    <3>2. CASE Dropped(c)
      BY <1>0, <3>2 DEF Dropped, Resting, Setting
    <3>3. ASSUME NEW g \in Groups \cup {All}, Ask(c, g) PROVE ~Setting(c)'
      <4>1. conn'[c].at = "drop"
        BY <1>0, <3>3 DEF Ask, ConnRecord
      <4> QED BY <4>1 DEF Setting
    <3> QED BY <1>8, <3>1, <3>2, <3>3
  <2>3. Its(c)' \subseteq Its(c)
    BY <2>1, <2>2 DEF Its, Listing
  <2> QED BY <1>7, <2>1, <2>2, <2>3
<1>9. ASSUME NEW c \in Conns, ClearOne(c) PROVE OneHolder'
  <2>1. PICK i \in ToDrop(c) : conn' = [conn EXCEPT ![c].at = "clear", ![c].id = i] /\ points' = points \ {i}
    BY <1>9 DEF ClearOne
  <2>2. UNCHANGED <<mcp, task, next_id, lists>> /\ ConnStep(c)
    BY <1>9 DEF ClearOne, ConnStep
  <2>3. i \in Nat /\ i \in Listing(c)
    BY DropsListed
  <2>4. conn'[c].at = "clear" /\ \A d \in Conns : d # c => conn'[d] = conn[d]
    BY <1>0, <2>1, <2>3, Moves DEF Places
  <2>5. ~Setting(c)' /\ Its(c)' \subseteq Its(c) /\ i \in Its(c)
    BY <2>2, <2>3, <2>4 DEF Setting, Its, Listing
  <2> QED BY <1>7, <2>1, <2>2, <2>4, <2>5
<1>10. ASSUME NEW c \in Conns, Disown(c) PROVE OneHolder'
  <2>1. /\ conn' = [conn EXCEPT ![c].at = "drop", ![c].id = 0]
        /\ lists' = [lists EXCEPT ![c] = [g \in Groups |-> lists[c][g] \ {conn[c].id}]]
        /\ UNCHANGED <<points, next_id, mcp, task>> /\ ConnStep(c)
    BY <1>10 DEF Disown, Unlist, machine, ConnStep
  <2>2. conn'[c].at = "drop" /\ \A d \in Conns : d # c => conn'[d] = conn[d]
    BY <1>0, <2>1, Moves DEF Places
  <2>3. (\A d \in Conns : d # c => lists'[d] = lists[d]) /\ Listing(c)' \subseteq Listing(c)
    BY <1>0, <2>1 DEF Listing
  <2>4. ~Setting(c)' /\ Its(c)' \subseteq Its(c)
    BY <2>2, <2>3 DEF Setting, Its
  <2> QED BY <1>7, <2>1, <2>2, <2>3, <2>4
<1>11. ASSUME NEW c \in Conns, SetOne(c) PROVE OneHolder'
  <2>1. /\ conn' = [conn EXCEPT ![c].at = "set", ![c].id = next_id]
        /\ points' = points \cup {next_id} /\ next_id' = next_id + 1
        /\ UNCHANGED <<lists, mcp, task>> /\ ConnStep(c)
    BY <1>11 DEF SetOne, ConnStep
  <2>2. conn'[c].id = next_id /\ \A d \in Conns : d # c => conn'[d] = conn[d]
    BY <1>0, <2>1, Moves DEF Places
  <2>3. Listing(c)' = Listing(c) /\ next_id \notin Listing(c)
    BY <1>0, <2>1 DEF Listing, Its
  <2>4. Its(c)' \subseteq Its(c) \cup {next_id}
    BY <2>2, <2>3 DEF Its
  <2>5. /\ \A d \in Conns : d # c => conn'[d] = conn[d] /\ lists'[d] = lists[d]
        /\ conn'[c].id \in points' /\ conn'[c].id \notin Listing(c)'
        /\ \A i \in points : i \in points'
    <3>1. \A d \in Conns : d # c => conn'[d] = conn[d] /\ lists'[d] = lists[d]
      BY <2>1, <2>2
    <3>2. next_id \in points' /\ conn'[c].id = next_id /\ points \subseteq points'
      BY <2>1, <2>2
    <3> QED BY <2>3, <3>1, <3>2
  <2> DEFINE new == {next_id}
  <2>6. new = {next_id} /\ next_id' = next_id + 1 /\ ConnStep(c) /\ UNCHANGED <<mcp, task>> /\ Its(c)' \subseteq Its(c) \cup new
    BY <2>1, <2>4
  <2> HIDE DEF new
  <2> QED BY <1>7, <2>5, <2>6
<1>12. ASSUME NEW c \in Conns, Own(c) PROVE OneHolder'
  <2> DEFINE i == conn[c].id
             group == conn[c].group
  <2>1. /\ conn[c].at = "own" /\ conn' = [conn EXCEPT ![c] = Resting("idle", conn[c].life)]
        /\ lists' = [lists EXCEPT ![c][group] = lists[c][group] \cup {i}]
        /\ UNCHANGED <<points, next_id, mcp, task>> /\ ConnStep(c)
    BY <1>12 DEF Own, machine, ConnStep
  <2>2. conn'[c].at = "idle" /\ \A d \in Conns : d # c => conn'[d] = conn[d]
    BY <1>0, <2>1 DEF Resting
  <2>3. \A d \in Conns : d # c => lists'[d] = lists[d]
    BY <1>0, <2>1
  <2>4. \A g \in Groups : lists'[c][g] \subseteq lists[c][g] \cup {i}
    <3> HIDE DEF i, group
    <3> QED BY <1>0, <2>1
  <2>5. Its(c) = Listing(c) \cup {i}
    BY <2>1 DEF Its, Setting
  <2>6. ~Setting(c)' /\ Its(c)' \subseteq Its(c)
    <3> HIDE DEF i, group
    <3>1. Listing(c)' \subseteq Listing(c) \cup {i}
      BY <2>4 DEF Listing
    <3> QED BY <2>2, <2>5, <3>1 DEF Setting, Its
  <2> QED BY <1>7, <2>1, <2>2, <2>3, <2>6
<1>13. CASE McpStep
  BY <1>4, <1>5, <1>6, <1>13 DEF McpStep, McpClear
<1>14. ASSUME NEW c \in Conns, ConnStep(c) PROVE OneHolder'
  BY <1>8, <1>9, <1>10, <1>11, <1>12, <1>14 DEF ConnStep
<1> QED BY <1>2, <1>3, <1>13, <1>14 DEF LogNext

\* Each step leaves a report on its way a logpoint still set, or an owner that
\* waits for the delivery.
LEMMA StillSetKept ==
  ASSUME LogInv, ReportInv, LogNext
  PROVE  StillSet'
<1>0. /\ ReportTypes /\ OneDelivery /\ StillSet /\ OneHolder /\ LogTypes /\ OwnersList
      /\ waiting \in Seq(Line) /\ flush \in Deliveries
  BY DEF ReportInv, LogInv, ReportTypes, Deliveries, Ats
<1>1. ASSUME NEW x \in points, Hit(x) PROVE StillSet'
  <2> DEFINE l == [id |-> x, n |-> serial']
  <2>1. Idle /\ UNCHANGED <<flush, points>> /\ (waiting' = waiting \/ waiting' = Append(waiting, l))
    BY <1>1 DEF Hit
  <2>2. l \in Line /\ l.id = x
    BY <1>0, <1>1 DEF Hit, ReportTypes, LogInv, GivenOut, Line
  <2> HIDE DEF l
  <2>3. flush'.at = "none" /\ \A k \in 1..Len(waiting) : waiting[k].id \in points
    BY <1>0, <2>1 DEF StillSet, Idle
  <2>4. \A k \in 1..Len(waiting') : waiting'[k].id \in points
    <3>1. CASE waiting' = waiting
      BY <2>3, <3>1
    <3>2. CASE waiting' = Append(waiting, l)
      <4>1. /\ Len(waiting) \in Nat /\ Len(waiting') = Len(waiting) + 1 /\ waiting'[Len(waiting) + 1] = l
            /\ \A i \in 1..Len(waiting) : waiting'[i] = waiting[i]
        BY <1>0, <2>2, <3>2, AppendProperties, LenProperties
      <4> SUFFICES ASSUME NEW k \in 1..Len(waiting') PROVE waiting'[k].id \in points
        OBVIOUS
      <4>2. CASE k = Len(waiting) + 1
        BY <2>2, <4>1, <4>2
      <4>3. CASE k # Len(waiting) + 1
        <5>1. k \in 1..Len(waiting)
          BY <4>1, <4>3
        <5> QED BY <2>3, <4>1, <5>1
      <4> QED BY <4>2, <4>3
    <3> QED BY <2>1, <3>1, <3>2
  <2> QED BY <2>1, <2>3, <2>4 DEF StillSet, Idle
<1>2. ASSUME NEW who \in Conns \cup {Mcp, Run, None}, Idle, Deliver(who), owners' = owners,
             \A i \in points : i \in points' \/ i \notin DOMAIN owners \/ who = owners[i].conn
      PROVE  StillSet'
  <2>1. flush'.at = "sort" /\ ~Idle' /\ flush'.for = who /\ flush'.lines = waiting
    BY <1>0, <1>2, DeliverIs
  <2>2. \A k \in 1..Len(waiting) : waiting[k].id \in points
    BY <1>0, <1>2 DEF StillSet
  <2> QED BY <1>2, <2>1, <2>2 DEF StillSet
<1>3. ASSUME UNCHANGED <<points, waiting, flush>>,
             \A i \in DOMAIN owners' : i \in points \/ (i \in DOMAIN owners /\ owners'[i] = owners[i])
      PROVE  StillSet'
  BY <1>0, <1>3 DEF StillSet, Idle
<1>4. CASE Sort \/ Send \/ Keep
  <2>1. ~Idle' /\ flush'.at # "sort"
    BY <1>0, <1>4 DEF Sort, Send, Keep, Idle, Deliveries, NoFlush
  <2> QED BY <2>1 DEF StillSet
<1>5. CASE LetGo
  <2>1. flush'.at = "none" /\ waiting' = <<>>
    BY <1>0, <1>5 DEF LetGo, NoFlush, machine, OneDelivery, Idle
  <2> QED BY <2>1 DEF StillSet
<1>6. CASE BeginRun \/ McpOwn \/ McpForget \/ GetLog \/ (McpClear /\ task.ids = {})
           \/ \E c \in Conns : Connect(c) \/ Dropped(c) \/ \E g \in Groups \cup {All} : Ask(c, g)
  <2>1. UNCHANGED <<points, waiting, flush, owners>>
    BY <1>6 DEF BeginRun, McpOwn, McpForget, GetLog, McpClear, Connect, Dropped, Ask, machine, dap
  <2> QED BY <1>3, <2>1
<1>7. CASE Progress \/ FinishRun \/ McpSet \/ \E c \in Conns : SetOne(c)
  <2>1. \E who \in Conns \cup {Mcp, Run, None} : Idle /\ Deliver(who)
    BY <1>7 DEF Progress, FinishRun, McpSet, SetOne
  <2>2. owners' = owners /\ points \subseteq points'
    BY <1>7 DEF Progress, FinishRun, McpSet, SetOne, dap
  <2> QED BY <1>2, <2>1, <2>2
<1>8. ASSUME NEW c \in Conns, ClearOne(c) PROVE StillSet'
  <2>1. PICK i \in ToDrop(c) : points' = points \ {i}
    BY <1>8 DEF ClearOne
  <2>2. Idle /\ Deliver(c) /\ owners' = owners
    BY <1>8 DEF ClearOne
  <2>3. i \in Its(c)
    BY DropsListed, HeldAreOut
  <2>4. i \in DOMAIN owners => owners[i].conn = c
    <3> SUFFICES ASSUME i \in DOMAIN owners PROVE owners[i].conn = c
      OBVIOUS
    <3>1. owners[i].conn \in Conns /\ i \in Its(owners[i].conn)
      BY <1>0, HeldAreOut DEF OwnersList, Owns
    <3> QED BY <1>0, <2>3, <3>1 DEF OneHolder
  <2> QED BY <1>2, <2>1, <2>2, <2>4
<1>9. ASSUME McpClear, task.ids # {} PROVE StillSet'
  <2>1. PICK i \in task.ids : points' = points \ {i} /\ Deliver(Mcp)
    BY <1>9 DEF McpClear
  <2>2. Idle /\ owners' = owners
    BY <1>9 DEF McpClear, dap
  <2>3. i \in DOMAIN owners => FALSE
    <3> SUFFICES ASSUME i \in DOMAIN owners PROVE FALSE
      OBVIOUS
    <3>1. owners[i].conn \in Conns /\ i \in Its(owners[i].conn)
      BY <1>0, HeldAreOut DEF OwnersList, Owns
    <3> QED BY <1>0, <2>1, <3>1 DEF OneHolder, Mcps
  <2> QED BY <1>2, <2>1, <2>2, <2>3
<1>10. ASSUME NEW c \in Conns, Disown(c) PROVE StillSet'
  <2>1. UNCHANGED <<points, waiting, flush>> /\ owners' = [i \in DOMAIN owners \ {conn[c].id} |-> owners[i]]
    BY <1>10 DEF Disown, machine
  <2> QED BY <1>3, <2>1
<1>11. ASSUME NEW c \in Conns, Own(c) PROVE StillSet'
  <2>1. /\ UNCHANGED <<points, waiting, flush>> /\ conn[c].at = "own"
        /\ owners' = [i \in DOMAIN owners \cup {conn[c].id} |->
                        IF i = conn[c].id THEN [conn |-> c, group |-> Through(conn[c].group), life |-> conn[c].life]
                        ELSE owners[i]]
    BY <1>11 DEF Own, machine
  <2>2. conn[c].id \in points
    BY <1>0, <2>1 DEF OneHolder, Setting
  <2>3. \A i \in DOMAIN owners' : i = conn[c].id \/ (i \in DOMAIN owners /\ owners'[i] = owners[i])
    BY <2>1
  <2> QED BY <1>3, <2>1, <2>2, <2>3
<1> QED BY <1>1, <1>4, <1>5, <1>6, <1>7, <1>8, <1>9, <1>10, <1>11
        DEF LogNext, LogEmulatorStep, ConnStep, McpStep

\* What is being sent goes on being its connection's.
LEMMA ForThemKept ==
  ASSUME LogInv, ReportInv, LogNext
  PROVE  ForThem'
<1>0. /\ ReportTypes /\ OneDelivery /\ StillSet /\ OneHolder /\ LogTypes /\ OwnersList /\ InTurn /\ ForThem
      /\ flush \in Deliveries /\ flush.lines \in Seq(Line)
      /\ conn \in [Conns -> ConnRecord]
  BY DEF ReportInv, LogInv, LogTypes, ReportTypes, Deliveries, Ats
<1>1. CASE Sort
  <2> DEFINE console == [e \in Ears |-> Sorted(e)]
  <2>1. /\ flush.at = "sort" /\ flush' = [flush EXCEPT !.at = "send", !.console = console]
        /\ UNCHANGED <<conn, lists, points>>
    BY <1>1 DEF Sort, machine, dap
  <2>2. ~Idle
    BY <2>1 DEF Idle
  <2> HIDE DEF console
  <2>3. flush'.console = console /\ flush'.for = flush.for /\ flush'.lines = flush.lines
    BY <1>0, <2>1 DEF Deliveries
  <2>4. ASSUME NEW e \in Ears PROVE Sorted(e) \in Seq([n : Nat, life : Nat]) /\ ForEach(e)'
    <3> DEFINE c == e[1]
    <3>0. c \in Conns
      BY EarOf
    <3>1. /\ Sorted(e) \in Seq([n : Nat, life : Nat])
          /\ \A k \in 1..Len(Sorted(e)) : \E m \in 1..Len(flush.lines) :
               /\ Sorted(e)[k].n = flush.lines[m].n
               /\ flush.lines[m].id \in DOMAIN owners
               /\ owners[flush.lines[m].id].conn = c
               /\ Sorted(e)[k].life = conn[c].life
          /\ \A j, k \in 1..Len(Sorted(e)) : j < k => Sorted(e)[j].n < Sorted(e)[k].n
      BY <1>0, <2>2, SortedAre
    <3>2. flush'.console[e] = Sorted(e)
      BY <2>3 DEF console
    <3>3. ASSUME Sorted(e) # <<>> PROVE conn[c].at # "gone" /\ Awaited(c)
      <4>1. 1 \in 1..Len(Sorted(e))
        BY <3>1, <3>3, EmptySeq, LenProperties
      <4>2. PICK m \in 1..Len(flush.lines) : flush.lines[m].id \in DOMAIN owners /\ owners[flush.lines[m].id].conn = c
        BY <3>1, <4>1
      <4> DEFINE i == flush.lines[m].id
      <4>3. i \in Listing(c) /\ i \in DOMAIN owners /\ owners[i].conn = c
        BY <1>0, <4>2 DEF OwnersList, Owns
      <4>4. conn[c].at # "gone"
        BY <3>0, <4>3 DEF LogInv, Held
      <4>5. i \in points \/ flush.for = c
        BY <1>0, <2>1, <4>3 DEF StillSet
      <4> QED BY <4>3, <4>4, <4>5 DEF Awaited
    <3>4. Listing(c)' = Listing(c)
      BY <2>1 DEF Listing
    <3>5. Awaited(c) => Awaited(c)'
      BY <2>1, <2>3, <3>4 DEF Awaited
    <3> DEFINE its == Sorted(e)
    <3>6. its # <<>> => conn'[c].at # "gone" /\ Awaited(c)'
      BY <2>1, <3>3, <3>5
    <3>7. \A k \in 1..Len(its) : its[k].life = conn'[c].life /\ \E m \in 1..Len(flush'.lines) : its[k].n = flush'.lines[m].n
      <4> HIDE DEF its
      <4>1. conn' = conn /\ flush'.lines = flush.lines
        BY <2>1, <2>3
      <4> QED BY <3>1, <4>1 DEF its
    <3>8. flush'.console[e] = its /\ \A j, k \in 1..Len(its) : j < k => its[j].n < its[k].n
      BY <3>1, <3>2
    <3> HIDE DEF its
    <3>9. ForEach(e)'
      BY <3>6, <3>7, <3>8 DEF ForEach
    <3> QED BY <3>1, <3>9
  <2>5. console \in [Ears -> Seq([n : Nat, life : Nat])]
    BY <2>4 DEF console
  <2> QED BY <2>3, <2>4, <2>5 DEF ForThem
<1>2. ASSUME flush' = flush, flush.at = "send",
             \A c \in Conns : conn[c].at # "gone" /\ Awaited(c) =>
                                conn'[c].at # "gone" /\ Awaited(c)' /\ conn'[c].life = conn[c].life,
             \A e \in Ears : flush.console[e] = <<>> \/ (conn[e[1]].at # "gone" /\ Awaited(e[1]))
      PROVE  ForThem'
  <2>1. flush.console \in [Ears -> Seq([n : Nat, life : Nat])] /\ \A e \in Ears : ForEach(e)
    BY <1>0, <1>2 DEF ForThem
  <2>2. ASSUME NEW e \in Ears PROVE ForEach(e)'
    <3> DEFINE its == flush.console[e]
    <3>1. ForEach(e)
      BY <2>1
    <3>2. CASE its = <<>>
      <4>1. Len(its) = 0 /\ flush'.console[e] = its
        BY <1>2, <3>2, EmptySeq
      <4> QED BY <1>2, <3>2, <4>1 DEF ForEach
    <3>3. CASE its # <<>>
      BY <1>2, <3>1, <3>3, EarOf DEF ForEach
    <3> QED BY <3>2, <3>3
  <2> QED BY <1>2, <2>1, <2>2 DEF ForThem
<1>3. flush.at = "send" => \A e \in Ears : flush.console[e] = <<>> \/ (conn[e[1]].at # "gone" /\ Awaited(e[1]))
  BY <1>0 DEF ForThem, ForEach
<1>4. CASE flush'.at # "send"
  BY <1>4 DEF ForThem
<1>5. ASSUME UNCHANGED <<flush, conn, lists, points>> PROVE ForThem'
  <2>1. \A c \in Conns : Listing(c)' = Listing(c)
    BY <1>5 DEF Listing
  <2>2. \A c \in Conns : Awaited(c)' = Awaited(c)
    BY <1>5, <2>1 DEF Awaited
  <2>3. CASE flush.at = "send"
    BY <1>2, <1>3, <1>5, <2>2, <2>3
  <2>4. CASE flush.at # "send"
    BY <1>4, <1>5, <2>4
  <2> QED BY <2>3, <2>4
<1>6. CASE (\E i \in points : Hit(i)) \/ BeginRun \/ McpOwn \/ McpForget \/ GetLog \/ (McpClear /\ task.ids = {})
  <2>1. UNCHANGED <<flush, conn, lists, points>>
    BY <1>6 DEF Hit, BeginRun, McpOwn, McpForget, GetLog, McpClear, machine, dap
  <2> QED BY <1>5, <2>1
<1>7. CASE Progress \/ FinishRun \/ Send \/ Keep \/ LetGo \/ McpSet \/ (McpClear /\ task.ids # {})
           \/ \E c \in Conns : ClearOne(c) \/ SetOne(c)
  <2>1. CASE Send \/ Keep \/ LetGo
    <3>1. flush'.at \in {"keep", "done", "none"}
      <4>1. CASE Send
        BY <1>0, <4>1 DEF Send, Deliveries
      <4>2. CASE Keep
        BY <4>2 DEF Keep, NoFlush
      <4>3. CASE LetGo
        BY <4>3 DEF LetGo, NoFlush
      <4> QED BY <2>1, <4>1, <4>2, <4>3
    <3> QED BY <1>4, <3>1
  <2>2. ASSUME NEW who, Deliver(who) PROVE flush'.at # "send"
    BY <2>2 DEF Deliver, NoFlush
  <2>3. CASE Progress \/ FinishRun \/ McpSet \/ (McpClear /\ task.ids # {}) \/ \E c \in Conns : ClearOne(c) \/ SetOne(c)
    BY <1>4, <2>2, <2>3 DEF Progress, FinishRun, McpSet, McpClear, ClearOne, SetOne
  <2> QED BY <1>7, <2>1, <2>3
<1>8. ASSUME NEW c \in Conns, UNCHANGED <<flush, points>>, flush.at = "send",
             \A d \in Conns : d # c => conn'[d] = conn[d] /\ lists'[d] = lists[d],
             conn[c].at # "gone" /\ Awaited(c) =>
               conn'[c].at # "gone" /\ conn'[c].life = conn[c].life /\ \A i \in points : i \in Listing(c) => i \in Listing(c)'
      PROVE  ForThem'
  <2>1. \A d \in Conns : d # c => Listing(d)' = Listing(d)
    BY <1>8 DEF Listing
  <2>2. \A d \in Conns : d # c => Awaited(d)' = Awaited(d)
    BY <1>8, <2>1 DEF Awaited
  <2>3. conn[c].at # "gone" /\ Awaited(c) => Awaited(c)'
    BY <1>8 DEF Awaited
  <2>4. ASSUME NEW d \in Conns, conn[d].at # "gone" /\ Awaited(d)
        PROVE  conn'[d].at # "gone" /\ Awaited(d)' /\ conn'[d].life = conn[d].life
    BY <1>8, <2>2, <2>3, <2>4
  <2> QED BY <1>2, <1>3, <1>8, <2>4
<1>9. ASSUME NEW c \in Conns, flush.at = "send",
             Connect(c) \/ Dropped(c) \/ \E g \in Groups \cup {All} : Ask(c, g) PROVE ForThem'
  <2>1. /\ UNCHANGED <<flush, points, lists>>
        /\ \A d \in Conns : d # c => conn'[d] = conn[d]
    BY <1>0, <1>9 DEF Connect, Dropped, Ask, machine
  <2>2. Listing(c)' = Listing(c)
    BY <2>1 DEF Listing
  <2>3. ASSUME conn[c].at # "gone" /\ Awaited(c) PROVE conn'[c].at # "gone" /\ conn'[c].life = conn[c].life
    <3>1. CASE Connect(c)
      BY <2>3, <3>1 DEF Connect
    <3>2. CASE Dropped(c)
      <4>1. conn[c].at = "drop" /\ ToDrop(c) = {}
            /\ conn'[c] = Resting(IF conn[c].group = All THEN "gone" ELSE "idle", conn[c].life)
        BY <1>0, <3>2 DEF Dropped
      <4>2. Listing(c) # {}
        BY <2>3, <4>1 DEF Awaited, LogInv, Held
      <4>3. conn[c].group # All
        BY <4>1, <4>2, DropsListed
      <4> QED BY <4>1, <4>3 DEF Resting
    <3>3. ASSUME NEW g \in Groups \cup {All}, Ask(c, g) PROVE conn'[c].at # "gone" /\ conn'[c].life = conn[c].life
      BY <1>0, <3>3 DEF Ask, ConnRecord
    <3> QED BY <1>9, <3>1, <3>2, <3>3
  <2> QED BY <1>8, <1>9, <2>1, <2>2, <2>3
<1>10. ASSUME NEW c \in Conns, flush.at = "send", Disown(c) PROVE ForThem'
  <2>1. /\ conn[c].at = "disown" /\ conn' = [conn EXCEPT ![c].at = "drop", ![c].id = 0]
        /\ lists' = [lists EXCEPT ![c] = [g \in Groups |-> lists[c][g] \ {conn[c].id}]]
        /\ UNCHANGED <<points, flush>>
    BY <1>10 DEF Disown, Unlist, machine
  <2>2. conn'[c].at = "drop" /\ conn'[c].life = conn[c].life /\ \A d \in Conns : d # c => conn'[d] = conn[d]
    BY <1>0, <2>1, Moves DEF Places
  <2>3. conn[c].id \notin points
    BY <2>1 DEF LogInv, Held
  <2>4. (\A d \in Conns : d # c => lists'[d] = lists[d]) /\ Listing(c)' = Listing(c) \ {conn[c].id}
    BY <1>0, <2>1 DEF Listing, LogTypes
  <2> QED BY <1>8, <1>10, <2>1, <2>2, <2>3, <2>4
<1>11. ASSUME NEW c \in Conns, flush.at = "send", Own(c) PROVE ForThem'
  <2> DEFINE i == conn[c].id
             group == conn[c].group
  <2>1. /\ conn' = [conn EXCEPT ![c] = Resting("idle", conn[c].life)]
        /\ lists' = [lists EXCEPT ![c][group] = lists[c][group] \cup {i}]
        /\ UNCHANGED <<points, flush>>
    BY <1>11 DEF Own, machine
  <2>2. conn'[c].at = "idle" /\ conn'[c].life = conn[c].life /\ \A d \in Conns : d # c => conn'[d] = conn[d]
    BY <1>0, <2>1 DEF Resting
  <2>3. \A d \in Conns : d # c => lists'[d] = lists[d]
    BY <1>0, <2>1 DEF LogTypes
  <2>4. \A g \in Groups : lists[c][g] \subseteq lists'[c][g]
    <3> HIDE DEF i, group
    <3> QED BY <1>0, <2>1 DEF LogTypes
  <2>5. Listing(c) \subseteq Listing(c)'
    BY <2>4 DEF Listing
  <2> QED BY <1>8, <1>11, <2>1, <2>2, <2>3, <2>5
<1>12. ASSUME NEW c \in Conns, Connect(c) \/ Dropped(c) \/ Disown(c) \/ Own(c) \/ \E g \in Groups \cup {All} : Ask(c, g)
       PROVE  ForThem'
  <2>1. CASE flush.at = "send"
    BY <1>9, <1>10, <1>11, <1>12, <2>1
  <2>2. CASE flush.at # "send"
    <3>1. flush' = flush
      BY <1>12 DEF Connect, Dropped, Disown, Own, Ask, machine
    <3> QED BY <1>4, <2>2, <3>1
  <2> QED BY <2>1, <2>2
<1> QED BY <1>1, <1>6, <1>7, <1>12 DEF LogNext, LogEmulatorStep, ConnStep, McpStep

-----------------------------------------------------------------------------
(* What MCP's reader is owed.                                              *)

\* The lines a reader has before it, what it has lost, and what it is told it lost.
Readable(n) == \E i \in 1..Len(mcp.lines) : mcp.lines[i].seq >= reader /\ mcp.lines[i].n = n
Coming(n) == \E k \in 1..Len(OnTheWay) : OnTheWay[k].n = n
Missing(n) == (\E o \in owed : o.n = n) /\ ~Coming(n) /\ ~Readable(n)
Lost == {n \in 0..serial : Missing(n)}
Count == mcp.dropped + dropped + flush.dropped

LEMMA CountIs == ReportTypes /\ OneDelivery /\ OwedItsOwn => (LossesAreCounted <=> Cardinality(Lost) <= Count)
<1> SUFFICES ASSUME ReportTypes, OneDelivery, OwedItsOwn
             PROVE  LossesAreCounted <=> Cardinality(Lost) <= Count
  OBVIOUS
<1> DEFINE coming == Past(waiting) \cup (IF flush.at \in {"sort", "send", "keep"} THEN Past(flush.lines) ELSE {})
           readable == Past(Unread(reader))
           lost == {o.n : o \in owed} \ (coming \cup readable)
<1>1. DOMAIN waiting = 1..Len(waiting) /\ DOMAIN flush.lines = 1..Len(flush.lines) /\ Len(<<>>) = 0
  BY LenProperties, EmptySeq DEF ReportTypes
<1>2. \A n : n \in coming <=> Coming(n)
  <2>1. CASE Idle
    <3>1. coming = Past(waiting) /\ OnTheWay = waiting
      BY <2>1 DEF OnTheWay, Idle
    <3>2. \A n : n \in Past(waiting) <=> \E k \in 1..Len(waiting) : waiting[k].n = n
      BY <1>1 DEF Past
    <3> QED BY <3>1, <3>2 DEF Coming
  <2>2. CASE ~Idle
    <3>1. waiting = <<>> /\ (flush.at = "done" => flush.lines = <<>>) /\ flush.at \in {"sort", "send", "keep", "done"}
      BY <2>2 DEF OneDelivery, ReportTypes, Idle
    <3>2. Past(<<>>) = {}
      BY <1>1 DEF Past
    <3>3. coming = Past(flush.lines) /\ OnTheWay = flush.lines
      BY <2>2, <3>1, <3>2 DEF OnTheWay
    <3>4. \A n : n \in Past(flush.lines) <=> \E k \in 1..Len(flush.lines) : flush.lines[k].n = n
      BY <1>1 DEF Past
    <3> QED BY <3>3, <3>4 DEF Coming
  <2> QED BY <2>1, <2>2
<1>3. ASSUME NEW n PROVE n \in readable <=> Readable(n)
  <2> PICK r : r = Unread(reader)
    OBVIOUS
  <2>1. r \in Seq(Entry) /\ LinesFrom(r, reader)
    BY UnreadIs DEF ReportTypes
  <2>2. DOMAIN r = 1..Len(r)
    BY <2>1, LenProperties
  <2>3. n \in readable <=> \E k \in 1..Len(r) : r[k].n = n
    <3>1. readable = Past(r)
      OBVIOUS
    <3>2. Past(r) = {r[k].n : k \in 1..Len(r)}
      BY <2>2 DEF Past
    <3> HIDE DEF readable
    <3> QED BY <3>1, <3>2
  <2>4. ASSUME NEW k \in 1..Len(r), r[k].n = n PROVE Readable(n)
    <3>1. PICK i \in 1..Len(mcp.lines) : mcp.lines[i].seq >= reader /\ r[k] = mcp.lines[i]
      BY <2>1 DEF LinesFrom
    <3> QED BY <2>4, <3>1 DEF Readable
  <2>5. ASSUME Readable(n) PROVE \E k \in 1..Len(r) : r[k].n = n
    <3>1. PICK i \in 1..Len(mcp.lines) : mcp.lines[i].seq >= reader /\ mcp.lines[i].n = n
      BY <2>5 DEF Readable
    <3>2. PICK k \in 1..Len(r) : r[k] = mcp.lines[i]
      BY <2>1, <3>1 DEF LinesFrom
    <3> QED BY <3>1, <3>2
  <2> QED BY <2>3, <2>4, <2>5
<1>4. lost = Lost
  <2> HIDE DEF coming, readable
  <2>1. \A o \in owed : o.n \in 0..serial
    BY DEF OwedItsOwn, ReportTypes, Line
  <2> QED BY <1>2, <1>3, <2>1 DEF Lost, Missing
<1>5. LossesAreCounted <=> Cardinality(lost) <= Count
  BY DEF LossesAreCounted, Count
<1> HIDE DEF lost
<1> QED BY <1>4, <1>5

\* No more is lost than more is told.
LEMMA MoreLost ==
  ASSUME ReportTypes, serial' \in Nat, Cardinality(Lost) <= Count, NEW more, IsFiniteSet(more), Lost' \subseteq Lost \cup more,
         NEW d \in Nat, Cardinality(more) <= d, Count' = Count + d
  PROVE  Cardinality(Lost') <= Count'
<1>1. IsFiniteSet(Lost) /\ Count \in Nat
  <2>1. \A n \in Lost : n \in Nat /\ n <= serial
    BY DEF Lost, ReportTypes
  <2>2. Lost \in SUBSET Nat /\ serial \in Nat
    BY <2>1 DEF ReportTypes
  <2>3. IsFiniteSet(Lost)
    BY <2>1, <2>2, FS_BoundedSetOfNaturals
  <2> QED BY <2>3 DEF Count, ReportTypes
<1>2. /\ IsFiniteSet(Lost \cup more)
      /\ Cardinality(Lost \cup more) = Cardinality(Lost) + Cardinality(more) - Cardinality(Lost \cap more)
  BY <1>1, FS_Union
<1>3. Cardinality(Lost') <= Cardinality(Lost \cup more)
  BY <1>2, FS_Subset
<1>4. IsFiniteSet(Lost \cap more) /\ IsFiniteSet(Lost')
  BY <1>1, <1>2, FS_Subset
<1>5. Cardinality(Lost \cap more) \in Nat /\ Cardinality(Lost) \in Nat /\ Cardinality(more) \in Nat /\ Cardinality(Lost') \in Nat
  BY <1>1, <1>4, FS_CardinalityType
<1> QED BY <1>1, <1>2, <1>3, <1>5

LEMMA NoneLost ==
  ASSUME ReportTypes, serial' \in Nat, Cardinality(Lost) <= Count, Lost' \subseteq Lost, Count' = Count
  PROVE  Cardinality(Lost') <= Count'
<1>1. IsFiniteSet({}) /\ Cardinality({}) = 0 /\ Lost' \subseteq Lost \cup {}
  BY FS_EmptySet
<1>2. Count \in Nat /\ Count' = Count + 0
  BY DEF Count, ReportTypes
<1> QED BY <1>1, <1>2, MoreLost

\* The numbers of some lines are no more than the lines.
LEMMA NumbersOf ==
  ASSUME NEW m, NEW d \in Nat
  PROVE  LET T == {m[k].n : k \in 1..d} IN IsFiniteSet(T) /\ Cardinality(T) <= d
<1> DEFINE T == {m[k].n : k \in 1..d}
           f == [k \in 1..d |-> m[k].n]
<1>1. IsFiniteSet(1..d) /\ Cardinality(1..d) = d
  BY FS_Interval
<1>2. f \in Surjection(1..d, T)
  BY DEF Surjection
<1> HIDE DEF f, T
<1>3. IsFiniteSet(T) /\ Cardinality(T) <= Cardinality(1..d)
  BY <1>1, <1>2, FS_Surjection
<1> QED BY <1>1, <1>3 DEF T

\* The log with a delivery's lines is still in order.
LEMMA MineInOrder ==
  ASSUME ReportTypes, LogInOrder(mcp.lines, mcp.next), NEW m, m = Mine
  PROVE  LogInOrder(m, mcp.next + (Len(m) - Len(mcp.lines)))
<1> DEFINE old == mcp.lines
           l == Len(old)
           next == mcp.next
<1>1. /\ m \in Seq(Entry) /\ Len(m) \in Nat /\ l \in Nat /\ l <= Len(m) /\ next \in Nat
      /\ \A i \in 1..l : m[i] = old[i]
      /\ \A i \in (l + 1)..Len(m) : m[i].seq = next + (i - l) - 1
  BY MineIs DEF ReportTypes
<1>2. \A i \in 1..l : old[i] \in Entry
  BY ElementOfSeq DEF ReportTypes, Entry
<1>3. \A i \in 1..l : old[i].seq < next /\ old[i].seq \in Nat /\ \A j \in 1..l : i < j => old[i].seq < old[j].seq
  BY <1>2 DEF LogInOrder, Entry
<1> HIDE DEF l, old, next
<1> DEFINE top == next + (Len(m) - l)
<1>4. ASSUME NEW i \in 1..Len(m)
      PROVE  m[i].seq < top /\ \A j \in 1..Len(m) : i < j => m[i].seq < m[j].seq
  <2>1. CASE i \in 1..l
    <3>1. m[i].seq < next /\ m[i].seq \in Nat
      BY <1>1, <1>3, <2>1
    <3>2. m[i].seq < top
      BY <1>1, <3>1
    <3>3. ASSUME NEW j \in 1..Len(m), i < j PROVE m[i].seq < m[j].seq
      <4>1. CASE j \in 1..l
        BY <1>1, <1>3, <2>1, <3>3, <4>1
      <4>2. CASE j \notin 1..l
        <5>1. j \in (l + 1)..Len(m)
          BY <1>1, <4>2
        <5>2. m[j].seq = next + (j - l) - 1
          BY <1>1, <5>1
        <5> QED BY <1>1, <3>1, <5>1, <5>2
      <4> QED BY <4>1, <4>2
    <3> QED BY <3>2, <3>3
  <2>2. CASE i \notin 1..l
    <3>1. i \in (l + 1)..Len(m)
      BY <1>1, <2>2
    <3>2. m[i].seq = next + (i - l) - 1
      BY <1>1, <3>1
    <3>3. m[i].seq < top
      BY <1>1, <3>1, <3>2
    <3>4. ASSUME NEW j \in 1..Len(m), i < j PROVE m[i].seq < m[j].seq
      <4>1. j \in (l + 1)..Len(m)
        BY <1>1, <3>1, <3>4
      <4>2. m[j].seq = next + (j - l) - 1
        BY <1>1, <4>1
      <4> QED BY <1>1, <3>1, <3>2, <3>4, <4>1, <4>2
    <3> QED BY <3>3, <3>4
  <2> QED BY <2>1, <2>2
<1>5. LogInOrder(m, top)
  <2> HIDE DEF top
  <2> QED BY <1>4 DEF LogInOrder
<1> QED BY <1>5 DEF l, old, next

\* So are its newest.
LEMMA LatestInOrder ==
  ASSUME NEW m \in Seq(Entry), NEW top, LogInOrder(m, top), NEW r, r = Latest(m)
  PROVE  LogInOrder(r, top)
<1>1. /\ Len(r) \in Nat /\ Len(m) \in Nat /\ Len(m) - Len(r) \in Nat
      /\ \A i \in 1..Len(r) : r[i] = m[i + (Len(m) - Len(r))]
  BY LatestIs
<1> DEFINE d == Len(m) - Len(r)
<1>2. \A i \in 1..Len(r) : i + d \in 1..Len(m) /\ r[i] = m[i + d]
  BY <1>1
<1>3. \A i, j \in 1..Len(r) : i < j => i + d < j + d
  BY <1>1
<1> HIDE DEF d
<1> QED BY <1>2, <1>3 DEF LogInOrder

\* Each step keeps what is owed MCP's own, and the log in order.
LEMMA OwingKept ==
  ASSUME LogInv, ReportInv, LogNext
  PROVE  Owing'
<1>0. /\ ReportTypes /\ OneDelivery /\ InTurn /\ OwedItsOwn /\ LogInOrder(mcp.lines, mcp.next) /\ reader <= mcp.next
      /\ owed \subseteq Line /\ serial \in Nat /\ reader \in Nat /\ mcp.next \in Nat /\ waiting \in Seq(Line)
      /\ mcp \in [ids : SUBSET Nat, lines : Seq(Entry), next : Nat, dropped : Nat]
  BY DEF ReportInv, ReportTypes, Owing, Entry
<1>1. ASSUME owed' \subseteq owed, mcp.ids \subseteq mcp'.ids \/ owed' = {}, serial' = serial, OnTheWay' = OnTheWay \/ OnTheWay' = <<>>
      PROVE  OwedItsOwn'
  <2> SUFFICES ASSUME NEW o \in owed'
               PROVE  /\ o.id \in mcp'.ids /\ o.n <= serial'
                      /\ \A k \in 1..Len(OnTheWay') : OnTheWay'[k].n = o.n => OnTheWay'[k].id = o.id
    BY DEF OwedItsOwn
  <2>1. /\ o.id \in mcp.ids /\ o.n <= serial
        /\ \A k \in 1..Len(OnTheWay) : OnTheWay[k].n = o.n => OnTheWay[k].id = o.id
    BY <1>0, <1>1 DEF OwedItsOwn
  <2>2. o.id \in mcp'.ids /\ o.n <= serial'
    BY <1>1, <2>1
  <2>3. CASE OnTheWay' = OnTheWay
    BY <2>1, <2>2, <2>3
  <2>4. CASE OnTheWay' = <<>>
    <3>1. Len(OnTheWay') = 0
      BY <2>4, EmptySeq
    <3> QED BY <2>2, <3>1
  <2> QED BY <1>1, <2>3, <2>4
<1>2. ASSUME owed' \subseteq owed, serial' = serial, OnTheWay' = OnTheWay \/ OnTheWay' = <<>>,
             mcp'.lines = mcp.lines, mcp'.next = mcp.next, mcp.ids \subseteq mcp'.ids \/ owed' = {}, reader' <= mcp.next
      PROVE  Owing'
  BY <1>0, <1>1, <1>2 DEF Owing
<1>3. ASSUME NEW x \in points, Hit(x) PROVE Owing'
  <2> DEFINE l == [id |-> x, n |-> serial + 1]
  <2>1. /\ Idle /\ serial' = serial + 1 /\ UNCHANGED <<flush, mcp, reader>> /\ OnTheWay = waiting /\ OnTheWay' = waiting'
        /\ (waiting' = waiting \/ waiting' = Append(waiting, l))
        /\ owed' = (IF x \in mcp.ids THEN owed \cup {l} ELSE owed)
    BY <1>3 DEF Hit, OnTheWay, Idle
  <2>2. l \in Line /\ l.n = serial + 1 /\ l.id = x
    BY <1>0 DEF LogInv, GivenOut, Line
  <2> HIDE DEF l
  <2>3. /\ Len(waiting) \in Nat
        /\ \A k \in 1..Len(waiting) : waiting[k] \in Line /\ waiting[k].n <= serial
    BY <1>0, <2>1, LenProperties, ElementOfSeq DEF InTurn
  <2>4. ASSUME NEW k \in 1..Len(waiting')
        PROVE  waiting'[k] = l \/ (k \in 1..Len(waiting) /\ waiting'[k] = waiting[k])
    <3>1. CASE waiting' = waiting
      BY <3>1
    <3>2. CASE waiting' = Append(waiting, l)
      <4>1. /\ Len(waiting') = Len(waiting) + 1 /\ waiting'[Len(waiting) + 1] = l
            /\ \A i \in 1..Len(waiting) : waiting'[i] = waiting[i]
        BY <1>0, <2>2, <3>2, AppendProperties
      <4>2. k = Len(waiting) + 1 \/ k \in 1..Len(waiting)
        BY <2>3, <4>1
      <4> QED BY <4>1, <4>2
    <3> QED BY <2>1, <3>1, <3>2
  <2>5. ASSUME NEW o \in owed'
        PROVE  /\ o.id \in mcp.ids /\ o.n <= serial'
               /\ \A k \in 1..Len(waiting') : waiting'[k].n = o.n => waiting'[k].id = o.id
    <3>1. CASE o = l
      <4>1. x \in mcp.ids
        <5>1. l \in owed => l.n <= serial
          BY <1>0 DEF OwedItsOwn
        <5> QED BY <1>0, <2>1, <2>2, <3>1, <5>1
      <4>2. ASSUME NEW k \in 1..Len(waiting'), waiting'[k].n = l.n PROVE waiting'[k].id = l.id
        <5>1. CASE waiting'[k] = l
          BY <5>1
        <5>2. CASE k \in 1..Len(waiting) /\ waiting'[k] = waiting[k]
          <6>1. waiting[k].n \in Nat /\ waiting[k].n <= serial
            BY <2>3, <5>2 DEF Line
          <6> QED BY <1>0, <2>2, <4>2, <5>2, <6>1
        <5> QED BY <2>4, <5>1, <5>2
      <4> QED BY <1>0, <2>1, <2>2, <3>1, <4>1, <4>2
    <3>2. CASE o \in owed
      <4>1. o.id \in mcp.ids /\ o.n <= serial /\ o.n \in Nat /\ \A k \in 1..Len(waiting) : waiting[k].n = o.n => waiting[k].id = o.id
        BY <1>0, <2>1, <3>2 DEF OwedItsOwn, Line
      <4>2. ASSUME NEW k \in 1..Len(waiting'), waiting'[k].n = o.n PROVE waiting'[k].id = o.id
        <5>1. waiting'[k] # l
          BY <1>0, <2>2, <4>1, <4>2
        <5> QED BY <2>4, <4>1, <4>2, <5>1
      <4> QED BY <1>0, <2>1, <4>1, <4>2
    <3> QED BY <2>1, <3>1, <3>2
  <2>6. OwedItsOwn'
    BY <2>1, <2>5 DEF OwedItsOwn
  <2> QED BY <1>0, <2>1, <2>6 DEF Owing
<1>4. ASSUME NEW who \in Conns \cup {Mcp, Run, None}, Idle, Deliver(who), UNCHANGED <<mcp, reader, serial, owed>> PROVE Owing'
  <2>1. OnTheWay' = OnTheWay
    BY <1>0, <1>4, DeliverIs
  <2> QED BY <1>0, <1>2, <1>4, <2>1
<1>5. CASE Sort \/ Send
  <2>1. UNCHANGED <<mcp, reader, serial, owed>> /\ ~Idle
    BY <1>5 DEF Sort, Send, history, Idle
  <2>2. ~Idle' /\ flush'.lines = flush.lines
    <3>0. flush \in Deliveries
      BY <1>0 DEF ReportTypes, Deliveries, Ats
    <3>1. CASE Sort
      <4> DEFINE console == [e \in Ears |-> Sorted(e)]
      <4>1. flush' = [flush EXCEPT !.at = "send", !.console = console]
        BY <3>1 DEF Sort
      <4> HIDE DEF console
      <4> QED BY <3>0, <4>1 DEF Deliveries, Idle
    <3>2. CASE Send
      BY <3>0, <3>2 DEF Send, Deliveries, Idle
    <3> QED BY <1>5, <3>1, <3>2
  <2>3. OnTheWay' = OnTheWay
    BY <2>1, <2>2 DEF OnTheWay
  <2> QED BY <1>0, <1>2, <2>1, <2>3
<1>6. CASE Keep
  <2> DEFINE m == Mine
             next == mcp.next + Len(m) - Len(mcp.lines)
  <2>1. /\ OnTheWay' = <<>> /\ UNCHANGED <<reader, serial, owed>>
        /\ mcp' = [mcp EXCEPT !.lines = Latest(m), !.next = next,
                              !.dropped = @ + flush.dropped + (Len(m) - Len(Latest(m)))]
    BY <1>6 DEF Keep, NoFlush, OnTheWay, Idle, history
  <2>2. m \in Seq(Entry) /\ Len(m) \in Nat /\ Len(mcp.lines) \in Nat /\ Len(mcp.lines) <= Len(m)
    BY <1>0, MineIs
  <2>3. LogInOrder(m, mcp.next + (Len(m) - Len(mcp.lines)))
    BY <1>0, MineInOrder
  <2> HIDE DEF m
  <2>4. next = mcp.next + (Len(m) - Len(mcp.lines)) /\ mcp.next <= next
    BY <1>0, <2>2
  <2> HIDE DEF next
  <2>5. LogInOrder(Latest(m), next)
    BY <2>2, <2>3, <2>4, LatestInOrder
  <2>6. mcp'.lines = Latest(m) /\ mcp'.next = next /\ mcp'.ids = mcp.ids
    BY <1>0, <2>1
  <2>7. reader' <= next
    BY <1>0, <2>1, <2>2, <2>4 DEF next
  <2>8. OwedItsOwn'
    BY <1>1, <2>1, <2>6
  <2> QED BY <2>5, <2>6, <2>7, <2>8 DEF Owing
<1>7. CASE LetGo
  <2>1. UNCHANGED <<waiting, mcp, reader, serial, owed>> /\ flush' = NoFlush /\ flush.at = "done"
    BY <1>7 DEF LetGo, machine, history
  <2>2. waiting = <<>> /\ OnTheWay' = <<>>
    BY <1>0, <2>1 DEF OneDelivery, OnTheWay, Idle, NoFlush
  <2> QED BY <1>0, <1>2, <2>1, <2>2
<1>8. CASE BeginRun \/ McpOwn \/ McpForget \/ (McpClear /\ task.ids = {})
           \/ \E c \in Conns : Connect(c) \/ Disown(c) \/ Own(c) \/ Dropped(c) \/ \E g \in Groups \cup {All} : Ask(c, g)
  <2>1. UNCHANGED <<waiting, flush, reader, serial>> /\ owed' \subseteq owed
    BY <1>8 DEF BeginRun, McpOwn, McpForget, McpClear, Connect, Disown, Own, Dropped, Ask, machine, history
  <2>2. mcp'.lines = mcp.lines /\ mcp'.next = mcp.next /\ (mcp.ids \subseteq mcp'.ids \/ owed' = {})
    <3>1. CASE McpOwn
      BY <1>0, <3>1 DEF McpOwn
    <3>2. CASE McpForget
      BY <1>0, <3>2 DEF McpForget
    <3>3. CASE ~McpOwn /\ ~McpForget
      <4>1. mcp' = mcp
        BY <1>8, <3>3 DEF BeginRun, McpClear, Connect, Disown, Own, Dropped, Ask
      <4> QED BY <4>1
    <3> QED BY <3>1, <3>2, <3>3
  <2>3. OnTheWay' = OnTheWay
    BY <2>1 DEF OnTheWay, Idle
  <2> QED BY <1>0, <1>2, <2>1, <2>2, <2>3
<1>9. CASE GetLog
  <2> PICK due : due = Unread(reader)
    OBVIOUS
  <2>1. UNCHANGED <<waiting, flush, mcp, serial>> /\ owed' \subseteq owed
        /\ reader' = IF Len(due) > Page THEN due[Page + 1].seq ELSE mcp.next
    BY <1>9 DEF GetLog, machine
  <2>2. due \in Seq(Entry) /\ LinesFrom(due, reader)
    BY <1>0, UnreadIs
  <2>3. Len(due) \in Nat /\ Page \in Nat \ {0}
    BY <2>2, LenProperties, LogpointsAssumption
  <2>4. ASSUME Len(due) > Page PROVE due[Page + 1].seq <= mcp.next
    <3>1. Page + 1 \in 1..Len(due)
      BY <2>3, <2>4
    <3>2. PICK i \in 1..Len(mcp.lines) : due[Page + 1] = mcp.lines[i]
      BY <2>2, <3>1 DEF LinesFrom
    <3>3. mcp.lines[i] \in Entry /\ mcp.lines[i].seq < mcp.next
      BY <1>0, ElementOfSeq DEF LogInOrder
    <3> QED BY <1>0, <3>2, <3>3 DEF Entry
  <2>5. reader' <= mcp.next
    BY <1>0, <2>1, <2>4
  <2>6. OnTheWay' = OnTheWay
    BY <2>1 DEF OnTheWay, Idle
  <2> QED BY <1>2, <2>1, <2>5, <2>6
<1>10. CASE Progress \/ FinishRun \/ McpSet \/ (McpClear /\ task.ids # {})
            \/ \E c \in Conns : ClearOne(c) \/ SetOne(c)
  <2>1. \E who \in Conns \cup {Mcp, Run, None} : Idle /\ Deliver(who) /\ UNCHANGED <<mcp, reader, serial, owed>>
    BY <1>10 DEF Progress, FinishRun, McpSet, McpClear, ClearOne, SetOne, history
  <2> QED BY <1>4, <2>1
<1> QED BY <1>3, <1>5, <1>6, <1>7, <1>8, <1>9, <1>10 DEF LogNext, LogEmulatorStep, ConnStep, McpStep

\* Each step keeps what is lost counted.
LEMMA LossesKept ==
  ASSUME LogInv, ReportInv, LogNext
  PROVE  Cardinality(Lost') <= Count'
<1>0. /\ ReportTypes /\ OneDelivery /\ InTurn /\ OwedItsOwn /\ LogInOrder(mcp.lines, mcp.next) /\ reader <= mcp.next
      /\ owed \subseteq Line /\ serial \in Nat /\ reader \in Nat /\ mcp.next \in Nat /\ waiting \in Seq(Line) /\ dropped \in Nat
      /\ mcp \in [ids : SUBSET Nat, lines : Seq(Entry), next : Nat, dropped : Nat]
      /\ flush \in Deliveries
  BY DEF ReportInv, ReportTypes, Owing, Entry, Deliveries, Ats
<1>c. Cardinality(Lost) <= Count
  BY <1>0, CountIs DEF ReportInv
<1>1. ASSUME serial' = serial, owed' \subseteq owed, OnTheWay' = OnTheWay, reader' = reader,
             mcp'.lines = mcp.lines, Count' = Count
      PROVE  Cardinality(Lost') <= Count'
  <2>1. \A n : (Coming(n) => Coming(n)') /\ (Readable(n) => Readable(n)')
    BY <1>1 DEF Coming, Readable
  <2>2. Lost' \subseteq Lost
    BY <1>1, <2>1 DEF Lost, Missing
  <2> QED BY <1>0, <1>1, <1>c, <2>2, NoneLost
<1>2. ASSUME NEW x \in points, Hit(x) PROVE Cardinality(Lost') <= Count'
  <2> DEFINE l == [id |-> x, n |-> serial + 1]
  <2>1. /\ Idle /\ serial' = serial + 1 /\ UNCHANGED <<flush, mcp, reader>> /\ OnTheWay = waiting /\ OnTheWay' = waiting'
        /\ \/ waiting' = waiting /\ dropped' = dropped + 1
           \/ waiting' = Append(waiting, l) /\ dropped' = dropped
        /\ owed' = (IF x \in mcp.ids THEN owed \cup {l} ELSE owed)
    BY <1>2 DEF Hit, OnTheWay, Idle
  <2>2. l \in Line /\ l.n = serial + 1
    BY <1>0 DEF LogInv, GivenOut, Line
  <2> HIDE DEF l
  <2>3. \A n : Readable(n) => Readable(n)'
    BY <2>1 DEF Readable
  <2>4. \A o \in owed' : o = l \/ o \in owed
    BY <2>1
  <2>5. \A n : Coming(n) => Coming(n)'
    <3>1. CASE waiting' = waiting
      BY <2>1, <3>1 DEF Coming
    <3>2. CASE waiting' = Append(waiting, l)
      <4>1. /\ Len(waiting) \in Nat /\ Len(waiting') = Len(waiting) + 1
            /\ \A i \in 1..Len(waiting) : waiting'[i] = waiting[i]
        BY <1>0, <2>2, <3>2, AppendProperties, LenProperties
      <4>2. \A i \in 1..Len(waiting) : i \in 1..Len(waiting')
        BY <4>1
      <4> QED BY <2>1, <4>1, <4>2 DEF Coming
    <3> QED BY <2>1, <3>1, <3>2
  <2>6. \A o \in owed : o.n \in 0..serial
    BY <1>0 DEF OwedItsOwn, Line
  <2>7. Lost' \subseteq Lost \cup {serial + 1}
    <3> SUFFICES ASSUME NEW n \in Lost', n # serial + 1 PROVE n \in Lost
      OBVIOUS
    <3>1. Missing(n)'
      BY DEF Lost
    <3>2. PICK o \in owed' : o.n = n
      BY <3>1 DEF Missing
    <3>3. o \in owed
      BY <2>2, <2>4, <3>2
    <3>4. Missing(n)
      BY <2>3, <2>5, <3>1, <3>2, <3>3 DEF Missing
    <3> QED BY <2>6, <3>2, <3>3, <3>4 DEF Lost
  <2>8. CASE waiting' = waiting /\ dropped' = dropped + 1
    <3>1. IsFiniteSet({serial + 1}) /\ Cardinality({serial + 1}) <= 1
      <4>1. IsFiniteSet({serial + 1}) /\ Cardinality({serial + 1}) = 1
        BY FS_Singleton
      <4> QED BY <4>1
    <3>2. Count' = Count + 1
      BY <1>0, <2>1, <2>8 DEF Count, Deliveries
    <3>3. serial' \in Nat
      BY <1>0, <2>1
    <3> QED BY <1>0, <1>c, <2>7, <3>1, <3>2, <3>3, MoreLost
  <2>9. CASE waiting' = Append(waiting, l) /\ dropped' = dropped
    <3> PICK s : s = serial + 1
      OBVIOUS
    <3>1. Coming(s)'
      <4>1. Len(waiting) + 1 \in 1..Len(waiting') /\ waiting'[Len(waiting) + 1] = l
        BY <1>0, <2>2, <2>9, AppendProperties, LenProperties
      <4> QED BY <2>1, <2>2, <4>1 DEF Coming
    <3>2. Lost' \subseteq Lost
      BY <2>7, <3>1 DEF Lost, Missing
    <3>3. Count' = Count /\ serial' \in Nat
      BY <1>0, <2>1, <2>9 DEF Count
    <3> QED BY <1>0, <1>c, <3>2, <3>3, NoneLost
  <2> QED BY <2>1, <2>8, <2>9
<1>3. ASSUME NEW who \in Conns \cup {Mcp, Run, None}, Idle, Deliver(who), UNCHANGED <<mcp, reader, serial, owed>>
      PROVE  Cardinality(Lost') <= Count'
  <2>1. OnTheWay' = OnTheWay /\ flush'.dropped = dropped /\ dropped' = 0
    BY <1>0, <1>3, DeliverIs
  <2>2. flush.dropped = 0
    BY <1>0, <1>3 DEF OneDelivery, NoFlush
  <2>3. Count' = Count
    BY <1>0, <1>3, <2>1, <2>2 DEF Count
  <2> QED BY <1>1, <1>3, <2>1, <2>3
<1>4. CASE Sort \/ Send
  <2>1. UNCHANGED <<mcp, reader, serial, owed, dropped>> /\ ~Idle
    BY <1>4 DEF Sort, Send, history, machine, Idle
  <2>2. ~Idle' /\ flush'.lines = flush.lines /\ flush'.dropped = flush.dropped
    <3>1. CASE Sort
      <4> DEFINE console == [e \in Ears |-> Sorted(e)]
      <4>1. flush' = [flush EXCEPT !.at = "send", !.console = console]
        BY <3>1 DEF Sort
      <4> HIDE DEF console
      <4> QED BY <1>0, <4>1 DEF Deliveries, Idle
    <3>2. CASE Send
      BY <1>0, <3>2 DEF Send, Deliveries, Idle
    <3> QED BY <1>4, <3>1, <3>2
  <2>3. OnTheWay' = OnTheWay /\ Count' = Count
    BY <2>1, <2>2 DEF OnTheWay, Count
  <2> QED BY <1>1, <2>1, <2>3
<1>5. CASE Keep
  <2> PICK m : m = Mine
    OBVIOUS
  <2> PICK r : r = Latest(m)
    OBVIOUS
  <2> DEFINE d == Len(m) - Len(r)
             old == mcp.lines
             l == Len(old)
  <2>1. /\ flush.at = "keep" /\ UNCHANGED <<reader, serial, owed, waiting, dropped>> /\ flush'.dropped = 0
        /\ mcp' = [mcp EXCEPT !.lines = r, !.next = @ + Len(m) - Len(mcp.lines), !.dropped = @ + flush.dropped + d]
    BY <1>5 DEF Keep, NoFlush, history, machine
  <2>2. /\ m \in Seq(Entry) /\ Len(m) \in Nat /\ l \in Nat /\ l <= Len(m)
        /\ \A i \in 1..l : m[i] = old[i]
        /\ \A i \in (l + 1)..Len(m) : m[i].seq = mcp.next + (i - l) - 1
        /\ \A k \in 1..Len(flush.lines) : flush.lines[k].id \in mcp.ids =>
             \E i \in (l + 1)..Len(m) : m[i].n = flush.lines[k].n
    BY <1>0, MineIs
  <2>3. d \in Nat /\ Len(r) \in Nat /\ \A i \in 1..Len(r) : r[i] = m[i + d]
    BY <2>2, LatestIs
  <2>4. mcp'.lines = r /\ mcp'.dropped = mcp.dropped + flush.dropped + d
    <3> HIDE DEF d
    <3> QED BY <1>0, <2>1
  <2>5. Count' = Count + d
    <3> HIDE DEF d
    <3>1. flush.dropped \in Nat /\ mcp.dropped \in Nat
      BY <1>0 DEF Deliveries
    <3> QED BY <1>0, <2>1, <2>3, <2>4, <3>1 DEF Count
  <2>6. OnTheWay = flush.lines
    BY <2>1 DEF OnTheWay, Idle
  <2> DEFINE T == {m[k].n : k \in 1..d}
  <2>7. IsFiniteSet(T) /\ Cardinality(T) <= d
    <3>1. d \in Nat
      BY <2>3
    <3> HIDE DEF d
    <3> QED BY <3>1, NumbersOf
  <2>8. ASSUME NEW n, Missing(n)', ~Missing(n) PROVE n \in T
    <3>1. PICK o \in owed : o.n = n
      BY <2>1, <2>8 DEF Missing
    <3>2. \E i \in 1..Len(m) : m[i].n = n /\ m[i].seq >= reader
      <4>1. CASE Coming(n)
        <5>1. PICK k \in 1..Len(flush.lines) : flush.lines[k].n = n
          BY <2>6, <4>1 DEF Coming
        <5>2. flush.lines[k].id = o.id /\ o.id \in mcp.ids
          BY <1>0, <2>6, <3>1, <5>1 DEF OwedItsOwn
        <5>3. PICK i \in (l + 1)..Len(m) : m[i].n = n
          BY <2>2, <5>1, <5>2
        <5>4. i \in 1..Len(m) /\ m[i].seq = mcp.next + (i - l) - 1 /\ i - l >= 1
          <6> HIDE DEF l
          <6> QED BY <2>2, <5>3
        <5>5. i \in Nat /\ l \in Nat
          <6> HIDE DEF l
          <6> QED BY <2>2, <5>4
        <5> HIDE DEF l
        <5>6. m[i].seq >= reader
          BY <1>0, <5>4, <5>5
        <5> QED BY <5>3, <5>4, <5>6
      <4>2. CASE Readable(n)
        <5>1. PICK i \in 1..Len(mcp.lines) : mcp.lines[i].seq >= reader /\ mcp.lines[i].n = n
          BY <4>2 DEF Readable
        <5>2. i \in 1..Len(m) /\ m[i] = mcp.lines[i]
          BY <2>2, <5>1
        <5> QED BY <5>1, <5>2
      <4> QED BY <2>8, <3>1, <4>1, <4>2 DEF Missing
    <3>3. PICK i \in 1..Len(m) : m[i].n = n /\ m[i].seq >= reader
      BY <3>2
    <3>4. CASE i <= d
      <4>1. i \in 1..d
        BY <2>3, <3>3, <3>4
      <4> HIDE DEF d
      <4> QED BY <3>3, <4>1
    <3>5. CASE ~(i <= d)
      <4>1. i - d \in 1..Len(r) /\ (i - d) + d = i
        BY <2>2, <2>3, <3>3, <3>5
      <4>2. r[i - d] = m[i]
        BY <2>3, <4>1
      <4> DEFINE j == i - d
      <4>3. j \in 1..Len(r) /\ r[j].n = n /\ r[j].seq >= reader
        BY <3>3, <4>1, <4>2
      <4> HIDE DEF j, d
      <4>4. Readable(n)'
        BY <2>1, <2>4, <4>3 DEF Readable
      <4> QED BY <2>8, <4>4 DEF Missing
    <3> QED BY <3>4, <3>5
  <2>9. Lost' \subseteq Lost \cup T
    <3> HIDE DEF T
    <3> QED BY <2>1, <2>8 DEF Lost
  <2>10. serial' \in Nat
    BY <1>0, <2>1
  <2> HIDE DEF T, d
  <2> QED BY <1>0, <1>c, <2>3, <2>5, <2>7, <2>9, <2>10, MoreLost
<1>6. CASE LetGo
  <2>1. UNCHANGED <<waiting, dropped, mcp, reader, serial, owed>> /\ flush' = NoFlush /\ flush.at = "done"
    BY <1>6 DEF LetGo, machine, history
  <2>2. OnTheWay = <<>> /\ OnTheWay' = <<>> /\ flush.dropped = 0 /\ flush'.dropped = 0
    BY <1>0, <2>1 DEF OneDelivery, OnTheWay, Idle, NoFlush
  <2>3. Count' = Count
    BY <2>1, <2>2 DEF Count
  <2> QED BY <1>1, <2>1, <2>2, <2>3
<1>7. CASE BeginRun \/ McpOwn \/ McpForget \/ (McpClear /\ task.ids = {})
           \/ \E c \in Conns : Connect(c) \/ Disown(c) \/ Own(c) \/ Dropped(c) \/ \E g \in Groups \cup {All} : Ask(c, g)
  <2>1. UNCHANGED <<waiting, dropped, flush, reader, serial>> /\ owed' \subseteq owed
    BY <1>7 DEF BeginRun, McpOwn, McpForget, McpClear, Connect, Disown, Own, Dropped, Ask, machine, history
  <2>2. mcp'.lines = mcp.lines /\ mcp'.dropped = mcp.dropped
    <3>1. CASE McpOwn \/ McpForget
      BY <1>0, <3>1 DEF McpOwn, McpForget
    <3>2. CASE ~McpOwn /\ ~McpForget
      <4>1. mcp' = mcp
        BY <1>7, <3>2 DEF BeginRun, McpClear, Connect, Disown, Own, Dropped, Ask
      <4> QED BY <4>1
    <3> QED BY <3>1, <3>2
  <2>3. OnTheWay' = OnTheWay /\ Count' = Count
    BY <2>1, <2>2 DEF OnTheWay, Idle, Count
  <2> QED BY <1>1, <2>1, <2>2, <2>3
<1>8. CASE GetLog
  <2> PICK due : due = Unread(reader)
    OBVIOUS
  <2>1. /\ UNCHANGED <<waiting, dropped, flush, mcp, serial>>
        /\ owed' = {o \in owed : o.n \notin Past(FirstPage(due))}
        /\ reader' = IF Len(due) > Page THEN due[Page + 1].seq ELSE mcp.next
    BY <1>8 DEF GetLog, machine
  <2>2. due \in Seq(Entry) /\ LinesFrom(due, reader)
    BY <1>0, UnreadIs
  <2>3. Len(due) \in Nat /\ Page \in Nat \ {0} /\ \A k \in 1..Len(due) : due[k] \in Entry
    BY <2>2, LenProperties, ElementOfSeq, LogpointsAssumption
  <2>4. ASSUME NEW k \in 1..Len(due), Len(due) <= Page \/ k <= Page
        PROVE  due[k].n \in Past(FirstPage(due))
    <3> DEFINE t == IF Len(due) > Page THEN Page ELSE Len(due)
               p == FirstPage(due)
    <3>1. t \in Nat /\ t <= Len(due) /\ k \in 1..t
      BY <2>3, <2>4
    <3>2. p = SubSeq(due, 1, t)
      BY DEF FirstPage
    <3> HIDE DEF t, p
    <3>3. DOMAIN p = 1..t /\ p[k] = due[k]
      <4>1. \A i \in 1..t : due[i] \in Entry
        BY <2>3, <3>1
      <4>2. /\ p \in Seq(Entry)
            /\ Len(p) = IF 1 <= t THEN t - 1 + 1 ELSE 0
            /\ \A i \in 1..(t - 1 + 1) : p[i] = due[1 + i - 1]
        BY <3>1, <3>2, <4>1, SubSeqProperties
      <4>3. Len(p) = t /\ p[k] = due[k]
        BY <3>1, <4>2
      <4> QED BY <4>2, <4>3, LenProperties
    <3>4. due[k].n \in Past(p)
      BY <3>1, <3>3 DEF Past
    <3> QED BY <3>4 DEF p
  <2>5. \A j, k \in 1..Len(due) : j < k => due[j].seq < due[k].seq
    <3> SUFFICES ASSUME NEW j \in 1..Len(due), NEW k \in 1..Len(due), j < k PROVE due[j].seq < due[k].seq
      OBVIOUS
    <3>1. PICK h \in 1..Len(mcp.lines), i \in 1..Len(mcp.lines) : h < i /\ due[j] = mcp.lines[h] /\ due[k] = mcp.lines[i]
      BY <2>2 DEF LinesFrom
    <3>2. mcp.lines[h].seq < mcp.lines[i].seq
      BY <1>0, <3>1 DEF LogInOrder
    <3> QED BY <3>1, <3>2
  <2>6. ASSUME NEW n, Missing(n)' PROVE Missing(n)
    <3>1. PICK o \in owed : o.n = n /\ n \notin Past(FirstPage(due))
      BY <2>1, <2>6 DEF Missing
    <3>2. ~Coming(n)
      BY <2>1, <2>6 DEF Missing, Coming, OnTheWay, Idle
    <3>3. ASSUME Readable(n) PROVE FALSE
      <4>1. PICK i \in 1..Len(mcp.lines) : mcp.lines[i].seq >= reader /\ mcp.lines[i].n = n
        BY <3>3 DEF Readable
      <4>2. PICK k \in 1..Len(due) : due[k] = mcp.lines[i]
        BY <2>2, <4>1 DEF LinesFrom
      <4>3. Len(due) > Page /\ k > Page
        BY <2>3, <2>4, <3>1, <4>1, <4>2
      <4>4. Page + 1 \in 1..Len(due) /\ (k = Page + 1 \/ Page + 1 < k)
        BY <2>3, <4>3
      <4>5. due[k].seq >= due[Page + 1].seq
        BY <2>3, <2>5, <4>4 DEF Entry
      <4>6. mcp'.lines = mcp.lines /\ reader' = due[Page + 1].seq
        BY <2>1, <4>3
      <4>7. Readable(n)'
        BY <4>1, <4>2, <4>5, <4>6 DEF Readable
      <4> QED BY <2>6, <4>7 DEF Missing
    <3> QED BY <3>1, <3>2, <3>3 DEF Missing
  <2>7. Lost' \subseteq Lost /\ Count' = Count /\ serial' \in Nat
    BY <1>0, <2>1, <2>6 DEF Lost, Count
  <2> QED BY <1>0, <1>c, <2>7, NoneLost
<1>9. CASE Progress \/ FinishRun \/ McpSet \/ (McpClear /\ task.ids # {})
           \/ \E c \in Conns : ClearOne(c) \/ SetOne(c)
  <2>1. \E who \in Conns \cup {Mcp, Run, None} : Idle /\ Deliver(who) /\ UNCHANGED <<mcp, reader, serial, owed>>
    BY <1>9 DEF Progress, FinishRun, McpSet, McpClear, ClearOne, SetOne, history
  <2> QED BY <1>3, <2>1
<1> QED BY <1>2, <1>4, <1>5, <1>6, <1>7, <1>8, <1>9 DEF LogNext, LogEmulatorStep, ConnStep, McpStep

-----------------------------------------------------------------------------
\* The inductive invariant of the reports.
THEOREM ReportInvariance == LogSpec => [](LogInv /\ ReportInv)
<1>1. LogInit => ReportInv
  <2> SUFFICES ASSUME LogInit PROVE ReportInv
    OBVIOUS
  <2>1. /\ points = {} /\ next_id = 1 /\ waiting = <<>> /\ dropped = 0 /\ flush = NoFlush /\ owners = <<>>
        /\ conn = [c \in Conns |-> Resting("gone", 0)] /\ lists = [c \in Conns |-> [g \in Groups |-> {}]]
        /\ mcp = [ids |-> {}, lines |-> <<>>, next |-> 1, dropped |-> 0] /\ task = [at |-> "idle", ids |-> {}]
        /\ heard = [e \in Ears |-> <<>>] /\ reader = 1 /\ serial = 0 /\ owed = {}
    BY DEF LogInit
  <2>2. Len(<<>>) = 0 /\ <<>> \in Seq(Line) /\ <<>> \in Seq(Message) /\ <<>> \in Seq(Entry)
    BY EmptySeq
  <2>3. flush \in Deliveries
    BY <2>1, <2>2 DEF NoFlush, Deliveries, Ats
  <2>4. ReportTypes
    BY <2>1, <2>2, <2>3 DEF ReportTypes, Deliveries, Ats, Entry
  <2>5. OneDelivery
    BY <2>1 DEF OneDelivery, Idle, NoFlush
  <2>6. OnTheWay = <<>> /\ \A e \in Ears : heard[e] = <<>>
    BY <2>1 DEF OnTheWay, Idle, NoFlush
  <2>7. InTurn
    BY <2>2, <2>6 DEF InTurn
  <2>8. OneHolder
    <3>1. \A c \in Conns : Listing(c) = {} /\ ~Setting(c)
      BY <2>1 DEF Listing, Setting, Resting
    <3>2. Mcps = {} /\ \A c \in Conns : Its(c) = {}
      BY <2>1, <3>1 DEF Mcps, Its
    <3> QED BY <3>1, <3>2 DEF OneHolder
  <2>9. StillSet /\ ForThem
    BY <2>1, <2>2 DEF StillSet, ForThem, Idle, NoFlush
  <2>10. Owing
    BY <2>1, <2>2 DEF Owing, OwedItsOwn, LogInOrder
  <2>11. ReportsStayHome /\ ReportsBeforeTheStop
    <3>1. OwnersList
      BY <2>1 DEF OwnersList
    <3>2. HeardWell
      BY <2>2, <2>6 DEF HeardWell
    <3> QED BY <2>4, <3>1, <3>2, HeardWellIs
  <2>12. LossesAreCounted
    <3>1. Lost = {}
      BY <2>1 DEF Lost, Missing
    <3>2. Count = 0
      BY <2>1 DEF Count, NoFlush
    <3>3. Cardinality(Lost) <= Count
      BY <3>1, <3>2, FS_EmptySet
    <3> QED BY <2>4, <2>5, <2>10, <3>3, CountIs DEF Owing
  <2> QED BY <2>4, <2>5, <2>7, <2>8, <2>9, <2>10, <2>11, <2>12 DEF ReportInv
<1>2. (ReportTypes /\ OwnersList => (HeardWell <=> ReportsStayHome /\ ReportsBeforeTheStop))'
  BY HeardWellIs, PTL
<1>3. (ReportTypes /\ OneDelivery /\ OwedItsOwn => (LossesAreCounted <=> Cardinality(Lost) <= Count))'
  BY CountIs, PTL
<1>4. LogInv /\ LogInv' /\ ReportInv /\ [LogNext]_logVars => ReportInv'
  <2> SUFFICES ASSUME LogInv, LogInv', ReportInv, [LogNext]_logVars PROVE ReportInv'
    OBVIOUS
  <2>1. CASE UNCHANGED logVars
    <3>1. /\ UNCHANGED <<points, next_id, waiting, dropped, going>> /\ UNCHANGED <<owners, conn, lists>>
          /\ UNCHANGED <<flush, mcp, task, heard, reader, serial, owed>>
      BY <2>1 DEF logVars, machine, dap, history
    <3>2. /\ ReportTypes' = ReportTypes /\ OneDelivery' = OneDelivery /\ StillSet' = StillSet
          /\ OnTheWay' = OnTheWay /\ \A c \in Conns : Listing(c)' = Listing(c) /\ Setting(c)' = Setting(c)
      BY <3>1 DEF ReportTypes, OneDelivery, StillSet, OnTheWay, Idle, Listing, Setting
    <3>3. InTurn' = InTurn /\ OwedItsOwn' = OwedItsOwn /\ Mcps' = Mcps /\ \A c \in Conns : Its(c)' = Its(c) /\ Awaited(c)' = Awaited(c)
      BY <3>1, <3>2 DEF InTurn, OwedItsOwn, Mcps, Its, Awaited
    <3>4. OneHolder' = OneHolder /\ (\A e \in Ears : ForEach(e)' = ForEach(e)) /\ Owing' = Owing
      BY <3>1, <3>2, <3>3, EarOf DEF OneHolder, ForEach, Owing
    <3>5. ForThem' = ForThem
      BY <3>1, <3>4 DEF ForThem
    <3>6. ReportsStayHome' = ReportsStayHome /\ ReportsBeforeTheStop' = ReportsBeforeTheStop /\ LossesAreCounted' = LossesAreCounted
      BY <3>1 DEF ReportsStayHome, ReportsBeforeTheStop, LossesAreCounted, Past, Unread
    <3> QED BY <3>2, <3>3, <3>4, <3>5, <3>6 DEF ReportInv
  <2>2. CASE LogNext
    <3>1. HeardWell
      BY HeardWellIs DEF ReportInv, LogInv
    <3>2. ReportTypes' /\ OneDelivery'
      BY <2>2, ReportTypesKept
    <3>3. InTurn' /\ HeardWell'
      BY <2>2, <3>1, InTurnKept
    <3>4. OneHolder'
      BY <2>2, OneHolderKept DEF ReportInv
    <3>5. StillSet' /\ ForThem'
      BY <2>2, StillSetKept, ForThemKept
    <3>6. Owing'
      BY <2>2, OwingKept
    <3>7. Cardinality(Lost') <= Count'
      BY <2>2, LossesKept
    <3>8. ReportsStayHome' /\ ReportsBeforeTheStop'
      BY <1>2, <3>2, <3>3 DEF LogInv
    <3>9. LossesAreCounted'
      BY <1>3, <3>2, <3>6, <3>7 DEF Owing
    <3> QED BY <3>2, <3>3, <3>4, <3>5, <3>6, <3>8, <3>9 DEF ReportInv
  <2> QED BY <2>1, <2>2
<1> QED BY <1>1, <1>4, LogInvariance, PTL DEF LogSpec

\* A logpoint's reports go to whoever set it and to nobody else, each once, in
\* the order they were made and before the stop that ends the run; and a reader
\* of MCP's log is told of every line it cannot have any more.
THEOREM ReportsAlwaysArrive == LogSpec => []ReportsArrive
<1>1. ReportInv => ReportsArrive
  BY DEF ReportInv, ReportsArrive
<1> QED BY <1>1, ReportInvariance, PTL

-----------------------------------------------------------------------------
(* The captured frames.                                                    *)

\* The state's shape.
Standing == {"out", "look", "posted", "driven", "wait"}
CallerRecord == [at : Standing, ask : [count : Nat, every : Nat \ {0}], got : Seq(Nat),
                 alone : BOOLEAN, timed_out : BOOLEAN]
CaptureTypes ==
  /\ caller \in [Callers -> CallerRecord]
  /\ armed \in BOOLEAN /\ running \in BOOLEAN
  /\ capture \in [wanted : Nat, every : Nat \ {0}, next : Nat]
  /\ captured \in Seq(Nat) /\ turns \in Seq(Callers)
  /\ frame_count \in Nat /\ left \in Nat

\* Frames are collected for the caller that armed last, which is still inside.
ForSomebody == armed => last_arm \in Callers /\ Inside(last_arm)

\* A caller alone is the only one inside ...
OnlyOne == \A c, d \in Callers : caller[c].alone /\ Inside(c) /\ Inside(d) => c = d

\* ... and the capture is its own: armed until it is full, its frames spaced as
\* asked, the next one due when it says.
Taken == Len(captured)
Due ==
  IF captured = <<>> THEN capture.next = 0
  ELSE /\ capture.next = captured[Taken] + capture.every
       /\ captured[Taken] <= frame_count
       /\ armed => frame_count < capture.next
ItsOwn(c) ==
  /\ capture.wanted = caller[c].ask.count /\ capture.every = caller[c].ask.every
  /\ armed <=> Taken < capture.wanted
  /\ Taken <= capture.wanted
  /\ Spaced(captured, caller[c].ask)
  /\ Due
Owned == \A c \in Callers : caller[c].alone /\ Inside(c) => ItsOwn(c)

\* The frames until it is full; the job it posted is allowed as many.
ToNext == IF captured = <<>> THEN 1 ELSE capture.next - frame_count
Needed == ToNext + (capture.wanted - Taken - 1) * capture.every
Enough == \A c \in Callers : caller[c].alone /\ caller[c].at = "driven" /\ armed => left >= Needed

\* What a caller went away with.
Gone == \A c \in Callers : caller[c].alone /\ ~Inside(c) =>
          /\ Spaced(caller[c].got, caller[c].ask)
          /\ caller[c].timed_out \/ Len(caller[c].got) = caller[c].ask.count

CaptureInv == CaptureTypes /\ ForSomebody /\ OnlyOne /\ Owned /\ Enough /\ Gone

-----------------------------------------------------------------------------
(* Lemmas.                                                                 *)

\* Products of what is left to take and the frames between.
LEMMA Times ==
  ASSUME NEW n \in Nat, NEW e \in Nat
  PROVE  n * e \in Nat /\ (n + 1) * e = n * e + e
  OBVIOUS

LEMMA TimesOrder ==
  ASSUME NEW n \in Nat, NEW m \in Nat, n <= m, NEW e \in Nat
  PROVE  n * e <= m * e
<1>1. n * e \in Nat /\ m * e \in Nat
  OBVIOUS
<1>2. (m - n) * e \in Nat /\ (m - n) * e = m * e - n * e
  <2>1. m - n \in Nat
    OBVIOUS
  <2> QED BY <2>1
<1> QED BY <1>1, <1>2

\* One more spaced as the others.
LEMMA SpacedOn ==
  ASSUME NEW s \in Seq(Nat), NEW f \in Nat, NEW ask, Spaced(s, ask),
         s # <<>> => f - s[Len(s)] = ask.every
  PROVE  Spaced(Append(s, f), ask)
<1> DEFINE t == Append(s, f)
<1>1. /\ Len(t) = Len(s) + 1 /\ DOMAIN t = 1..(Len(s) + 1) /\ DOMAIN s = 1..Len(s) /\ Len(s) \in Nat
      /\ \A i \in 1..Len(s) : t[i] = s[i]
      /\ t[Len(s) + 1] = f
  OBVIOUS
<1> HIDE DEF t
<1>2. ASSUME NEW i \in DOMAIN t \ {1} PROVE t[i] - t[i - 1] = ask.every
  <2>1. CASE i \in 1..Len(s)
    <3>1. i - 1 \in 1..Len(s) /\ i \in DOMAIN s \ {1}
      BY <1>1, <1>2, <2>1
    <3> QED BY <1>1, <2>1, <3>1 DEF Spaced
  <2>2. CASE i = Len(s) + 1
    <3>1. Len(s) \in 1..Len(s) /\ i - 1 = Len(s) /\ s # <<>>
      BY <1>1, <1>2, <2>2
    <3> QED BY <1>1, <2>2, <3>1
  <2> QED BY <1>1, <1>2, <2>1, <2>2
<1> QED BY <1>2 DEF Spaced, t

\* Types of the parts.
LEMMA CallerTypes ==
  ASSUME CaptureTypes, NEW c \in Callers
  PROVE  /\ caller[c].at \in Standing /\ caller[c].ask.count \in Nat /\ caller[c].ask.every \in Nat \ {0}
         /\ caller[c].got \in Seq(Nat) /\ caller[c].alone \in BOOLEAN /\ caller[c].timed_out \in BOOLEAN
         /\ capture.wanted \in Nat /\ capture.every \in Nat \ {0} /\ capture.next \in Nat
         /\ captured \in Seq(Nat) /\ Taken \in Nat /\ frame_count \in Nat /\ left \in Nat
<1>1. caller[c] \in CallerRecord
  BY DEF CaptureTypes
<1>2. captured \in Seq(Nat) /\ Taken \in Nat
  BY DEF CaptureTypes, Taken
<1>3. capture.wanted \in Nat /\ capture.every \in Nat \ {0} /\ capture.next \in Nat
  BY DEF CaptureTypes
<1> QED BY <1>1, <1>2, <1>3 DEF CaptureTypes, CallerRecord

\* What a caller went away with stays what it was.
LEMMA GoneKeeps ==
  ASSUME Gone,
         \A d \in Callers : /\ caller'[d].ask = caller[d].ask /\ caller'[d].got = caller[d].got
                            /\ caller'[d].timed_out = caller[d].timed_out
                            /\ caller'[d].alone => caller[d].alone
                            /\ Inside(d) => Inside(d)'
  PROVE  Gone'
<1> SUFFICES ASSUME NEW d \in Callers, caller'[d].alone, ~Inside(d)'
             PROVE  /\ Spaced(caller'[d].got, caller'[d].ask)
                    /\ caller'[d].timed_out \/ Len(caller'[d].got) = caller'[d].ask.count
  BY DEF Gone, Spaced
<1> QED BY DEF Gone

\* While it is armed, at least a frame is needed.
LEMMA OneNeeded ==
  ASSUME CaptureTypes, NEW c \in Callers, ItsOwn(c), armed
  PROVE  ToNext \in Nat \ {0} /\ Needed \in Nat \ {0} /\ Needed >= ToNext
<1>1. capture.wanted - Taken - 1 \in Nat /\ capture.every \in Nat
  BY CallerTypes DEF ItsOwn
<1>2. (capture.wanted - Taken - 1) * capture.every \in Nat
  BY <1>1
<1>3. ToNext \in Nat \ {0}
  BY CallerTypes DEF ItsOwn, Due, ToNext
<1> QED BY <1>2, <1>3 DEF Needed

\* A frame noted keeps the capture of a caller that is alone, and is one less
\* needed.
LEMMA NoteKeeps ==
  ASSUME CaptureTypes, NEW c \in Callers, ItsOwn(c), caller' = caller,
         frame_count' = frame_count + 1, NoteFrame
  PROVE  ItsOwn(c)' /\ (armed' => armed /\ Needed' = Needed - 1)
<1>1. CASE ~armed
  <2>1. UNCHANGED <<captured, capture, armed>>
    BY <1>1 DEF NoteFrame
  <2>2. Due'
    BY <1>1, <2>1, CallerTypes DEF ItsOwn, Due, Taken
  <2> QED BY <1>1, <2>1, <2>2 DEF ItsOwn, Taken, Spaced
<1>2. CASE armed /\ ~(frame_count' >= capture.next)
  <2>1. UNCHANGED <<captured, capture, armed>>
    BY <1>2 DEF NoteFrame
  <2>2. captured # <<>>
    BY <1>2, CallerTypes DEF ItsOwn, Due
  <2>3. Due'
    BY <1>2, <2>1, <2>2, CallerTypes DEF ItsOwn, Due, Taken
  <2>4. ItsOwn(c)'
    BY <2>1, <2>3 DEF ItsOwn, Taken, Spaced
  <2>5. Needed' = Needed - 1
    <3>1. ToNext' = ToNext - 1 /\ ToNext \in Nat
      BY <2>1, <2>2, OneNeeded, <1>2, CallerTypes DEF ToNext
    <3>2. (capture.wanted - Taken - 1) * capture.every \in Nat
      <4>1. capture.wanted - Taken - 1 \in Nat /\ capture.every \in Nat
        BY <1>2, CallerTypes DEF ItsOwn
      <4> QED BY <4>1
    <3> QED BY <2>1, <3>1, <3>2 DEF Needed, Taken
  <2> QED BY <1>2, <2>4, <2>5
<1>3. CASE armed /\ frame_count' >= capture.next
  <2>1. /\ captured' = Append(captured, frame_count')
        /\ capture' = [capture EXCEPT !.next = frame_count' + capture.every]
        /\ armed' = (Len(captured') < capture.wanted)
    BY <1>3 DEF NoteFrame
  <2>2. /\ capture'.wanted = capture.wanted /\ capture'.every = capture.every
        /\ capture'.next = frame_count' + capture.every
    BY <2>1 DEF CaptureTypes
  <2>3. /\ Taken' = Taken + 1 /\ captured' # <<>> /\ captured'[Taken'] = frame_count'
        /\ frame_count' \in Nat
    BY <2>1, CallerTypes DEF Taken
  <2>4. captured # <<>> => capture.next = frame_count'
    BY <1>3, CallerTypes DEF ItsOwn, Due
  <2>5. Spaced(captured', caller[c].ask)
    <3>1. captured # <<>> => frame_count' - captured[Len(captured)] = caller[c].ask.every
      BY <2>4, CallerTypes DEF ItsOwn, Due, Taken
    <3> QED BY <2>1, <2>3, <3>1, SpacedOn, CallerTypes DEF ItsOwn
  <2>6. Due'
    BY <2>2, <2>3, CallerTypes DEF Due
  <2>7. ItsOwn(c)'
    <3>1. Taken < capture.wanted
      BY <1>3 DEF ItsOwn
    <3>2. Taken' <= capture'.wanted
      BY <2>2, <2>3, <3>1, CallerTypes
    <3>3. armed' <=> Taken' < capture'.wanted
      BY <2>1, <2>2 DEF Taken
    <3> QED BY <2>2, <2>5, <2>6, <3>2, <3>3 DEF ItsOwn
  <2>8. ASSUME armed' PROVE Needed' = Needed - 1
    <3> DEFINE n == capture.wanted - Taken - 2
    <3>1. n \in Nat /\ capture.wanted - Taken - 1 = n + 1 /\ capture'.wanted - Taken' - 1 = n
      <4>1. Taken' < capture.wanted /\ Taken' = Taken + 1 /\ capture'.wanted = capture.wanted
        BY <2>1, <2>2, <2>3, <2>8 DEF Taken
      <4>2. Taken \in Nat /\ capture.wanted \in Nat
        BY CallerTypes
      <4> QED BY <4>1, <4>2
    <3>2. ToNext' = capture.every
      BY <2>2, <2>3, CallerTypes DEF ToNext
    <3>3. ToNext = 1
      BY <2>4, CallerTypes DEF ToNext
    <3> HIDE DEF n
    <3>4. n * capture.every \in Nat /\ (n + 1) * capture.every = n * capture.every + capture.every
      BY <3>1, CallerTypes, Times
    <3>5. Needed = 1 + (n * capture.every + capture.every)
      BY <3>1, <3>3, <3>4 DEF Needed
    <3>6. Needed' = capture.every + n * capture.every
      BY <2>2, <3>1, <3>2 DEF Needed
    <3> QED BY <3>4, <3>5, <3>6, CallerTypes
  <2> QED BY <1>3, <2>7, <2>8
<1> QED BY <1>1, <1>2, <1>3

\* A caller goes on within its capture, and nothing else changes.
LEMMA MovesKeep ==
  ASSUME CaptureInv, NEW c \in Callers, NEW label \in Standing, Move(c, label), Inside(c), label # "out",
         UNCHANGED <<armed, capture, captured, frame_count, last_arm>>
  PROVE  /\ caller' \in [Callers -> CallerRecord]
         /\ ForSomebody' /\ OnlyOne' /\ Owned' /\ Gone'
         /\ \A d \in Callers : /\ caller'[d].alone = caller[d].alone /\ caller'[d].ask = caller[d].ask
                               /\ caller'[d].at = IF d = c THEN label ELSE caller[d].at
<1>1. caller' \in [Callers -> CallerRecord]
  BY DEF CaptureInv, CaptureTypes, CallerRecord, Move
<1>2. \A d \in Callers : /\ caller'[d].at = IF d = c THEN label ELSE caller[d].at
                         /\ caller'[d].alone = caller[d].alone /\ caller'[d].ask = caller[d].ask
                         /\ caller'[d].got = caller[d].got /\ caller'[d].timed_out = caller[d].timed_out
  BY DEF CaptureInv, CaptureTypes, CallerRecord, Move
<1>3. \A d \in Callers : Inside(d)' <=> Inside(d)
  BY <1>2 DEF Inside
<1>4. ForSomebody' /\ OnlyOne' /\ Gone'
  BY <1>2, <1>3, GoneKeeps DEF CaptureInv, ForSomebody, OnlyOne
<1>5. \A d \in Callers : ItsOwn(d) => ItsOwn(d)'
  BY <1>2 DEF ItsOwn, Due, Taken, Spaced
<1> QED BY <1>1, <1>2, <1>3, <1>4, <1>5 DEF CaptureInv, Owned

\* The machine turns a frame over: the callers stay where they are.
LEMMA FrameKeeps ==
  ASSUME CaptureInv, caller' = caller, last_arm' = last_arm,
         frame_count' = frame_count + 1, NoteFrame
  PROVE  /\ armed' \in BOOLEAN /\ captured' \in Seq(Nat) /\ frame_count' \in Nat
         /\ capture' \in [wanted : Nat, every : Nat \ {0}, next : Nat]
         /\ ForSomebody' /\ OnlyOne' /\ Owned' /\ Gone'
<1>1. /\ armed' \in BOOLEAN /\ captured' \in Seq(Nat) /\ frame_count' \in Nat
      /\ capture' \in [wanted : Nat, every : Nat \ {0}, next : Nat]
      /\ armed' => armed
  <2>1. frame_count' \in Nat /\ frame_count' + capture.every \in Nat
    BY DEF CaptureInv, CaptureTypes
  <2>2. CASE armed /\ frame_count' >= capture.next
    <3>1. captured' = Append(captured, frame_count') /\ armed' = (Len(captured') < capture.wanted)
          /\ capture' = [capture EXCEPT !.next = frame_count' + capture.every]
      BY <2>2 DEF NoteFrame
    <3>2. capture' \in [wanted : Nat, every : Nat \ {0}, next : Nat]
      BY <2>1, <3>1 DEF CaptureInv, CaptureTypes
    <3>3. captured' \in Seq(Nat)
      BY <2>1, <3>1 DEF CaptureInv, CaptureTypes
    <3> QED BY <2>1, <2>2, <3>1, <3>2, <3>3
  <2>3. CASE ~(armed /\ frame_count' >= capture.next)
    BY <2>1, <2>3 DEF CaptureInv, CaptureTypes, NoteFrame
  <2> QED BY <2>2, <2>3
<1>2. ForSomebody' /\ OnlyOne' /\ Gone'
  BY <1>1 DEF CaptureInv, ForSomebody, OnlyOne, Gone, Inside, Spaced
<1>3. Owned'
  BY NoteKeeps DEF CaptureInv, Owned, Inside
<1> QED BY <1>1, <1>2, <1>3

-----------------------------------------------------------------------------
(* The steps.                                                              *)

\* A capture is asked for: of two at once neither is alone any more.
LEMMA CaptureFramesKeeps ==
  ASSUME CaptureInv, NEW c \in Callers, NEW ask \in Asked, CaptureFrames(c, ask)
  PROVE  CaptureInv'
<1> USE DEF CaptureInv
<1>1. ask.count \in Nat /\ ask.every \in Nat \ {0} /\ ask \in [count : Nat, every : Nat \ {0}]
  BY CaptureAssumption
<1> DEFINE first == \A e \in Callers : ~Inside(e)
<1>a. first \in BOOLEAN
  OBVIOUS
<1>b. \A d \in Callers : (caller[d].alone /\ ~Inside(d)) \in BOOLEAN
  OBVIOUS
<1>c. caller' = [d \in Callers |-> IF d = c THEN [Out EXCEPT !.at = "look", !.ask = ask, !.alone = first]
                                  ELSE [caller[d] EXCEPT !.alone = caller[d].alone /\ ~Inside(d)]]
  BY DEF CaptureFrames
<1> HIDE DEF first
<1>d. /\ caller'[c] \in CallerRecord
      /\ caller'[c].at = "look" /\ caller'[c].ask = ask /\ caller'[c].got = <<>>
      /\ caller'[c].alone = first /\ caller'[c].timed_out = FALSE
  <2>1. caller'[c] = [Out EXCEPT !.at = "look", !.ask = ask, !.alone = first]
    BY <1>c
  <2>2. Out \in CallerRecord /\ Out.got = <<>> /\ Out.timed_out = FALSE
    BY DEF Out, NoCapture, CallerRecord, Standing
  <2> QED BY <1>1, <1>a, <2>1, <2>2 DEF CallerRecord, Standing
<1>e. ASSUME NEW d \in Callers, d # c
      PROVE  caller'[d] \in CallerRecord
             /\ caller'[d].at = caller[d].at /\ caller'[d].ask = caller[d].ask /\ caller'[d].got = caller[d].got
             /\ caller'[d].alone = (caller[d].alone /\ ~Inside(d)) /\ caller'[d].timed_out = caller[d].timed_out
  <2>1. caller'[d] = [caller[d] EXCEPT !.alone = caller[d].alone /\ ~Inside(d)] /\ caller[d] \in CallerRecord
    BY <1>c, <1>e DEF CaptureTypes
  <2> DEFINE b == caller[d].alone /\ ~Inside(d)
  <2>2. b \in BOOLEAN /\ caller'[d] = [caller[d] EXCEPT !.alone = b]
    BY <2>1
  <2> HIDE DEF b
  <2>3. /\ caller'[d] \in CallerRecord
        /\ caller'[d].at = caller[d].at /\ caller'[d].ask = caller[d].ask /\ caller'[d].got = caller[d].got
        /\ caller'[d].alone = b /\ caller'[d].timed_out = caller[d].timed_out
    BY <2>1, <2>2 DEF CallerRecord
  <2> QED BY <2>3 DEF b
<1>2. \A d \in Callers :
        IF d = c
        THEN /\ caller'[d].at = "look" /\ caller'[d].ask = ask /\ caller'[d].got = <<>>
             /\ caller'[d].alone = (\A e \in Callers : ~Inside(e)) /\ caller'[d].timed_out = FALSE
        ELSE /\ caller'[d].at = caller[d].at /\ caller'[d].ask = caller[d].ask /\ caller'[d].got = caller[d].got
             /\ caller'[d].alone = (caller[d].alone /\ ~Inside(d)) /\ caller'[d].timed_out = caller[d].timed_out
  <2> SUFFICES ASSUME NEW d \in Callers
               PROVE IF d = c
        THEN /\ caller'[d].at = "look" /\ caller'[d].ask = ask /\ caller'[d].got = <<>>
             /\ caller'[d].alone = first /\ caller'[d].timed_out = FALSE
        ELSE /\ caller'[d].at = caller[d].at /\ caller'[d].ask = caller[d].ask /\ caller'[d].got = caller[d].got
             /\ caller'[d].alone = (caller[d].alone /\ ~Inside(d)) /\ caller'[d].timed_out = caller[d].timed_out
    BY DEF first
  <2>1. CASE d = c
    BY <1>d, <2>1
  <2>2. CASE d # c
    BY <1>e, <2>2
  <2> QED BY <2>1, <2>2
<1>3. caller' \in [Callers -> CallerRecord]
  <2>1. caller'[c] \in CallerRecord
    BY <1>d
  <2>2. DOMAIN caller' = Callers /\ \A d \in Callers : caller'[d] \in CallerRecord
    BY <1>c, <1>e, <2>1
  <2> QED BY <1>c, <2>2
<1>4. /\ armed' = (ask.count # 0) /\ captured' = <<>> /\ last_arm' = c
      /\ capture'.wanted = ask.count /\ capture'.every = ask.every /\ capture'.next = 0
      /\ capture' \in [wanted : Nat, every : Nat \ {0}, next : Nat]
  BY <1>1 DEF CaptureFrames, Arm
<1>5. CaptureTypes'
  <2>1. <<>> \in Seq(Nat) /\ (ask.count # 0) \in BOOLEAN
    OBVIOUS
  <2>2. UNCHANGED <<frame_count, running, turns, left>>
    BY DEF CaptureFrames
  <2> QED BY <1>3, <1>4, <2>1, <2>2 DEF CaptureTypes
<1>6. ForSomebody'
  BY <1>2, <1>4 DEF ForSomebody, Inside
<1>7. OnlyOne'
  BY <1>2 DEF OnlyOne, Inside
<1>8. ItsOwn(c)'
  <2>1. Len(<<>>) = 0 /\ DOMAIN <<>> = {}
    OBVIOUS
  <2>2. Taken' = 0 /\ Due'
    BY <1>4, <2>1 DEF Taken, Due
  <2>3. Spaced(captured', ask)
    BY <1>4, <2>1 DEF Spaced
  <2>4. caller'[c].ask = ask
    BY <1>2
  <2>5. armed' <=> Taken' < capture'.wanted
    <3>1. ask.count # 0 <=> 0 < ask.count
      BY <1>1
    <3> QED BY <1>4, <2>2, <3>1
  <2>6. Taken' <= capture'.wanted
    BY <1>1, <1>4, <2>2
  <2> QED BY <1>4, <2>2, <2>3, <2>4, <2>5, <2>6 DEF ItsOwn, Spaced
<1>9. \A d \in Callers : caller'[d].alone /\ Inside(d)' => d = c
  BY <1>2 DEF Inside
<1>10. Owned' /\ Enough'
  BY <1>2, <1>8, <1>9 DEF Owned, Enough, Inside
<1>11. Gone'
  <2> SUFFICES ASSUME NEW d \in Callers, caller'[d].alone, ~Inside(d)'
               PROVE  /\ Spaced(caller'[d].got, caller'[d].ask)
                      /\ caller'[d].timed_out \/ Len(caller'[d].got) = caller'[d].ask.count
    BY DEF Gone, Spaced
  <2>1. d # c /\ ~Inside(d)
    BY <1>2 DEF Inside
  <2>2. /\ caller[d].alone /\ caller'[d].ask = caller[d].ask /\ caller'[d].got = caller[d].got
        /\ caller'[d].timed_out = caller[d].timed_out
    BY <1>2, <2>1
  <2> QED BY <2>1, <2>2 DEF Gone
<1> QED BY <1>5, <1>6, <1>7, <1>10, <1>11

\* running_ is looked at.
LEMMA LookKeeps ==
  ASSUME CaptureInv, NEW c \in Callers, LookWhoRuns(c)
  PROVE  CaptureInv'
<1> USE DEF CaptureInv
<1>1. PICK label \in {"wait", "posted"} : Move(c, label)
  BY DEF LookWhoRuns
<1>2. Inside(c) /\ label \in Standing /\ label # "out" /\ label # "driven"
  BY DEF LookWhoRuns, Inside, Standing
<1>3. UNCHANGED <<armed, capture, captured, frame_count, last_arm, running, left>>
  BY DEF LookWhoRuns
<1>4. turns' \in Seq(Callers)
  <2>1. turns \in Seq(Callers) /\ (turns' = turns \/ turns' = Append(turns, c))
    BY DEF LookWhoRuns, CaptureTypes
  <2> QED BY <2>1
<1>5. CaptureTypes' /\ ForSomebody' /\ OnlyOne' /\ Owned' /\ Gone'
  BY <1>1, <1>2, <1>3, <1>4, MovesKeep DEF CaptureTypes
<1>6. Enough'
  BY <1>1, <1>2, <1>3, MovesKeep DEF Enough, Needed, ToNext, Taken
<1> QED BY <1>5, <1>6

\* The job's turn comes.
LEMMA StartJobKeeps ==
  ASSUME CaptureInv, StartJob
  PROVE  CaptureInv'
<1> USE DEF CaptureInv
<1> DEFINE c == Head(turns)
<1>1. c \in Callers /\ caller[c].at = "posted" /\ Move(c, "driven")
      /\ left' = caller[c].ask.count * caller[c].ask.every + 1
      /\ UNCHANGED <<armed, capture, captured, frame_count, running, turns, last_arm>>
  BY DEF StartJob, CaptureTypes
<1> HIDE DEF c
<1>2. Inside(c) /\ "driven" \in Standing
  BY <1>1 DEF Inside, Standing
<1>3. caller[c].ask.count * caller[c].ask.every \in Nat
  BY <1>1, CallerTypes, Times
<1>4. CaptureTypes' /\ ForSomebody' /\ OnlyOne' /\ Owned' /\ Gone'
  BY <1>1, <1>2, <1>3, MovesKeep DEF CaptureTypes
<1>5. \A d \in Callers : /\ caller'[d].alone = caller[d].alone
                         /\ caller'[d].at = IF d = c THEN "driven" ELSE caller[d].at
  BY <1>1, <1>2, MovesKeep
<1>6. ASSUME NEW d \in Callers, caller'[d].alone, caller'[d].at = "driven", armed' PROVE left' >= Needed'
  <2>1. d = c /\ ItsOwn(c) /\ armed
    BY <1>1, <1>2, <1>5, <1>6 DEF OnlyOne, Owned, Inside
  <2>2. Needed' = Needed
    BY <1>1 DEF Needed, ToNext, Taken
  <2> DEFINE n == capture.wanted - Taken - 1
  <2>3. n \in Nat /\ n + 1 <= capture.wanted /\ capture.wanted \in Nat /\ capture.every \in Nat \ {0}
    BY <1>1, <2>1, CallerTypes DEF ItsOwn
  <2>4. ToNext <= capture.every
    <3>1. CASE captured = <<>>
      BY <2>3, <3>1 DEF ToNext
    <3>2. CASE captured # <<>>
      <4>1. Due /\ Taken \in Nat /\ captured \in Seq(Nat) /\ frame_count \in Nat
        BY <1>1, <2>1, CallerTypes DEF ItsOwn
      <4>2. captured[Taken] \in Nat
        BY <3>2, <4>1 DEF Taken
      <4>3. capture.next = captured[Taken] + capture.every /\ captured[Taken] <= frame_count
        BY <3>2, <4>1 DEF Due
      <4> QED BY <2>3, <3>2, <4>1, <4>2, <4>3 DEF ToNext
    <3> QED BY <3>1, <3>2
  <2>5. Needed = ToNext + n * capture.every
    BY DEF Needed
  <2> HIDE DEF n
  <2>6. /\ n * capture.every \in Nat
        /\ (n + 1) * capture.every = n * capture.every + capture.every
        /\ (n + 1) * capture.every <= capture.wanted * capture.every
    <3>1. n + 1 \in Nat /\ capture.every \in Nat
      BY <2>3
    <3> QED BY <2>3, <3>1, Times, TimesOrder
  <2>7. capture.wanted * capture.every = caller[c].ask.count * caller[c].ask.every
    BY <2>1 DEF ItsOwn
  <2>8. ToNext \in Nat
    BY <1>1, <2>1, OneNeeded
  <2> QED BY <1>1, <1>3, <2>2, <2>3, <2>4, <2>5, <2>6, <2>7, <2>8
<1> QED BY <1>4, <1>6 DEF Enough

\* It ends.
LEMMA EndJobKeeps ==
  ASSUME CaptureInv, EndJob
  PROVE  CaptureInv'
<1> USE DEF CaptureInv
<1> DEFINE c == Head(turns)
<1>1. c \in Callers /\ caller[c].at = "driven" /\ Move(c, "wait") /\ left' = 0 /\ turns' \in Seq(Callers)
      /\ UNCHANGED <<armed, capture, captured, frame_count, running, last_arm>>
  BY DEF EndJob, CaptureTypes
<1>0. left = 0 \/ ~armed
  BY DEF EndJob
<1> HIDE DEF c
<1>2. Inside(c) /\ "wait" \in Standing
  BY <1>1 DEF Inside, Standing
<1>3. CaptureTypes' /\ ForSomebody' /\ OnlyOne' /\ Owned' /\ Gone'
  BY <1>1, <1>2, MovesKeep DEF CaptureTypes
<1>4. \A d \in Callers : /\ caller'[d].alone = caller[d].alone
                         /\ caller'[d].at = IF d = c THEN "wait" ELSE caller[d].at
  BY <1>1, <1>2, MovesKeep
<1>5. Enough'
  BY <1>1, <1>2, <1>4 DEF Enough, OnlyOne, Inside
<1> QED BY <1>3, <1>5

\* A frame of a run, and one of the job.
LEMMA RunFrameKeeps ==
  ASSUME CaptureInv, RunFrame
  PROVE  CaptureInv'
<1> USE DEF CaptureInv
<1>1. CaptureTypes' /\ ForSomebody' /\ OnlyOne' /\ Owned' /\ Gone'
  BY FrameKeeps DEF RunFrame, CaptureTypes
<1>2. Enough'
  <2> SUFFICES ASSUME NEW c \in Callers, caller[c].alone, caller[c].at = "driven", armed' PROVE left >= Needed'
    BY DEF Enough, RunFrame
  <2>1. ItsOwn(c)
    BY DEF Owned, Inside
  <2>2. armed /\ Needed' = Needed - 1
    BY <2>1, NoteKeeps DEF RunFrame
  <2>3. Needed \in Nat /\ left >= Needed /\ left \in Nat
    BY <2>1, <2>2, OneNeeded DEF Enough, CaptureTypes
  <2> QED BY <2>2, <2>3
<1> QED BY <1>1, <1>2

LEMMA JobFrameKeeps ==
  ASSUME CaptureInv, JobFrame
  PROVE  CaptureInv'
<1> USE DEF CaptureInv
<1>1. left' = left - 1 /\ left \in Nat /\ left > 0
  BY DEF JobFrame, CaptureTypes
<1>2. CaptureTypes' /\ ForSomebody' /\ OnlyOne' /\ Owned' /\ Gone'
  BY <1>1, FrameKeeps DEF JobFrame, CaptureTypes
<1>3. Enough'
  <2> SUFFICES ASSUME NEW c \in Callers, caller[c].alone, caller[c].at = "driven", armed' PROVE left' >= Needed'
    BY DEF Enough, JobFrame
  <2>1. ItsOwn(c)
    BY DEF Owned, Inside
  <2>2. armed /\ Needed' = Needed - 1
    BY <2>1, NoteKeeps DEF JobFrame
  <2>3. Needed \in Nat /\ left >= Needed
    BY <2>1, <2>2, OneNeeded DEF Enough
  <2> QED BY <1>1, <2>2, <2>3
<1> QED BY <1>2, <1>3

\* The machine goes back to an earlier frame: whoever is inside is not alone.
LEMMA GoBackKeeps ==
  ASSUME CaptureInv, GoBack
  PROVE  CaptureInv'
<1> USE DEF CaptureInv
<1>1. \A d \in Callers :
        /\ caller'[d].at = caller[d].at /\ caller'[d].ask = caller[d].ask /\ caller'[d].got = caller[d].got
        /\ caller'[d].alone = (caller[d].alone /\ ~Inside(d)) /\ caller'[d].timed_out = caller[d].timed_out
  BY DEF GoBack, CaptureTypes, CallerRecord
<1>2. CaptureTypes'
  <2>1. caller' \in [Callers -> CallerRecord]
    BY DEF GoBack, CaptureTypes, CallerRecord
  <2>2. frame_count' \in Nat
    BY DEF GoBack, CaptureTypes
  <2> QED BY <2>1, <2>2 DEF GoBack, CaptureTypes
<1>3. ForSomebody' /\ OnlyOne' /\ Owned' /\ Enough'
  BY <1>1 DEF GoBack, ForSomebody, OnlyOne, Owned, Enough, Inside
<1>4. Gone'
  BY <1>1, GoneKeeps DEF Inside
<1> QED BY <1>2, <1>3, <1>4

\* The caller takes what there is.
LEMMA TakeKeeps ==
  ASSUME CaptureInv, NEW c \in Callers, TakeFrames(c)
  PROVE  CaptureInv'
<1> USE DEF CaptureInv
<1>1. /\ Inside(c) /\ armed' = FALSE /\ captured' = <<>>
      /\ UNCHANGED <<capture, frame_count, running, turns, left>>
  BY DEF TakeFrames, Inside
<1>2. \A d \in Callers :
        /\ caller'[d].ask = caller[d].ask /\ caller'[d].alone = caller[d].alone
        /\ caller'[d].at = IF d = c THEN "out" ELSE caller[d].at
        /\ caller'[d].got = IF d = c THEN captured ELSE caller[d].got
        /\ caller'[d].timed_out = IF d = c THEN armed ELSE caller[d].timed_out
  BY DEF TakeFrames, CaptureTypes, CallerRecord
<1>3. CaptureTypes'
  <2>1. caller' \in [Callers -> CallerRecord]
    <3>1. /\ [caller[c] EXCEPT !.at = "out", !.got = captured, !.timed_out = armed] \in CallerRecord
          /\ caller' = [caller EXCEPT ![c] = [caller[c] EXCEPT !.at = "out", !.got = captured, !.timed_out = armed]]
      BY DEF TakeFrames, CaptureTypes, CallerRecord, Standing
    <3> QED BY <3>1 DEF CaptureTypes
  <2>2. <<>> \in Seq(Nat)
    OBVIOUS
  <2> QED BY <1>1, <2>1, <2>2 DEF CaptureTypes
<1>4. ForSomebody' /\ OnlyOne' /\ Enough'
  BY <1>1, <1>2 DEF ForSomebody, OnlyOne, Enough, Inside
<1>5. Owned'
  BY <1>1, <1>2 DEF Owned, OnlyOne, Inside
<1>6. Gone'
  <2>1. caller[c].alone => ItsOwn(c)
    BY <1>1 DEF Owned
  <2>2. caller[c].alone => Spaced(captured, caller[c].ask) /\ (armed \/ Len(captured) = caller[c].ask.count)
    BY <2>1, CallerTypes DEF ItsOwn, Taken
  <2> SUFFICES ASSUME NEW d \in Callers, caller'[d].alone, ~Inside(d)'
               PROVE  /\ Spaced(caller'[d].got, caller'[d].ask)
                      /\ caller'[d].timed_out \/ Len(caller'[d].got) = caller'[d].ask.count
    BY DEF Gone, Spaced
  <2>3. CASE d = c
    <3>1. caller'[d].got = captured /\ caller'[d].ask = caller[c].ask /\ caller'[d].timed_out = armed /\ caller[c].alone
      BY <1>2, <2>3
    <3> QED BY <2>2, <3>1
  <2>4. CASE d # c
    <3>1. /\ caller[d].alone /\ ~Inside(d) /\ caller'[d].got = caller[d].got /\ caller'[d].ask = caller[d].ask
          /\ caller'[d].timed_out = caller[d].timed_out
      BY <1>2, <2>4 DEF Inside
    <3> QED BY <3>1 DEF Gone
  <2> QED BY <2>3, <2>4
<1> QED BY <1>3, <1>4, <1>5, <1>6

-----------------------------------------------------------------------------
\* The inductive invariant of the capture: it is armed for somebody inside, a
\* caller alone has it to itself, and the job it posted has frames enough left.
THEOREM CaptureInvariance == CaptureSpec => []CaptureInv
<1>1. CaptureInit => CaptureInv
  <2> SUFFICES ASSUME CaptureInit PROVE CaptureInv
    OBVIOUS
  <2>1. <<>> \in Seq(Nat) /\ <<>> \in Seq(Callers) /\ Len(<<>>) = 0 /\ DOMAIN <<>> = {}
    OBVIOUS
  <2>2. \A c \in Callers : /\ caller[c].at = "out" /\ caller[c].got = <<>> /\ caller[c].ask.count = 0
                           /\ caller[c] \in CallerRecord
    BY <2>1 DEF CaptureInit, Out, NoCapture, Standing, CallerRecord
  <2>3. CaptureTypes
    <3>1. capture \in [wanted : Nat, every : Nat \ {0}, next : Nat]
      BY DEF CaptureInit
    <3>2. caller \in [Callers -> CallerRecord]
      BY <2>2 DEF CaptureInit
    <3> QED BY <2>1, <3>1, <3>2 DEF CaptureInit, CaptureTypes
  <2>4. ForSomebody /\ OnlyOne /\ Owned /\ Enough
    BY <2>2 DEF CaptureInit, ForSomebody, OnlyOne, Owned, Enough, Inside
  <2>5. Gone
    BY <2>1, <2>2 DEF Gone, Spaced
  <2> QED BY <2>3, <2>4, <2>5 DEF CaptureInv
<1>2. CaptureInv /\ [CaptureNext]_captureVars => CaptureInv'
  <2> SUFFICES ASSUME CaptureInv, [CaptureNext]_captureVars PROVE CaptureInv'
    OBVIOUS
  <2>1. CASE UNCHANGED captureVars
    BY <2>1 DEF captureVars, CaptureInv, CaptureTypes, ForSomebody, OnlyOne, Owned, ItsOwn, Due, Taken,
                Enough, Needed, ToNext, Gone, Inside, Spaced
  <2>2. CASE RunBegins \/ RunEnds
    <3>1. UNCHANGED <<caller, armed, capture, captured, frame_count, turns, left, last_arm>> /\ running' \in BOOLEAN
      BY <2>2 DEF RunBegins, RunEnds
    <3>2. CaptureTypes'
      BY <3>1 DEF CaptureInv, CaptureTypes
    <3>3. ForSomebody' /\ OnlyOne' /\ Gone'
      BY <3>1, GoneKeeps DEF CaptureInv, ForSomebody, OnlyOne, Inside
    <3>4. Owned' /\ Enough'
      BY <3>1 DEF CaptureInv, Owned, ItsOwn, Due, Taken, Enough, Needed, ToNext, Inside, Spaced
    <3> QED BY <3>2, <3>3, <3>4 DEF CaptureInv
  <2> QED BY <2>1, <2>2, CaptureFramesKeeps, LookKeeps, TakeKeeps, StartJobKeeps, EndJobKeeps,
             RunFrameKeeps, JobFrameKeeps, GoBackKeeps DEF CaptureNext
<1> QED BY <1>1, <1>2, PTL DEF CaptureSpec

\* Frames are collected only for a caller that will take them; a lone
\* capture_frames returns as many as it asked for, evenly spaced, unless it
\* ran out of time; and the job it posts is never stopped short of them.
THEOREM CapturesComeWhole == CaptureSpec => []CaptureKept
<1>1. CaptureInv => CaptureKept
  <2> SUFFICES ASSUME CaptureInv PROVE CaptureKept
    OBVIOUS
  <2>1. armed => last_arm # NoCaller /\ Inside(last_arm)
    BY CaptureAssumption DEF CaptureInv, ForSomebody
  <2>2. ASSUME NEW c \in Callers, caller[c].alone, caller[c].at = "driven", left = 0 PROVE ~armed
    <3> SUFFICES ASSUME armed PROVE FALSE
      OBVIOUS
    <3>1. ItsOwn(c) /\ left >= Needed
      BY <2>2 DEF CaptureInv, Owned, Enough, Inside
    <3> QED BY <2>2, <3>1, OneNeeded DEF CaptureInv
  <2> QED BY <2>1, <2>2 DEF CaptureInv, Gone, CaptureKept
<1> QED BY <1>1, CaptureInvariance, PTL
=============================================================================
