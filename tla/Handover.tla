------------------------------ MODULE Handover ------------------------------
(***************************************************************************)
(* What a handover to the emulator thread promises (engine.h, the comments *)
(* on trace_requested_ and tape_requested_): a caller asks for a           *)
(* change and waits; the emulator thread takes up everything asked for so  *)
(* far at once, the last request superseding the ones before it; and a     *)
(* caller is let go only after its own request was taken up.               *)
(***************************************************************************)
CONSTANT Clients

VARIABLE stage  \* where each caller is: "idle", "asked" or "taken"

Init == stage = [c \in Clients |-> "idle"]

Ask(c) ==
  /\ stage[c] = "idle"
  /\ stage' = [stage EXCEPT ![c] = "asked"]

TakeUp ==
  /\ \E c \in Clients : stage[c] = "asked"
  /\ stage' = [c \in Clients |-> IF stage[c] = "asked" THEN "taken" ELSE stage[c]]

Release(c) ==
  /\ stage[c] = "taken"
  /\ stage' = [stage EXCEPT ![c] = "idle"]

Next == TakeUp \/ \E c \in Clients : Ask(c) \/ Release(c)

Spec == Init /\ [][Next]_stage

Fairness == WF_stage(TakeUp) /\ \A c \in Clients : WF_stage(Release(c))

FairSpec == Spec /\ Fairness
=============================================================================
