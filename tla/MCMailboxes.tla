---------------------------- MODULE MCMailboxes -----------------------------
(* What client threads leave for the emulator thread and fetch from it, for  *)
(* TLC: commands to the tape deck, logpoints and their reports, captured     *)
(* frames.  The three share no state, so each behaviour moves one, part.     *)
EXTENDS TapeHandover, Logpoints, FrameCapture

VARIABLE part

Asks == [count : {1, 2}, every : {1, 2}] \cup {[count |-> 0, every |-> 1]}

MailboxesInit ==
  /\ part \in {"tape", "log", "frames"}
  /\ Init /\ LogInit /\ CaptureInit

MailboxesNext ==
  /\ UNCHANGED part
  /\ \/ part = "tape" /\ Next /\ UNCHANGED <<logVars, captureVars>>
     \/ part = "log" /\ LogNext /\ UNCHANGED <<vars, captureVars>>
     \/ part = "frames" /\ CaptureNext /\ UNCHANGED <<vars, logVars>>

MailboxesSpec == MailboxesInit /\ [][MailboxesNext]_<<part, vars, logVars, captureVars>>
=============================================================================
