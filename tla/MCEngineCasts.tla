--------------------------- MODULE MCEngineCasts ----------------------------
(* Three of the instances of MCEngine in one run, each behaviour with its    *)
(* own cast: everybody with one call, and one client that runs among others, *)
(* with two.                                                                 *)
EXTENDS MCEngine

VARIABLE cast

Casts == {"mixed", "tape", "runner"}
Repertoire(kind) ==
  CASE kind = "mixed" -> Mixed [] kind = "tape" -> RunnerAndTape [] kind = "runner" -> OneRunner

\* A call that begins now is one of its client's, and not one too many.  (A
\* pause leaves call as it is.)
KeepsToCast ==
  \A d \in Clients : calls'[d] # calls[d] =>
    /\ call'[d] # call[d] => call'[d] \in Repertoire(cast)[d]
    /\ cast = "mixed" => calls'[d] = 1

CastInit == cast \in Casts /\ Init
CastNext == Next /\ KeepsToCast /\ UNCHANGED cast

CastSpec == CastInit /\ [][CastNext]_<<vars, cast>> /\ Fairness

\* With one client that runs, a pause ends its run (PauseEndsLoop), whatever is
\* read, edited or typed in meanwhile.
PauseEndsRun ==
  \A d \in Clients :
    (cast # "mixed" /\ pause_requested /\ InRange(d, stack) /\ call[d] \in Loops) ~> ~InRange(d, stack)

\* With one client that runs and none that resets or loads, what subscribers
\* were last told covers the run (ViewTracksRun).
RunIsTold == cast = "runner" => ViewTracksRun
=============================================================================
