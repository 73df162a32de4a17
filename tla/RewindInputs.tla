---------------------------- MODULE RewindInputs ----------------------------
(***************************************************************************)
(* What the Engine feeds the history (cpp-core/src/engine.cpp: sync_keys,  *)
(* the fast load part of service_tape, restart_history), composed with     *)
(* the history itself.                                                     *)
(*                                                                         *)
(* The keys and the fast load setting live outside the machine and are     *)
(* brought into it between commands and at yields, as inputs, only when    *)
(* they changed: the keys a person holds are no news to a machine in the   *)
(* past.  The joysticks follow the keys' rule.                             *)
(***************************************************************************)
EXTENDS Rewind

CONSTANT MaxChanges  \* bound: changes made from outside

VARIABLES
  keys,         \* keys_: what is held down
  synced_keys,  \* synced_keys_
  fast,         \* tape_fast_load_
  synced_fast,  \* synced_fast_load_
  fast_pending, \* tape_change_pending_
  start,        \* the machine's keys and fast load when the history began
  looked,       \* the last step was a look at the keys
  changes       \* changes made from outside

outside == <<keys, synced_keys, fast, synced_fast, fast_pending, start, looked, changes>>
allVars == <<vars, outside>>

ASSUME InputsAssumption ==
  /\ Inputs = {"k0", "k1", "f0", "f1"}
  /\ MaxChanges \in Nat

Keys(k) == IF k THEN "k1" ELSE "k0"
FastLoad(f) == IF f THEN "f1" ELSE "f0"

\* The last of these inputs the machine m had, or what it began with.
LastOf(m, off, on, begin) ==
  LET had == {i \in DOMAIN m.did : m.did[i] \in {off, on}}
  IN IF had = {} THEN begin ELSE m.did[Largest(had)] = on

MachineKeys == LastOf(machine, "k0", "k1", start.keys)
MachineFast == LastOf(machine, "f0", "f1", start.fast)

InitInputs ==
  /\ Init
  /\ keys = FALSE /\ synced_keys = FALSE
  /\ fast = TRUE /\ synced_fast = TRUE
  /\ fast_pending = FALSE
  /\ start = [keys |-> FALSE, fast |-> TRUE]
  /\ looked = FALSE
  /\ changes = 0

-----------------------------------------------------------------------------
(* From outside.                                                           *)

PressOrRelease ==
  /\ changes < MaxChanges
  /\ changes' = changes + 1 /\ looked' = FALSE
  /\ keys' = ~keys
  /\ UNCHANGED <<vars, synced_keys, fast, synced_fast, fast_pending, start>>

\* set_tape_fast_load.
SetFastLoad ==
  /\ changes < MaxChanges
  /\ changes' = changes + 1 /\ looked' = FALSE
  /\ fast' = ~fast
  /\ fast_pending' = TRUE
  /\ UNCHANGED <<vars, keys, synced_keys, synced_fast, start>>

-----------------------------------------------------------------------------
(* On the emulator thread.                                                 *)

SyncChangedKeys ==
  /\ synced_keys' = keys /\ looked' = TRUE
  /\ IF keys = synced_keys THEN UNCHANGED vars ELSE Input(Keys(keys))
  /\ UNCHANGED <<keys, fast, synced_fast, fast_pending, start, changes>>


\* sync_keys: live, the machine's keys are made those held; in the past, only
\* a change since the last look is an input.
SyncKeys ==
  /\ synced_keys' = keys /\ looked' = TRUE
  /\ IF keys = (IF live THEN MachineKeys ELSE synced_keys)
     THEN UNCHANGED vars
     ELSE Input(Keys(keys))
  /\ UNCHANGED <<keys, fast, synced_fast, fast_pending, start, changes>>

\* service_tape: the setting is an input if it is not the one last taken.
ServiceFastLoad ==
  /\ fast_pending
  /\ fast_pending' = FALSE /\ looked' = FALSE
  /\ synced_fast' = fast
  /\ IF fast = synced_fast THEN UNCHANGED vars ELSE Input(FastLoad(fast))
  /\ UNCHANGED <<keys, synced_keys, fast, start, changes>>

\* restart_history, after a reset (which lets go of every key), a snapshot or
\* a change of model.
RestartInputs ==
  /\ Restart
  /\ \E k \in {MachineKeys, FALSE} :
       /\ start' = [keys |-> k, fast |-> MachineFast]
       /\ synced_keys' = k
       /\ synced_fast' = MachineFast
       /\ looked' = FALSE
  /\ UNCHANGED <<keys, fast, fast_pending, changes>>

Move ==
  /\ \/ StepLive \/ StepPast \/ GoBack \/ ReturnToLive
     \/ \E span \in RawSpans : Raw(span)
  /\ looked' = FALSE
  /\ UNCHANGED <<keys, synced_keys, fast, synced_fast, fast_pending, start, changes>>

NextInputs ==
  \/ PressOrRelease \/ SetFastLoad
  \/ SyncKeys \/ ServiceFastLoad
  \/ RestartInputs \/ Move

SpecInputs == InitInputs /\ [][NextInputs]_allVars

-----------------------------------------------------------------------------
(* Properties.                                                             *)

\* Whenever the machine is live and the keys have just been looked at, it has
\* the keys that are held, however it came to be live.
KeysFollow == looked /\ live => MachineKeys = keys

\* And they are there without ever having passed for news: going back and forth
\* presses no keys, and the past is branched from only when the keys, or the
\* setting, are not what they were when last looked at, or the machine is
\* clocked raw there.
KeysAreNoNews ==
  [][/\ KeysFollow'
     /\ ~live /\ live' /\ timeline' # timeline /\ log' # <<>> =>
          \/ keys # synced_keys \/ fast # synced_fast
          \/ log'[Len(log')].input = "raw"]_allVars

\* Whenever the machine is live and no request is waiting, it has the fast
\* load setting that was asked for.
FastLoadFollows == live /\ ~fast_pending => MachineFast = fast
=============================================================================
