------------------------------ MODULE Registry ------------------------------
(***************************************************************************)
(* A server's advert: one file while it runs, kept up to date by whichever *)
(* thread loads a program, and removed on the way out                      *)
(* (cpp-core/src/server_registry.cpp, main.cpp, dap.cpp).                  *)
(***************************************************************************)
EXTENDS Naturals

CONSTANTS
  Loaders,   \* threads whose client loads a program
  Programs,
  none       \* no file, no program, no thread

Main == "main"
ASSUME RegistryAssumption == Main \notin Loaders \cup {none} /\ none \notin Loaders
Writers == Loaders \cup {Main}

VARIABLES
  process,   \* how far the process has come, and how it ended
  lock,      \* who holds g_mutex
  g_program, g_advert,
  writing,   \* how far each thread's write_locked has come
  disk,      \* the advert and the .tmp beside it
  failed     \* whether the last write came to nothing: history

registryVars == <<process, lock, g_program, g_advert, writing, disk, failed>>

RegistryInit ==
  /\ process = "starting" /\ lock = none
  /\ g_program \in Programs \cup {none}      \* --tape, noted before the advert
  /\ g_advert = FALSE /\ writing = [w \in Writers |-> "no"]
  /\ disk = [file |-> none, temp |-> none] /\ failed = FALSE

Up == process \notin {"exited", "tidied", "ended", "killed"}

-----------------------------------------------------------------------------
(* note_program and advertise: write_locked under the lock.                *)

NoteProgram(w, p) ==
  /\ Up /\ lock = none /\ w \in Loaders /\ process # "starting"
  /\ g_program' = p
  /\ IF g_advert
     THEN lock' = w /\ writing' = [writing EXCEPT ![w] = "to_open"]
     ELSE UNCHANGED <<lock, writing>>
  /\ UNCHANGED <<process, g_advert, disk, failed>>

Advertise ==
  /\ process = "starting" /\ lock = none
  /\ lock' = Main /\ g_advert' = TRUE /\ writing' = [writing EXCEPT ![Main] = "to_open"]
  /\ process' = "advertising"
  /\ UNCHANGED <<g_program, disk, failed>>

\* Over, well or not: advertise takes the path back, and then tidies nothing.
Done(w, well) ==
  /\ writing' = [writing EXCEPT ![w] = "no"] /\ lock' = none /\ failed' = ~well
  /\ g_advert' = (g_advert /\ (well \/ w # Main))
  /\ process' = IF w # Main THEN process ELSE IF well THEN "advertised" ELSE "silent"

Partial == [program |-> none, whole |-> FALSE]
Whole == [program |-> g_program, whole |-> TRUE]

Open(w) ==
  /\ Up /\ writing[w] = "to_open"
  /\ \/ disk' = [disk EXCEPT !.temp = Partial] /\ writing' = [writing EXCEPT ![w] = "to_dump"]
        /\ UNCHANGED <<process, lock, g_advert, failed>>
     \/ Done(w, FALSE) /\ UNCHANGED disk
  /\ UNCHANGED g_program

Dump(w) ==
  /\ Up /\ writing[w] = "to_dump"
  /\ \/ disk' = [disk EXCEPT !.temp = Whole] /\ writing' = [writing EXCEPT ![w] = "to_rename"]
        /\ UNCHANGED <<process, lock, g_advert, failed>>
     \/ Done(w, FALSE) /\ UNCHANGED disk
  /\ UNCHANGED g_program

Rename(w) ==
  /\ Up /\ writing[w] = "to_rename"
  /\ \/ disk' = [file |-> disk.temp, temp |-> none] /\ Done(w, TRUE)
     \/ disk' = [disk EXCEPT !.temp = none] /\ Done(w, FALSE)
  /\ UNCHANGED g_program

-----------------------------------------------------------------------------
(* The ways out.                                                           *)

WithdrawKeepingPath == disk' = [disk EXCEPT !.file = none] /\ UNCHANGED g_advert
\* withdraw, of a path that is there.
Withdraw ==
  IF g_advert THEN disk' = [disk EXCEPT !.file = none] /\ g_advert' = FALSE
  ELSE UNCHANGED <<disk, g_advert>>

\* withdraw_on_exit: the exit handler and the signals'.
WithdrawOnExit ==
  /\ process = "advertised" /\ process' = "serving"
  /\ UNCHANGED <<lock, g_program, g_advert, writing, disk, failed>>

\* The last DAP connection closed: the handlers run while other threads do.
Exit ==
  /\ process \in {"serving", "silent"}
  /\ lock = none
  /\ IF process = "serving" THEN Withdraw ELSE UNCHANGED <<disk, g_advert>>
  /\ process' = "exiting"
  /\ UNCHANGED <<lock, g_program, writing, failed>>
Exited ==
  /\ process = "exiting" /\ process' = "exited"
  /\ UNCHANGED <<lock, g_program, g_advert, writing, disk, failed>>

\* on_signal tidies if nobody holds the lock, and ends the process as the
\* signal would have; before the handlers are there it just does.
OnSignal ==
  /\ process \in {"serving", "exiting"}
  /\ IF lock = none THEN Withdraw /\ process' = "tidying"
     ELSE UNCHANGED <<disk, g_advert>> /\ process' = "ended"
  /\ UNCHANGED <<lock, g_program, writing, failed>>
Raised ==
  /\ process = "tidying" /\ process' = "tidied"
  /\ UNCHANGED <<lock, g_program, g_advert, writing, disk, failed>>
Killed ==
  /\ Up /\ process' = "killed"
  /\ UNCHANGED <<lock, g_program, g_advert, writing, disk, failed>>

RegistryNext ==
  \/ \E w \in Writers : (\E p \in Programs : NoteProgram(w, p)) \/ Open(w) \/ Dump(w) \/ Rename(w)
  \/ Advertise \/ WithdrawOnExit \/ Exit \/ Exited \/ OnSignal \/ Raised \/ Killed

RegistrySpec == RegistryInit /\ [][RegistryNext]_registryVars

-----------------------------------------------------------------------------
(* Properties.                                                             *)

\* A reader never finds half an advert, whoever ends where.  It says what
\* server_info says once a write that did not fail is over, it never comes
\* back after it was withdrawn, and it does not outlive a process that exits
\* or is interrupted, but with the lock held or before the handlers are there.
AdvertTells ==
  /\ disk.file # none => disk.file.whole
  /\ process \in {"exiting", "exited", "tidying", "tidied"} => disk.file = none
  /\ g_advert /\ lock = none /\ ~failed => disk.file = Whole
=============================================================================
