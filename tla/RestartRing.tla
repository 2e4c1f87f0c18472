----------------------------- MODULE RestartRing -----------------------------
(***************************************************************************)
(* One process that writes restart data, is killed at any moment, and is  *)
(* started again from one of the slots: the save sequence of               *)
(* MeltPoolApplication::run() (prepare_save() followed by save()), file by *)
(* file, and load().  do_save() is abstracted to "a save may be due        *)
(* whenever a time step has ended"; SimulationRun and RestartRanks model   *)
(* the decision.                                                           *)
(***************************************************************************)
EXTENDS RestartFiles

CONSTANTS
  MaxSaves,        (* bound on the number of saves begun                    *)
  MaxCut           (* bound on saves cut short since the last complete one  *)

ASSUME BoundsAssumption == MaxSaves \in Nat /\ MaxCut \in Nat

NoSuffix == "none"
ASSUME NoSuffixAssumption == NoSuffix \notin suffices

VARIABLES
  files,  (* the restart directory                                          *)
  phase,  (* "run", "copy" (prepare_save), "write" (save), "down"           *)
  slot,   (* i of the loop in prepare_save()                                *)
  todo,   (* suffixes the current loop has not finished                     *)
  open,   (* the file that is being written, or NoSuffix                    *)
  saves,  (* number of saves begun so far: names their contents             *)
  last,   (* the newest save that ran to its end, 0 if none                 *)
  row,    (* history: complete saves up to the newest with none cut between *)
  state   (* from which save the running process took its time iterator     *)
          (* and its fields (0: computed from the start)                    *)

vars == <<files, phase, slot, todo, open, saves, last, row, state>>

Fresh == [time |-> 0, fields |-> 0]

Init ==
  /\ files = [i \in Slots |-> [s \in suffices |-> NoFile]]
  /\ phase = "run"
  /\ slot = 0
  /\ todo = {}
  /\ open = NoSuffix
  /\ saves = 0
  /\ last = 0
  /\ row = 0
  /\ state = Fresh

-----------------------------------------------------------------------------
(* A file is opened (which truncates it), and later it is whole.           *)
Truncate(i, s) ==
  /\ open = NoSuffix
  /\ open' = s
  /\ files' = [files EXCEPT ![i][s] = Torn]

Complete(i, n) ==
  /\ open # NoSuffix
  /\ files' = [files EXCEPT ![i][open] = n]
  /\ todo' = todo \ {open}
  /\ open' = NoSuffix

(* Mutated: the loop of prepare_save() starts at save - 1.                 *)
BeginSaveOffByOne ==
  /\ phase = "run"
  /\ saves < MaxSaves
  /\ saves' = saves + 1
  /\ phase' = IF Save >= 2 THEN "copy" ELSE "write"
  /\ slot' = IF Save >= 2 THEN Save - 1 ELSE 0
  /\ todo' = suffices
  /\ UNCHANGED <<files, open, last, row, state>>

(* do_save() returned true: enter prepare_save() at i = save - 2, or go    *)
(* straight on to save() if that loop is empty.                            *)
BeginSave ==
  /\ phase = "run"
  /\ saves < MaxSaves
  /\ saves' = saves + 1
  /\ phase' = IF Save >= 2 THEN "copy" ELSE "write"
  /\ slot' = IF Save >= 2 THEN Save - 2 ELSE 0
  /\ todo' = suffices
  /\ UNCHANGED <<files, open, last, row, state>>

(* The problem file is the last of the suffixes.                           *)
NextToCopy(s) == s \in todo /\ (s = Problem => todo = {Problem})

(* fs::copy(overwrite_existing) from slot i to slot i + 1.                 *)
BeginCopy(s) ==
  /\ phase = "copy"
  /\ NextToCopy(s)
  /\ files[slot][s] # NoFile
  /\ Truncate(slot + 1, s)
  /\ UNCHANGED <<phase, slot, todo, saves, last, row, state>>

EndCopy ==
  /\ phase = "copy"
  /\ Complete(slot + 1, files[slot][open])
  /\ UNCHANGED <<phase, slot, saves, last, row, state>>

(* The guard fs::exists(source) fails: the destination is left as it is.   *)
SkipCopy(s) ==
  /\ phase = "copy"
  /\ open = NoSuffix
  /\ NextToCopy(s)
  /\ files[slot][s] = NoFile
  /\ todo' = todo \ {s}
  /\ UNCHANGED <<files, phase, slot, open, saves, last, row, state>>

(* Mutated: the loop of prepare_save() runs while i > 0.                   *)
NextSlotStopsAtOne ==
  /\ phase = "copy"
  /\ todo = {}
  /\ todo' = suffices
  /\ IF slot > 1
       THEN slot' = slot - 1 /\ UNCHANGED phase
       ELSE phase' = "write" /\ UNCHANGED slot
  /\ UNCHANGED <<files, open, saves, last, row, state>>

(* --i, and save() after slot 0.                                           *)
NextSlot ==
  /\ phase = "copy"
  /\ todo = {}
  /\ todo' = suffices
  /\ IF slot > 0
       THEN slot' = slot - 1 /\ UNCHANGED phase
       ELSE phase' = "write" /\ UNCHANGED slot
  /\ UNCHANGED <<files, open, saves, last, row, state>>

(* save(): the archive with time iterator and output list is written       *)
(* first, in a scope of its own; then Triangulation::save() writes its     *)
(* files one after the other, in an order that is the library's.           *)
NextToWrite(s) == s \in todo /\ (Problem \in todo => s = Problem)

BeginWrite(s) ==
  /\ phase = "write"
  /\ NextToWrite(s)
  /\ Truncate(0, s)
  /\ UNCHANGED <<phase, slot, todo, saves, last, row, state>>

(* Mutated: save() returns as soon as the archive is written.              *)
EndWriteArchiveOnly ==
  /\ phase = "write"
  /\ Complete(0, saves)
  /\ IF open = Problem
       THEN phase' = "run" /\ last' = saves /\ row' = row + 1
       ELSE UNCHANGED <<phase, last, row>>
  /\ UNCHANGED <<slot, saves, state>>

(* After the last file save() returns and the time loop goes on.           *)
EndWrite ==
  /\ phase = "write"
  /\ Complete(0, saves)
  /\ IF todo = {open}
       THEN phase' = "run" /\ last' = saves /\ row' = row + 1
       ELSE UNCHANGED <<phase, last, row>>
  /\ UNCHANGED <<slot, saves, state>>

-----------------------------------------------------------------------------
Saving == phase \in {"copy", "write"}

(* How many saves were begun since the newest complete one.                *)
Spoilt == saves - last

(* The job is killed (wall-clock limit of the cluster, node failure).      *)
Crash ==
  /\ phase # "down"
  /\ Saving => Spoilt <= MaxCut
  /\ phase' = "down"
  /\ slot' = 0
  /\ todo' = {}
  /\ open' = NoSuffix
  /\ row' = IF Saving THEN 0 ELSE row
  /\ state' = Fresh
  /\ UNCHANGED <<files, saves, last>>

(* A new job with "load" = -1.                                             *)
StartFresh ==
  /\ phase = "down"
  /\ phase' = "run"
  /\ UNCHANGED <<files, slot, todo, open, saves, last, row, state>>

(* A new job with "load" = i.  load() only asks whether the problem file   *)
(* exists; it reads the archive, then the mesh and the vectors.  A torn    *)
(* file ends the job with an exception (a stuttering step); which of the   *)
(* mesh files decides when they stem from two saves is left open.          *)
StartLoad(i) ==
  /\ phase = "down"
  /\ Readable(files, i)
  /\ \E s \in TriaSuffix :
       state' = [time |-> files[i][Problem], fields |-> files[i][s]]
  /\ phase' = "run"
  /\ UNCHANGED <<files, slot, todo, open, saves, last, row>>

Next ==
  \/ BeginSave
  \/ \E s \in suffices : BeginCopy(s)
  \/ EndCopy
  \/ \E s \in suffices : SkipCopy(s)
  \/ NextSlot
  \/ \E s \in suffices : BeginWrite(s)
  \/ EndWrite
  \/ Crash
  \/ StartFresh
  \/ \E i \in Slots : StartLoad(i)

Spec == Init /\ [][Next]_vars

-----------------------------------------------------------------------------
(* Types, and the ranges of the loop variables of prepare_save() in each   *)
(* phase.                                                                  *)
TypeOK ==
  /\ files \in Files
  /\ phase \in {"run", "copy", "write", "down"}
  /\ slot \in Slots
  /\ todo \subseteq suffices
  /\ open \in suffices \cup {NoSuffix}
  /\ saves \in Nat
  /\ last \in 0 .. saves
  /\ row \in 0 .. last
  /\ state \in [time : Nat, fields : Nat]
  /\ phase = "copy" => Save >= 2 /\ slot <= Save - 2
  /\ Saving => saves > last
  /\ open # NoSuffix => Saving /\ open \in todo

(* The files of the newest complete save survive, in one slot, every       *)
(* moment of a later save and every kill, as long as the saves begun since *)
(* are fewer than the slots of the ring (restart.cpp, prepare_save(): the  *)
(* slots are shifted from the oldest on, so that the slot a later copy or  *)
(* save() truncates has been copied before).                               *)
LastSaveLoadable ==
  last > 0 /\ Spoilt <= LastSlot => \E i \in Slots : Holds(files, i, last)

(* Between saves slot i holds the i-th save before the newest, as far back *)
(* as no save was cut short (restart_data.cpp: "how many restart files     *)
(* should be kept").                                                       *)
HistoryKept ==
  ~Saving => \A i \in Slots : i < row => Holds(files, i, last - i)

(* If MaxCut + 1 <= LastSlot, that is, unless more saves in a row are cut   *)
(* short than the ring has slots to spare, the ring implements the store   *)
(* its user relies on.                                                     *)
LoadableSaves == {n \in 1 .. saves : \E i \in Slots : Holds(files, i, n)}

Store == INSTANCE CheckpointStore WITH newest <- last,
                                       loadable <- LoadableSaves

ImplementsStore == Store!Spec

(* What restart.hpp promises of a load ("Reconstruct all solution vectors  *)
(* that are saved in the restart data, given by the prefix"): the time     *)
(* iterator and the fields of the resumed run are those of one save.       *)
LoadedStateIsOneSave == state.time = state.fields
=============================================================================
