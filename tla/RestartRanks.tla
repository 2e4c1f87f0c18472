---------------------------- MODULE RestartRanks ----------------------------
(***************************************************************************)
(* The save sequence of MeltPoolApplication::run() on several MPI ranks,   *)
(* with "restart: save" = 2: every rank asks its own RestartMonitor,       *)
(* prepare_save() works on rank 0 only and synchronises nothing, save()    *)
(* writes the archive from every rank and the mesh collectively.  Files of *)
(* the mesh are one file here, because Triangulation::save() is one        *)
(* collective call (external); a file under a writer's hands is Partial.   *)
(* Its names differ from those of RestartRing, so that one module can      *)
(* extend both.                                                            *)
(***************************************************************************)
EXTENDS Integers

CONSTANTS
  Ranks, Root,  (* Root is rank 0                                           *)
  RealClock,    (* "time type": real, as opposed to simulation              *)
  MaxSteps,     (* bound on the number of time steps                        *)
  Missing, Partial

ASSUME RanksAssumption ==
  /\ Root \in Ranks
  /\ RealClock \in BOOLEAN
  /\ MaxSteps \in Nat
  /\ Missing \notin Nat /\ Partial \notin Nat /\ Missing # Partial

VARIABLES
  step,  (* time_iterator's step number, equal on all ranks                 *)
  pc,    (* where each rank is                                              *)
  ring   (* slot -> [problem, tria] -> step whose data the file holds       *)

ranksVars == <<step, pc, ring>>

SlotPair == {0, 1}
Suffices == {"tria", "problem"}
RanksContent == (0 .. MaxSteps) \cup {Missing, Partial}
Places == {"step", "ask", "copy tria", "copy problem", "open", "write", "tria"}

RanksInit ==
  /\ step = 0
  /\ pc = [r \in Ranks |-> "step"]
  /\ ring = [i \in SlotPair |-> [s \in Suffices |-> Missing]]

Go(r, from, to) == pc[r] = from /\ pc' = [pc EXCEPT ![r] = to]

(* The solvers communicate: no rank ends a time step before all are in it. *)
TimeStep ==
  /\ \A r \in Ranks : pc[r] = "step"
  /\ step < MaxSteps
  /\ step' = step + 1
  /\ pc' = [r \in Ranks |-> "ask"]
  /\ UNCHANGED ring

(* The first action of a rank whose do_save() returned true: rank 0 enters *)
(* the loop over the suffixes, the others return from prepare_save().      *)
AfterAsk(r) == IF r = Root THEN "copy tria" ELSE "open"

(* do_save(): on simulation time the same numbers are compared on every    *)
(* rank; on the system clock each rank compares its own clock with its own *)
(* last_written_time, and may come to another answer.                      *)
SameAnswer(save) == \A q \in Ranks : pc[q] # "ask" => (save <=> pc[q] # "step")

DoSave(r) ==
  /\ \E save \in BOOLEAN :
       /\ RealClock \/ SameAnswer(save)
       /\ Go(r, "ask", IF save THEN AfterAsk(r) ELSE "step")
  /\ UNCHANGED <<step, ring>>

(* prepare_save() on rank 0: slot 0 to slot 1, as it is found.             *)
Copied(s) ==
  IF ring[0][s] = Missing THEN ring ELSE [ring EXCEPT ![1][s] = ring[0][s]]

CopyTria ==
  /\ Go(Root, "copy tria", "copy problem")
  /\ ring' = Copied("tria")
  /\ UNCHANGED step

CopyProblem ==
  /\ Go(Root, "copy problem", "open")
  /\ ring' = Copied("problem")
  /\ UNCHANGED step

(* save(): std::ofstream truncates the archive, on every rank.             *)
OpenArchive(r) ==
  /\ Go(r, "open", "write")
  /\ ring' = [ring EXCEPT ![0].problem = Partial]
  /\ UNCHANGED step

(* The archive is complete and flushed when its scope ends.                *)
WriteArchive(r) ==
  /\ Go(r, "write", "tria")
  /\ ring' = [ring EXCEPT ![0].problem = step]
  /\ UNCHANGED step

(* Mutated: rank 0 writes the mesh without waiting for the others.         *)
SaveTriaAlone ==
  /\ pc[Root] = "tria"
  /\ ring' = [ring EXCEPT ![0].tria = step]
  /\ pc' = [pc EXCEPT ![Root] = "step"]
  /\ UNCHANGED step

(* Triangulation::save() is collective.                                    *)
SaveTria ==
  /\ \A r \in Ranks : pc[r] = "tria"
  /\ ring' = [ring EXCEPT ![0].tria = step]
  /\ pc' = [r \in Ranks |-> "step"]
  /\ UNCHANGED step

RanksNext ==
  \/ TimeStep
  \/ \E r \in Ranks : DoSave(r)
  \/ CopyTria
  \/ CopyProblem
  \/ \E r \in Ranks : OpenArchive(r)
  \/ \E r \in Ranks : WriteArchive(r)
  \/ SaveTria

RanksSpec == RanksInit /\ [][RanksNext]_ranksVars

(* MPI processes are scheduled by the operating system and keep running.   *)
RanksFairSpec == RanksSpec /\ WF_ranksVars(RanksNext)

-----------------------------------------------------------------------------
(* Types; only rank 0 is ever inside prepare_save().                       *)
RanksTypeOK ==
  /\ step \in 0 .. MaxSteps
  /\ pc \in [Ranks -> Places]
  /\ ring \in [SlotPair -> [Suffices -> RanksContent]]
  /\ \A r \in Ranks : pc[r] \in {"copy tria", "copy problem"} => r = Root

(* When any rank is out of save() again, the archive that every rank wrote *)
(* over every other and the mesh in slot 0 are whole and of one step.      *)
SlotZeroCoherent ==
  (\E r \in Ranks : pc[r] = "step") => ring[0].tria = ring[0].problem /\ ring[0].tria # Partial

(* A rank that begins to save comes out of save() again.                   *)
SaveCompletes == \A r \in Ranks : pc[r] = "open" ~> pc[r] = "step"

(* restart.hpp: "copy existing restart files"; what is copied is what the  *)
(* last save left, so slot 1 is a whole set of files of one earlier step.  *)
CopyIsOneSave ==
  (\A r \in Ranks : pc[r] = "step") => ring[1].tria = ring[1].problem
=============================================================================
