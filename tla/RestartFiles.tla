---------------------------- MODULE RestartFiles ----------------------------
(***************************************************************************)
(* The files of a restart directory: slot i of the ring is the family      *)
(* prefix_<i><suffix>, one file per suffix.  A file that is completely     *)
(* written is represented by the number of the save that produced its     *)
(* bytes; what the bytes say (time iterator, output list, mesh, solution   *)
(* vectors) is not distinguished any further.                              *)
(*                                                                         *)
(* Code: source/utilities/restart.cpp, include/.../utilities/restart.hpp.  *)
(***************************************************************************)
EXTENDS Integers

CONSTANTS
  Save,       (* parameter "restart: save", number of slots in the ring     *)
  TriaSuffix, (* suffixes written by Triangulation::save()                  *)
  Problem,    (* suffix "_problem.restart", written by the application      *)
  NoFile,     (* the file does not exist                                    *)
  Torn        (* the file is truncated or only partly written               *)

ASSUME SaveAssumption == Save \in Nat
ASSUME SuffixAssumption == Problem \notin TriaSuffix
ASSUME ContentAssumption == /\ NoFile \notin Nat
                            /\ Torn \notin Nat
                            /\ NoFile # Torn

suffices == TriaSuffix \cup {Problem}

(* prepare_save() copies slot i to slot i+1 for i = save-2 .. 0, so that    *)
(* save = 0 uses one slot just as save = 1 does.                           *)
LastSlot == IF Save >= 1 THEN Save - 1 ELSE 0
Slots == 0 .. LastSlot

Content == Nat \cup {NoFile, Torn}
Files == [Slots -> [suffices -> Content]]

(* Every file of slot i is whole and stems from save number n.             *)
Holds(f, i, n) == \A s \in suffices : f[i][s] = n

(* The archive and the mesh data of slot i can be read from start to end:  *)
(* load() has no way to see whether they stem from the same save.          *)
Readable(f, i) == \A s \in suffices : f[i][s] \in Nat
=============================================================================
