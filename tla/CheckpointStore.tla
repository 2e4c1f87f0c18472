--------------------------- MODULE CheckpointStore ---------------------------
(***************************************************************************)
(* What a user of "restart: save" relies on, without files, slots or       *)
(* processes: a set of saves that can be loaded.  A save joins it at one   *)
(* instant, complete, and from then on the newest one never leaves it; of  *)
(* the older ones nothing is promised.                                     *)
(***************************************************************************)
EXTENDS Integers

VARIABLES
  newest,   (* the newest complete save, 0 if there is none                 *)
  loadable  (* the saves of which every file is there                       *)

vars == <<newest, loadable>>

(* Nothing can be loaded that was not completed, and the newest save can.  *)
Keeps(n, set) ==
  /\ set \subseteq 1 .. n
  /\ n > 0 => n \in set

Init == newest = 0 /\ loadable = {}

Commit ==
  /\ newest' \in Nat
  /\ newest' > newest
  /\ Keeps(newest', loadable')

(* Older saves leave the store while it is rearranged.                     *)
Rearrange ==
  /\ UNCHANGED newest
  /\ Keeps(newest, loadable')

Next == Commit \/ Rearrange

Spec == Init /\ [][Next]_vars
=============================================================================
