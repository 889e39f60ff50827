------------------------------ MODULE CowStore ------------------------------
(***************************************************************************)
(* What a COW file promises its users (the snapshot reader, the change     *)
(* tracker, update-img): a map from the blocks of the traced device to     *)
(* what is known of them since the snapshot was taken.                     *)
(*                                                                         *)
(*   Unmapped  the block has not changed                                   *)
(*   Changed   the block has changed, its old content is not kept          *)
(*   a value   the block has changed, and this was its content             *)
(*                                                                         *)
(* The old content of a block is set once: the first one preserved is the  *)
(* one at the time of the snapshot.  The map is lost for good when the     *)
(* driver fails or the machine goes down with the file in use.             *)
(***************************************************************************)
CONSTANTS Blocks, Values, Unmapped, Changed

VARIABLES store, lost

vars == <<store, lost>>

NothingStored == [b \in Blocks |-> Unmapped]

Init ==
  /\ store = NothingStored
  /\ lost = TRUE

\* A new file for a new snapshot.
Create ==
  /\ store' = NothingStored
  /\ lost' = FALSE

\* The old content of a block that has not changed before.
Preserve(b, v) ==
  /\ ~lost
  /\ store[b] = Unmapped
  /\ store' = [store EXCEPT ![b] = v]
  /\ UNCHANGED lost

\* In incremental mode only the fact of the change is recorded.
Mark(b) ==
  /\ ~lost
  /\ store' = [store EXCEPT ![b] = Changed]
  /\ UNCHANGED lost

\* The transition to incremental mode gives up the old contents.
DropContents ==
  /\ ~lost
  /\ store' = [b \in Blocks |-> IF store[b] = Unmapped THEN Unmapped ELSE Changed]
  /\ UNCHANGED lost

Lose ==
  /\ store' = NothingStored
  /\ lost' = TRUE

Next ==
  \/ Create
  \/ \E b \in Blocks, v \in Values : Preserve(b, v)
  \/ \E b \in Blocks : Mark(b)
  \/ DropContents
  \/ Lose

Spec == Init /\ [][Next]_vars
=============================================================================
