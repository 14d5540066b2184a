------------------------- MODULE MCSnapshotChannel -------------------------
(* A map of two groups, snapshots of one part, of two, and one that just fills
   a part, whose header counts a second that is never sent. *)
EXTENDS SnapshotChannel
=============================================================================
