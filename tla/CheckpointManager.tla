------------------------- MODULE CheckpointManager -------------------------
(***************************************************************************)
(* Retention in BaseCheckpointManager (utils/checkpoint/                   *)
(* checkpoint_manager.py): the list previous_saved_paths, oldest first,    *)
(* and what is removed from it and from the disk before and after a save.  *)
(* keep is max_ckpt_to_keep; 0 stands for None (keep everything).          *)
(***************************************************************************)
EXTENDS Naturals, Sequences

Newest(paths, n) ==
  IF Len(paths) > n THEN SubSeq(paths, Len(paths) - n + 1, Len(paths)) ELSE paths

\* Mutant: makes no room.
PathsAfterNoEnsure(paths, keep) == paths

\* Mutant: removes one checkpoint too many.
PathsAfterGreedyEnsure(paths, keep) ==
  IF keep > 1 THEN Newest(paths, keep - 2) ELSE paths

\* ensure_checkpoint_capacity: with keep = 1 nothing is removed before the save.
PathsAfterEnsure(paths, keep) ==
  IF keep > 1 THEN Newest(paths, keep - 1) ELSE paths

\* register_checkpoint
PathsAfterRegister(paths, new, keep) ==
  IF keep > 0 THEN Newest(Append(paths, new), keep) ELSE Append(paths, new)

\* What a shorter list removes from the disk.
Dropped(before, after) ==
  {before[i] : i \in 1 .. Len(before)} \ {after[i] : i \in 1 .. Len(after)}
=============================================================================
