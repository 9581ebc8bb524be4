-------------------------- MODULE MCSnapshotStore --------------------------
(* Two tags, a stale and a current extractor, an old and the running       *)
(* format, snapshots of a header and one module.  Any number of verbs runs *)
(* on t2 at once, one at a time on t1.                                     *)
EXTENDS SnapshotStore, TLC

MCSymmetry == Permutations(Procs)
=============================================================================
