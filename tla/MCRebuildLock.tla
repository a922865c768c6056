--------------------------- MODULE MCRebuildLock ---------------------------
(* RebuildLock for TLC, safety and liveness in one run, hence without      *)
(* symmetry.  One inode more than processes is enough: every live inode is *)
(* at the path or open in a process.                                       *)
EXTENDS RebuildLock, TLC
=============================================================================
