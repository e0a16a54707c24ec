---------------------------- MODULE MCInodeCache ----------------------------
(* Three threads, a cache of two entries, a device of two inodes.  With     *)
(* fewer entries than threads iget can run out; with two inodes ialloc can. *)
EXTENDS InodeCache, TLC

CONSTANTS t1, t2, t3
MCThreads == {t1, t2, t3}
=============================================================================
