----------------------------- MODULE MCBlockMap -----------------------------
(* Two inodes on a device of NBLOCKS = 8 blocks.  NDIRECT = 1 and        *)
(* NINDIRECT = 2 give a file of 1 + 2 + 4 data blocks, so writes reach all *)
(* three levels; a full file needs eleven blocks with its indirect blocks, *)
(* so balloc runs out when one file grows deep or both grow.  Each inode   *)
(* writes one value of its own, so a block shared with the other file or   *)
(* read through a wrong pointer shows in the content.                      *)
EXTENDS BlockMap, TLC

CONSTANTS f1, f2
MCInodes == {f1, f2}
MCValuesOf == (f1 :> {1}) @@ (f2 :> {2})
\* bfree leaves a freed block's words as they were, and balloc zeroes a
\* block before anyone reads it, so the words of a free block never reach
\* a later step: states that differ only there are explored once.
MCView == <<used, [b \in Blocks |-> IF b \in used THEN blk[b] ELSE Zeroed],
            ino, panicked>>

=============================================================================
