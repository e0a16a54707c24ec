---------------------------- MODULE MCFileTable ----------------------------
EXTENDS FileTable, TLC

\* Processes and inodes are interchangeable; slots are not (filealloc scans in order).
MCSymmetry == Permutations(Procs) \cup Permutations(Inums)

=============================================================================
