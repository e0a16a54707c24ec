---------------------------- MODULE AbstractFile ----------------------------
(***************************************************************************)
(* What the block-index layer of src/fs.c promises its callers: each inode *)
(* is a sequence of bytes.  A write at an offset no greater than the size  *)
(* overwrites and extends it, bounded by the maximum file size; truncation *)
(* empties it.  Nothing else changes a file.                               *)
(***************************************************************************)
EXTENDS Naturals, Sequences

CONSTANTS
    Inodes,     \* the inodes whose content is modelled
    Values,     \* byte values a write may store
    MAXBYTES    \* MAXFILE * BSIZE

VARIABLE content  \* content[ip]: the bytes of ip, a sequence of length size

\* The bytes after writing n copies of v at offset off.
Overwrite(c, off, n, v) ==
    [j \in 1..(IF off + n > Len(c) THEN off + n ELSE Len(c)) |->
        IF j > off /\ j <= off + n THEN v ELSE c[j]]

AInit == content = [ip \in Inodes |-> <<>>]

\* A step changes one file: it truncates it or writes n copies of v at off.
AWrite(old, new, off, n, v) ==
    /\ off <= Len(old)
    /\ off + n <= MAXBYTES
    /\ new = Overwrite(old, off, n, v)

ATruncate(new) == new = <<>>

\* The write that produced `new`, if any, starts at some off <= Len(old),
\* stores the value new[off + 1] and ends within new (its length is at
\* least off + n), so only those off and n are tried.
ANext ==
    \E ip \in Inodes : \E old \in {content[ip]} : \E new \in {content'[ip]} :
        /\ \A j \in Inodes \ {ip} : content'[j] = content[j]
        /\ \/ ATruncate(new)
           \/ \E off \in 0..Len(old) : \E n \in 1..(Len(new) - off) :
                /\ new[off + 1] \in Values
                /\ AWrite(old, new, off, n, new[off + 1])

ASpec == AInit /\ [][ANext]_content
=============================================================================
