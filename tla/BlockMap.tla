------------------------------ MODULE BlockMap ------------------------------
(***************************************************************************)
(* The block allocator and the block-index map of src/fs.c: balloc, bfree, *)
(* bmap with direct, single-indirect and double-indirect levels, itrunc,   *)
(* readi and writei, for several inodes sharing one device.                *)
(*                                                                         *)
(* A disk block is an array of Width words: a data block uses the first   *)
(* BSIZE of them as bytes, an index block the first NINDIRECT as block     *)
(* numbers.  Both views share the words, so a block owned twice corrupts   *)
(* whatever the other owner reads.  Block number 0 means "none".  writei   *)
(* and itrunc each run under the inode's I_BUSY lock inside one log        *)
(* transaction, and balloc's test-and-set of a bitmap bit is done on the   *)
(* exclusively held bitmap buffer, so each is one step here.  A panic in   *)
(* the middle of a step stops the kernel before its transaction commits:  *)
(* the disk keeps its state from before the step.                          *)
(***************************************************************************)
EXTENDS Naturals, Sequences, FiniteSetsExt

CONSTANTS
    Inodes,     \* the inodes on the device
    NDIRECT,    \* direct entries in addrs[]
    NINDIRECT,  \* block numbers per index block (BSIZE / sizeof(uint))
    BSIZE,      \* bytes per data block
    NBLOCKS,    \* data blocks 1..NBLOCKS the bitmap hands out
    Values,     \* byte values a write may store
    ValuesOf    \* ValuesOf[ip]: the values the writes to ip store

ASSUME NDIRECT \in Nat \ {0} /\ NINDIRECT \in Nat \ {0} /\ BSIZE \in Nat \ {0}
ASSUME Values \subseteq 1..NBLOCKS /\ ValuesOf \in [Inodes -> SUBSET Values]

MAXFILE == NDIRECT + NINDIRECT + NINDIRECT * NINDIRECT
MAXBYTES == MAXFILE * BSIZE
Blocks == 1..NBLOCKS
Width == IF BSIZE > NINDIRECT THEN BSIZE ELSE NINDIRECT
Words == 0..(Width - 1)
Zeroed == [w \in Words |-> 0]
NoPanic == "none"

VARIABLES
    used,      \* the bitmap: blocks whose bit is set
    blk,       \* blk[b][w]: word w of disk block b
    ino,       \* ino[ip]: [addrs, indirect2, size] of the dinode
    panicked   \* the panic message, once the kernel has stopped

vars == <<used, blk, ino, panicked>>

EmptyInode == [addrs |-> [k \in 0..NDIRECT |-> 0], indirect2 |-> 0, size |-> 0]

\* The type of every variable.  The only panic the block layer may reach is
\* running out of blocks: writei's MAXFILE check keeps bmap in range, and
\* itrunc never hands bfree a block that is already free.
TypeOK ==
    /\ used \subseteq Blocks
    /\ blk \in [Blocks -> [Words -> 0..NBLOCKS]]
    /\ ino \in [Inodes -> [addrs : [0..NDIRECT -> 0..NBLOCKS],
                           indirect2 : 0..NBLOCKS, size : 0..MAXBYTES]]
    /\ panicked \in {NoPanic, "balloc: out of blocks"}

\* mkfs: every data block free (its content whatever it is), every inode empty.
Init ==
    /\ used = {}
    /\ blk = [b \in Blocks |-> Zeroed]
    /\ ino = [ip \in Inodes |-> EmptyInode]
    /\ panicked = NoPanic

\* The state the pure operators below thread through a handler.
Cur == [used |-> used, blk |-> blk, ino |-> ino, panic |-> NoPanic]

(***************************************************************************)
(* balloc: the first block whose bitmap bit is clear is marked in use and  *)
(* zeroed (bzero).  Result: [s |-> new state, a |-> block or 0].           *)
(***************************************************************************)
BallocNoZero(S) ==
    LET free == Blocks \ S.used IN
    IF free = {} THEN [s |-> [S EXCEPT !.panic = "balloc: out of blocks"], a |-> 0]
    ELSE [s |-> [S EXCEPT !.used = @ \cup {Min(free)}], a |-> Min(free)]

Balloc(S) ==
    LET free == Blocks \ S.used IN
    IF free = {} THEN [s |-> [S EXCEPT !.panic = "balloc: out of blocks"], a |-> 0]
    ELSE [s |-> [S EXCEPT !.used = @ \cup {Min(free)}, !.blk[Min(free)] = Zeroed],
          a |-> Min(free)]

\* bfree: clear the bit; a clear bit is a double free and panics.
Bfree(S, b) ==
    IF b \notin S.used THEN [S EXCEPT !.panic = "freeing free block"]
    ELSE [S EXCEPT !.used = @ \ {b}]

\* bmap's "if((addr = X) == 0) X = addr = balloc(dev)" for X = addrs[k] ...
InAddrs(S, ip, k) ==
    IF S.ino[ip].addrs[k] # 0 THEN [s |-> S, a |-> S.ino[ip].addrs[k]]
    ELSE LET r == Balloc(S) IN
         [s |-> [r.s EXCEPT !.ino[ip].addrs[k] = r.a], a |-> r.a]

\* ... for X = indirect2 ...
InIndirect2(S, ip) ==
    IF S.ino[ip].indirect2 # 0 THEN [s |-> S, a |-> S.ino[ip].indirect2]
    ELSE LET r == Balloc(S) IN
         [s |-> [r.s EXCEPT !.ino[ip].indirect2 = r.a], a |-> r.a]

\* ... and for X = a[j], word j of index block b (then log_write(bp)).
InBlock(S, b, j) ==
    IF S.panic # NoPanic THEN [s |-> S, a |-> 0]
    ELSE IF S.blk[b][j] # 0 THEN [s |-> S, a |-> S.blk[b][j]]
    ELSE LET r == Balloc(S) IN
         [s |-> IF r.a = 0 THEN r.s ELSE [r.s EXCEPT !.blk[b][j] = r.a], a |-> r.a]

(***************************************************************************)
(* bmap(ip, bn): the block holding block bn of the file, allocating every  *)
(* missing level on the way.  Past the double-indirect range it panics.   *)
(***************************************************************************)
BmapDirectOffByOne(S, ip, bn) ==
    IF bn <= NDIRECT THEN InAddrs(S, ip, bn)
    ELSE IF bn - NDIRECT < NINDIRECT
    THEN LET r == InAddrs(S, ip, NDIRECT) IN InBlock(r.s, r.a, bn - NDIRECT)
    ELSE LET k == bn - NDIRECT - NINDIRECT
             r1 == InIndirect2(S, ip)
             r2 == InBlock(r1.s, r1.a, k \div NINDIRECT)
         IN IF k < NINDIRECT * NINDIRECT
            THEN InBlock(r2.s, r2.a, k % NINDIRECT)
            ELSE [s |-> [S EXCEPT !.panic = "bmap: out of range"], a |-> 0]

bmap(S, ip, bn) ==
    IF bn < NDIRECT THEN InAddrs(S, ip, bn)
    ELSE IF bn - NDIRECT < NINDIRECT
    THEN LET r == InAddrs(S, ip, NDIRECT) IN InBlock(r.s, r.a, bn - NDIRECT)
    ELSE LET k == bn - NDIRECT - NINDIRECT
             r1 == InIndirect2(S, ip)
             r2 == InBlock(r1.s, r1.a, k \div NINDIRECT)
         IN IF k < NINDIRECT * NINDIRECT
            THEN InBlock(r2.s, r2.a, k % NINDIRECT)
            ELSE [s |-> [S EXCEPT !.panic = "bmap: out of range"], a |-> 0]

MinOf(a, b) == IF a < b THEN a ELSE b

(***************************************************************************)
(* writei's loop: per chunk, bmap the block of off, copy m bytes into it.  *)
(***************************************************************************)
RECURSIVE WriteChunks(_, _, _, _, _)
WriteChunks(S, ip, off, n, v) ==
    IF n = 0 \/ S.panic # NoPanic THEN S
    ELSE LET r == bmap(S, ip, off \div BSIZE)
             m == MinOf(n, BSIZE - (off % BSIZE))
         IN IF r.s.panic # NoPanic THEN r.s
            ELSE WriteChunks(
                   [r.s EXCEPT !.blk[r.a] =
                       [w \in Words |-> IF w >= off % BSIZE /\ w < (off % BSIZE) + m
                                        THEN v ELSE @[w]]],
                   ip, off + m, n - m, v)

\* Commit a handler's final state, or stop the kernel on its panic.
Commit(S) ==
    IF S.panic = NoPanic
    THEN /\ used' = S.used /\ blk' = S.blk /\ ino' = S.ino
         /\ UNCHANGED panicked
    ELSE /\ panicked' = S.panic
         /\ UNCHANGED <<used, blk, ino>>

(***************************************************************************)
(* writei(ip, src, off, n) of a regular file: rejected if off > size or    *)
(* off + n > MAXFILE*BSIZE; otherwise written chunk by chunk, and the size *)
(* grows (iupdate) when the write ends past it.                            *)
(***************************************************************************)
writei(ip, off, n, v) ==
    /\ off <= ino[ip].size
    /\ off + n <= MAXBYTES
    /\ LET S == WriteChunks(Cur, ip, off, n, v) IN
       Commit(IF off + n > S.ino[ip].size
              THEN [S EXCEPT !.ino[ip].size = off + n] ELSE S)

(***************************************************************************)
(* itrunc: free the direct blocks, the blocks of the indirect block and    *)
(* the indirect block itself, then for each second-level block of the      *)
(* double-indirect block its blocks and itself, then the double-indirect   *)
(* block; zero the entries, size 0, iupdate.                               *)
(***************************************************************************)
NonZero(s) == SelectSeq(s, LAMBDA x : x # 0)

Entries(S, b) == [j \in 1..NINDIRECT |-> S.blk[b][j - 1]]

SecondLevel(S, b) == NonZero(Entries(S, b)) \o <<b>>

RECURSIVE Flatten(_)
Flatten(ss) == IF ss = <<>> THEN <<>> ELSE Head(ss) \o Flatten(Tail(ss))

\* The blocks itrunc frees, in the order it frees them.
TruncOrderSkipSecond(S, ip) ==
    LET d == S.ino[ip].addrs
        i1 == d[NDIRECT]
        i2 == S.ino[ip].indirect2
    IN  NonZero([k \in 1..NDIRECT |-> d[k - 1]])
        \o (IF i1 # 0 THEN SecondLevel(S, i1) ELSE <<>>)
        \o (IF i2 # 0
            THEN Flatten([j \in 1..Len(NonZero(Entries(S, i2))) |->
                            NonZero(Entries(S, NonZero(Entries(S, i2))[j]))])
                 \o <<i2>>
            ELSE <<>>)

TruncOrder(S, ip) ==
    LET d == S.ino[ip].addrs
        i1 == d[NDIRECT]
        i2 == S.ino[ip].indirect2
    IN  NonZero([k \in 1..NDIRECT |-> d[k - 1]])
        \o (IF i1 # 0 THEN SecondLevel(S, i1) ELSE <<>>)
        \o (IF i2 # 0
            THEN Flatten([j \in 1..Len(NonZero(Entries(S, i2))) |->
                            SecondLevel(S, NonZero(Entries(S, i2))[j])])
                 \o <<i2>>
            ELSE <<>>)

RECURSIVE FreeAll(_, _)
FreeAll(S, bs) ==
    IF bs = <<>> \/ S.panic # NoPanic THEN S
    ELSE FreeAll(Bfree(S, Head(bs)), Tail(bs))

itruncKeepAddrs(ip) ==
    LET S == FreeAll(Cur, TruncOrder(Cur, ip)) IN
    Commit([S EXCEPT !.ino[ip].size = 0])

itrunc(ip) ==
    LET S == FreeAll(Cur, TruncOrder(Cur, ip)) IN
    Commit([S EXCEPT !.ino[ip] = EmptyInode])

(***************************************************************************)
(* readi(ip, off, n) of a regular file: clamp to the size, then copy chunk *)
(* by chunk from bmap'd blocks.  Reads allocate nothing within the size,   *)
(* so the state bmap returns is dropped.                                   *)
(***************************************************************************)
RECURSIVE ReadChunks(_, _, _, _)
ReadChunks(S, ip, off, n) ==
    IF n = 0 THEN <<>>
    ELSE LET a == bmap(S, ip, off \div BSIZE).a
             m == MinOf(n, BSIZE - (off % BSIZE))
         IN [j \in 1..m |-> S.blk[a][(off % BSIZE) + j - 1]]
            \o ReadChunks(S, ip, off + m, n - m)

readi(S, ip, off, n) ==
    IF off > S.ino[ip].size THEN <<>>
    ELSE ReadChunks(S, ip, off,
                    IF off + n > S.ino[ip].size THEN S.ino[ip].size - off ELSE n)

Halted ==
    /\ panicked # NoPanic
    /\ UNCHANGED vars

Next ==
    \/ /\ panicked = NoPanic
       /\ \E ip \in Inodes :
            \/ itrunc(ip)
            \/ \E off \in 0..MAXBYTES, n \in 1..BSIZE + 1, v \in ValuesOf[ip] :
                 writei(ip, off, n, v)
    \/ Halted

Spec == Init /\ [][Next]_vars

-----------------------------------------------------------------------------
(* Properties *)

(***************************************************************************)
(* Pointer locations of an inode's tree: its direct entries, its indirect  *)
(* and double-indirect blocks, the words of the blocks they point at.      *)
(***************************************************************************)
Pointers(ip) ==
    LET i1 == ino[ip].addrs[NDIRECT]
        i2 == ino[ip].indirect2
        Words2(b) == IF b = 0 THEN {} ELSE {<<"blk", b, j>> : j \in 0..(NINDIRECT - 1)}
    IN  {<<"addr", ip, k>> : k \in 0..NDIRECT} \cup {<<"ind2", ip>>}
        \cup Words2(i1) \cup Words2(i2)
        \cup UNION {Words2(blk[i2][j]) : j \in IF i2 = 0 THEN {} ELSE 0..(NINDIRECT - 1)}

Target(p) ==
    CASE p[1] = "addr" -> ino[p[2]].addrs[p[3]]
      [] p[1] = "ind2" -> ino[p[2]].indirect2
      [] p[1] = "blk"  -> blk[p[2]][p[3]]

Locations == UNION {Pointers(ip) : ip \in Inodes}
Live == {p \in Locations : Target(p) # 0}

(***************************************************************************)
(* The bitmap and the inodes' trees agree exactly: every block an inode    *)
(* reaches is reached from one place only and is marked in use, and every  *)
(* block marked in use is reached (itrunc leaks nothing, balloc never hands *)
(* out a block still owned, and no inode sees another's block).            *)
(***************************************************************************)
AllocationExact ==
    /\ \A p, q \in Live : p # q => Target(p) # Target(q)
    /\ {Target(p) : p \in Live} = used

(***************************************************************************)
(* What writei wrote is what readi reads: the device, read through bmap,   *)
(* implements the abstract files of AbstractFile.                          *)
(***************************************************************************)
File == INSTANCE AbstractFile WITH
            MAXBYTES <- MAXBYTES,
            content <- [ip \in Inodes |-> readi(Cur, ip, 0, ino[ip].size)]

RefinesAbstractFile == File!ASpec

=============================================================================
