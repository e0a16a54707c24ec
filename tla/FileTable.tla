----------------------------- MODULE FileTable -----------------------------
(***************************************************************************)
(* The open-file table of src/unnamed/part_001 (filealloc, filedup,        *)
(* fileclose, fileread, filewrite) over regular files, with what it needs  *)
(* of the inode layer: the cache reference count (iget/iput) and the       *)
(* I_BUSY lock that ilock sleeps on.  Processes also resolve paths with    *)
(* filereadlink(i) of src/fs.c, whose "traverse through a file" branch     *)
(* returns with the inode still locked and every namei reference kept.     *)
(*                                                                         *)
(* A step under ilock is atomic (I_BUSY excludes every other locker of the *)
(* inode); file contents are abstracted to sizes, since no property here   *)
(* is about the bytes.                                                     *)
(***************************************************************************)
EXTENDS Integers, FiniteSets, Functions

CONSTANTS
    Procs,      \* processes
    NFILE,      \* size of ftable.file
    Inums,      \* regular files
    MAXBYTES,   \* MAXFILE * BSIZE
    MAXBATCH,   \* ((LOGSIZE-1-1-2) / 2) * 512: bytes per filewrite transaction
    Lens,       \* the n of fileread and filewrite
    MaxDesc     \* bound on the descriptors a process holds to one file

Slots == 1..NFILE
NoPanic == "none"
Idle == [op |-> "idle"]

VARIABLES
    file,       \* ftable.file[f]: ref, type, ip, off, readable, writable
    desc,       \* desc[p][f]: descriptors of process p that refer to file f
    iref,       \* iref[i]: ip->ref of inode i in the cache
    busy,       \* busy[i]: I_BUSY of inode i
    size,       \* size[i]: ip->size
    pc,         \* what each process is doing inside a system call
    panicked,
    leaked      \* ghost: references namei took in filereadlink and nobody drops

vars == <<file, desc, iref, busy, size, pc, panicked, leaked>>

FreeFile == [ref |-> 0, type |-> "none", ip |-> 0, off |-> 0,
             readable |-> FALSE, writable |-> FALSE]

PCs == {Idle}
       \cup [op : {"closing"}, f : Slots, ip : Inums]
       \cup [op : {"read"}, f : Slots, n : Lens]
       \cup [op : {"write"}, f : Slots, n : Lens, i : 0..MAXBYTES]
       \cup [op : {"readlink"}, ip : Inums]

(***************************************************************************)
(* The type of every variable; no panic ("filedup", "fileclose", "short    *)
(* filewrite") is reachable.                                               *)
(***************************************************************************)
TypeOK ==
    /\ file \in [Slots -> [ref : Nat, type : {"none", "inode"}, ip : Inums \cup {0},
                           off : 0..MAXBYTES, readable : BOOLEAN, writable : BOOLEAN]]
    /\ desc \in [Procs -> [Slots -> 0..MaxDesc]]
    /\ iref \in [Inums -> Nat] /\ busy \in [Inums -> BOOLEAN]
    /\ size \in [Inums -> 0..MAXBYTES]
    /\ pc \in [Procs -> PCs]
    /\ panicked = NoPanic
    /\ leaked \in [Inums -> Nat]

\* After boot: no file open, every inode on disk and out of the cache.
Init ==
    /\ file = [f \in Slots |-> FreeFile]
    /\ desc = [p \in Procs |-> [f \in Slots |-> 0]]
    /\ iref = [i \in Inums |-> 0]
    /\ busy = [i \in Inums |-> FALSE]
    /\ size = [i \in Inums |-> 0]
    /\ pc = [p \in Procs |-> Idle]
    /\ panicked = NoPanic
    /\ leaked = [i \in Inums |-> 0]

Holds(p, f) == desc[p][f] > 0

(***************************************************************************)
(* sys_open (not in src/): namei takes a reference and ilock waits for the *)
(* inode; filealloc claims the first slot with ref 0, and when there is    *)
(* none the reference is dropped again with iput.                          *)
(***************************************************************************)
Open(p, i, r, w) ==
    /\ pc[p] = Idle /\ ~busy[i]
    /\ LET free == {f \in Slots : file[f].ref = 0} IN
       IF free = {}
       THEN UNCHANGED <<file, desc, iref>>
       ELSE LET f == CHOOSE g \in free : \A h \in free : g <= h IN
            /\ file' = [file EXCEPT ![f] = [ref |-> 1, type |-> "inode", ip |-> i, off |-> 0,
                                           readable |-> r, writable |-> w]]
            /\ desc' = [desc EXCEPT ![p][f] = 1]
            /\ iref' = [iref EXCEPT ![i] = @ + 1]
    /\ UNCHANGED <<busy, size, pc, panicked, leaked>>

\* filedup, for dup() in p or the copy fork() gives q.
filedupNoRef(p, q, f) ==
    /\ pc[p] = Idle /\ Holds(p, f) /\ desc[q][f] < MaxDesc
    /\ desc' = [desc EXCEPT ![q][f] = @ + 1]
    /\ UNCHANGED <<file, iref, busy, size, pc, panicked, leaked>>

filedup(p, q, f) ==
    /\ pc[p] = Idle /\ Holds(p, f) /\ desc[q][f] < MaxDesc
    /\ IF file[f].ref < 1
       THEN panicked' = "filedup" /\ UNCHANGED <<file, desc>>
       ELSE /\ file' = [file EXCEPT ![f].ref = @ + 1]
            /\ desc' = [desc EXCEPT ![q][f] = @ + 1]
            /\ UNCHANGED panicked
    /\ UNCHANGED <<iref, busy, size, pc, leaked>>

(***************************************************************************)
(* fileclose, under ftable.lock: drop one reference; the last one copies   *)
(* the file to ff and frees the slot.  iput(ff.ip) comes after the lock is *)
(* released, when another process may already have reused the slot.       *)
(***************************************************************************)
fileclose(p, f) ==
    /\ pc[p] = Idle /\ Holds(p, f)
    /\ desc' = [desc EXCEPT ![p][f] = @ - 1]
    /\ CASE file[f].ref < 1 ->
              panicked' = "fileclose" /\ UNCHANGED <<file, pc>>
         [] file[f].ref > 1 ->
              file' = [file EXCEPT ![f].ref = @ - 1] /\ UNCHANGED <<pc, panicked>>
         [] OTHER ->
              /\ file' = [file EXCEPT ![f] = [@ EXCEPT !.ref = 0, !.type = "none"]]
              /\ pc' = [pc EXCEPT ![p] = [op |-> "closing", f |-> f, ip |-> file[f].ip]]
              /\ UNCHANGED panicked
    /\ UNCHANGED <<iref, busy, size, leaked>>

CloseIputStale(p) ==
    /\ pc[p].op = "closing"
    /\ iref' = [iref EXCEPT ![file[pc[p].f].ip] = @ - 1]
    /\ pc' = [pc EXCEPT ![p] = Idle]
    /\ UNCHANGED <<file, desc, busy, size, panicked, leaked>>

\* begin_trans; iput(ff.ip); commit_trans.
CloseIput(p) ==
    /\ pc[p].op = "closing"
    /\ iref' = [iref EXCEPT ![pc[p].ip] = @ - 1]
    /\ pc' = [pc EXCEPT ![p] = Idle]
    /\ UNCHANGED <<file, desc, busy, size, panicked, leaked>>

\* fileread of an unreadable file returns -1 and changes nothing.
ReadStart(p, f, n) ==
    /\ pc[p] = Idle /\ Holds(p, f) /\ file[f].readable
    /\ pc' = [pc EXCEPT ![p] = [op |-> "read", f |-> f, n |-> n]]
    /\ UNCHANGED <<file, desc, iref, busy, size, panicked, leaked>>

readiNoClamp(ip, off, n) == IF off > size[ip] THEN -1 ELSE n

\* readi of a regular file: -1 past the end, else n clamped to the size.
readi(ip, off, n) ==
    IF off > size[ip] THEN -1
    ELSE IF off + n > size[ip] THEN size[ip] - off ELSE n

\* ilock; r = readi(f->ip, f->off, n); f->off += r when r > 0; iunlock.
fileread(p) ==
    /\ pc[p].op = "read"
    /\ LET f == pc[p].f
           ip == file[f].ip
           r == readi(ip, file[f].off, pc[p].n)
       IN /\ ~busy[ip]
          /\ file' = [file EXCEPT ![f].off = IF r > 0 THEN @ + r ELSE @]
    /\ pc' = [pc EXCEPT ![p] = Idle]
    /\ UNCHANGED <<desc, iref, busy, size, panicked, leaked>>

WriteStart(p, f, n) ==
    /\ pc[p] = Idle /\ Holds(p, f) /\ file[f].writable
    /\ pc' = [pc EXCEPT ![p] = [op |-> "write", f |-> f, n |-> n, i |-> 0]]
    /\ UNCHANGED <<file, desc, iref, busy, size, panicked, leaked>>

(***************************************************************************)
(* One batch of filewrite's loop: n1 = min(n - i, max); begin_trans;       *)
(* ilock; writei at f->off (-1 past MAXFILE*BSIZE, else all n1 bytes, the  *)
(* size grown to the end); iunlock; commit_trans.  A failed batch breaks   *)
(* the loop and the call returns -1 with the earlier batches committed.    *)
(***************************************************************************)
filewrite(p) ==
    /\ pc[p].op = "write"
    /\ LET f == pc[p].f
           ip == file[f].ip
           off == file[f].off
           n1 == IF pc[p].n - pc[p].i > MAXBATCH THEN MAXBATCH ELSE pc[p].n - pc[p].i
       IN /\ ~busy[ip]
          /\ IF off > size[ip] \/ off + n1 > MAXBYTES
             THEN /\ pc' = [pc EXCEPT ![p] = Idle]
                  /\ UNCHANGED <<file, size>>
             ELSE /\ file' = [file EXCEPT ![f].off = off + n1]
                  /\ size' = [size EXCEPT ![ip] = IF off + n1 > @ THEN off + n1 ELSE @]
                  /\ pc' = [pc EXCEPT ![p] = IF pc[p].i + n1 = pc[p].n THEN Idle
                                             ELSE [@ EXCEPT !.i = @ + n1]]
    /\ UNCHANGED <<desc, iref, busy, panicked, leaked>>

(***************************************************************************)
(* filereadlink(i) on a path whose middle element is the file i (fs.c      *)
(* 897-909): namei takes a reference, ilock waits for the inode, and the   *)
(* call returns -1 with the inode locked; neither is ever given back.      *)
(***************************************************************************)
filereadlinkNamei(p, i) ==
    /\ pc[p] = Idle
    /\ iref' = [iref EXCEPT ![i] = @ + 1]
    /\ leaked' = [leaked EXCEPT ![i] = @ + 1]
    /\ pc' = [pc EXCEPT ![p] = [op |-> "readlink", ip |-> i]]
    /\ UNCHANGED <<file, desc, busy, size, panicked>>

filereadlinkIlock(p) ==
    /\ pc[p].op = "readlink"
    /\ ~busy[pc[p].ip]
    /\ busy' = [busy EXCEPT ![pc[p].ip] = TRUE]
    /\ pc' = [pc EXCEPT ![p] = Idle]
    /\ UNCHANGED <<file, desc, iref, size, panicked, leaked>>

Next ==
    /\ panicked = NoPanic
    /\ \/ \E p \in Procs :
            \/ CloseIput(p) \/ fileread(p) \/ filewrite(p) \/ filereadlinkIlock(p)
       \/ \E p \in Procs, i \in Inums :
            \/ \E r, w \in BOOLEAN : (r \/ w) /\ Open(p, i, r, w)
            \/ filereadlinkNamei(p, i)
       \/ \E p, q \in Procs, f \in Slots : filedup(p, q, f)
       \/ \E p \in Procs, f \in Slots :
            \/ fileclose(p, f)
            \/ \E n \in Lens : ReadStart(p, f, n) \/ WriteStart(p, f, n)

(***************************************************************************)
(* A process inside fileclose, fileread, filewrite or filereadlink keeps   *)
(* running; a sleeper in ilock is woken by every iunlock.  What system     *)
(* call a process makes next is its own choice and is not forced.          *)
(***************************************************************************)
Fairness ==
    \A p \in Procs :
        /\ WF_vars(CloseIput(p)) /\ WF_vars(fileread(p))
        /\ WF_vars(filewrite(p)) /\ WF_vars(filereadlinkIlock(p))

Spec == Init /\ [][Next]_vars /\ Fairness

-----------------------------------------------------------------------------
(* Properties *)

\* Slots in use on inode i, and closers between the two halves of fileclose.
OpenOn(i) == {f \in Slots : file[f].ref > 0 /\ file[f].ip = i}
ClosingOn(i) == {p \in Procs : pc[p].op = "closing" /\ pc[p].ip = i}

(***************************************************************************)
(* Reference counts are exact at both levels: a file's ref is the number   *)
(* of descriptors to it, and an inode's ref is one per open file on it,    *)
(* one per fileclose that has freed its slot but not yet called iput, and  *)
(* one per reference filereadlink leaked.  fileclose's copy ff keeps the   *)
(* iput on the right inode when filealloc reuses the slot in between.      *)
(***************************************************************************)
RefsExact ==
    /\ \A f \in Slots :
         file[f].ref = SumFunction([p \in Procs |-> desc[p][f]])
    /\ \A i \in Inums :
         iref[i] = Cardinality(OpenOn(i)) + Cardinality(ClosingOn(i)) + leaked[i]

(***************************************************************************)
(* Every open file's offset lies within its inode's size, although the     *)
(* size is changed through other file structures and the offset through   *)
(* every process sharing this one (after dup or fork): readi's clamp and  *)
(* writei's growth keep each batch of filewrite starting inside the file, *)
(* so writei's "off > size" refusal is never what fails a write.          *)
(***************************************************************************)
OffsetWithinSize ==
    \A f \in Slots : file[f].ref > 0 => file[f].off <= size[file[f].ip]

(***************************************************************************)
(* A read started on a file returns: the ilock it sleeps in is released.  *)
(* (spec.md 4.2: the busy flag is held by a caller while it works on the   *)
(* inode, and unlock wakes the waiters.)                                   *)
(***************************************************************************)
ReadReturns ==
    \A p \in Procs : pc[p].op = "read" ~> pc[p] = Idle

=============================================================================
