----------------------------- MODULE InodeCache -----------------------------
(***************************************************************************)
(* The in-memory inode cache of src/fs.c (iget, idup, ilock, iunlock,      *)
(* iput, ialloc) run by several kernel threads at once.                    *)
(*                                                                         *)
(* icache.lock is a spinlock: everything a routine does while holding it   *)
(* is one step.  I_BUSY is a sleep lock: ilock sleeps on the slot while it *)
(* is set, iunlock and iput wake every sleeper, who then re-race.  Work    *)
(* done after icache.lock is released (the dinode read of ilock, the       *)
(* truncation and freeing in iput) is a step of its own, so other threads  *)
(* interleave with it.  A dinode is abstracted to its type, link count and *)
(* whether it has content (size 0 or not); the buffer cache and the log    *)
(* are taken as atomic.                                                    *)
(***************************************************************************)
EXTENDS Naturals, FiniteSetsExt, Functions

CONSTANTS
    Threads,    \* kernel threads (processes in a system call)
    NINODE,     \* capacity of icache.inode[]
    NINUM,      \* inode numbers 1..NINUM on the device (sb.ninodes - 1)
    FileTypes,  \* the non-zero dinode types ialloc may be asked for
    T_DIR,      \* type of the root directory
    MaxRefs,    \* bound on the references one thread takes with idup
    NoSlot      \* model value: a thread that holds no cache entry

ASSUME NINODE \in Nat \ {0} /\ NINUM \in Nat \ {0} /\ MaxRefs \in Nat \ {0}
ASSUME 0 \notin FileTypes /\ T_DIR \in FileTypes

Slots == 1..NINODE
Inums == 1..NINUM
ROOTINO == 1
NoPanic == "none"

VARIABLES
    icache,   \* icache.inode[]: [ref, inum, valid, busy, type, nlink, size]
    disk,     \* the dinodes on disk: [type, nlink, size]
    pc,       \* where each thread is in the routines
    slot,     \* the cache entry a thread holds references to
    refs,     \* how many references it holds to it
    arg,      \* the inum ialloc claimed, before its iget
    panicked  \* the panic message, once the kernel has stopped

vars == <<icache, disk, pc, slot, refs, arg, panicked>>

PCs == {"idle", "ialloc_iget", "held", "locking", "sleeping", "loading",
        "locked", "truncating", "freeing", "releasing"}

\* A thread in one of these holds the I_BUSY flag of its slot.
LockHeld == {"loading", "locked", "truncating", "freeing", "releasing"}

Dinode(e) == [type |-> e.type, nlink |-> e.nlink, size |-> e.size]

FreeEntry == [ref |-> 0, inum |-> 0, valid |-> FALSE, busy |-> FALSE,
              type |-> 0, nlink |-> 0, size |-> 0]

\* The type of every variable.  "ilock: no type" is not among the panics:
\* a thread that loads an entry holds a reference to a live dinode.
TypeOK ==
    /\ icache \in [Slots -> [ref : 0..(Cardinality(Threads) * MaxRefs),
                             inum : Inums \cup {0}, valid : BOOLEAN,
                             busy : BOOLEAN, type : FileTypes \cup {0},
                             nlink : 0..1, size : 0..1]]
    /\ disk \in [Inums -> [type : FileTypes \cup {0}, nlink : 0..1, size : 0..1]]
    /\ pc \in [Threads -> PCs]
    /\ slot \in [Threads -> Slots \cup {NoSlot}]
    /\ refs \in [Threads -> 0..MaxRefs]
    /\ arg \in [Threads -> Inums \cup {0}]
    /\ panicked \in {NoPanic, "ialloc: no inodes", "iget: no inodes"}

\* A freshly made file system: the root directory, every other dinode free.
Init ==
    /\ icache = [s \in Slots |-> FreeEntry]
    /\ disk = [i \in Inums |->
                 IF i = ROOTINO THEN [type |-> T_DIR, nlink |-> 1, size |-> 1]
                 ELSE [type |-> 0, nlink |-> 0, size |-> 0]]
    /\ pc = [t \in Threads |-> "idle"]
    /\ slot = [t \in Threads |-> NoSlot]
    /\ refs = [t \in Threads |-> 0]
    /\ arg = [t \in Threads |-> 0]
    /\ panicked = NoPanic

(***************************************************************************)
(* iget: under icache.lock, the first referenced entry with this inum gets *)
(* one more reference; otherwise the first entry with ref 0 is recycled    *)
(* with flags cleared; with neither, the kernel panics.  The thread then   *)
(* goes to `next`.                                                         *)
(***************************************************************************)
Cached(i) == {s \in Slots : icache[s].ref > 0 /\ icache[s].inum = i}
Empty == {s \in Slots : icache[s].ref = 0}

Take(t, s, next) ==
    /\ pc' = [pc EXCEPT ![t] = next]
    /\ slot' = [slot EXCEPT ![t] = s]
    /\ refs' = [refs EXCEPT ![t] = 1]

IgetRecycleKeepFlags(t, i, next) ==
    \/ /\ Cached(i) # {}
       /\ icache' = [icache EXCEPT ![Min(Cached(i))].ref = @ + 1]
       /\ Take(t, Min(Cached(i)), next)
       /\ UNCHANGED panicked
    \/ /\ Cached(i) = {} /\ Empty # {}
       /\ icache' = [icache EXCEPT ![Min(Empty)].inum = i, ![Min(Empty)].ref = 1]
       /\ Take(t, Min(Empty), next)
       /\ UNCHANGED panicked
    \/ /\ Cached(i) = {} /\ Empty = {}
       /\ panicked' = "iget: no inodes"
       /\ UNCHANGED <<icache, pc, slot, refs>>

IgetNoHit(t, i, next) ==
    \/ /\ Empty # {}
       /\ icache' = [icache EXCEPT ![Min(Empty)].inum = i, ![Min(Empty)].ref = 1,
                                   ![Min(Empty)].valid = FALSE,
                                   ![Min(Empty)].busy = FALSE]
       /\ Take(t, Min(Empty), next)
       /\ UNCHANGED panicked
    \/ /\ Empty = {}
       /\ panicked' = "iget: no inodes"
       /\ UNCHANGED <<icache, pc, slot, refs>>

iget(t, i, next) ==
    \/ /\ Cached(i) # {}
       /\ icache' = [icache EXCEPT ![Min(Cached(i))].ref = @ + 1]
       /\ Take(t, Min(Cached(i)), next)
       /\ UNCHANGED panicked
    \/ /\ Cached(i) = {} /\ Empty # {}
       /\ icache' = [icache EXCEPT ![Min(Empty)].inum = i, ![Min(Empty)].ref = 1,
                                   ![Min(Empty)].valid = FALSE,
                                   ![Min(Empty)].busy = FALSE]
       /\ Take(t, Min(Empty), next)
       /\ UNCHANGED panicked
    \/ /\ Cached(i) = {} /\ Empty = {}
       /\ panicked' = "iget: no inodes"
       /\ UNCHANGED <<icache, pc, slot, refs>>

(***************************************************************************)
(* dirlookup finds a directory entry naming inum i and igets it.  The      *)
(* system-call layer keeps directory entries and link counts in step, so a *)
(* dirent names exactly the dinodes with nlink > 0.                        *)
(***************************************************************************)
Lookup(t) ==
    /\ pc[t] = "idle"
    /\ \E i \in Inums :
        /\ disk[i].nlink > 0
        /\ iget(t, i, "held")
    /\ UNCHANGED <<disk, arg>>

(***************************************************************************)
(* ialloc: the first dinode of type 0 is zeroed and given the type, in one *)
(* buffer write; after brelse it is igot.  Its caller (create) locks it at *)
(* once.  With no free dinode the kernel panics.                           *)
(***************************************************************************)
ialloc(t) ==
    /\ pc[t] = "idle"
    /\ \E ty \in FileTypes :
        LET free == {i \in Inums : disk[i].type = 0} IN
        IF free = {}
        THEN /\ panicked' = "ialloc: no inodes"
             /\ UNCHANGED <<disk, pc, arg>>
        ELSE /\ disk' = [disk EXCEPT ![Min(free)] =
                            [type |-> ty, nlink |-> 0, size |-> 0]]
             /\ pc' = [pc EXCEPT ![t] = "ialloc_iget"]
             /\ arg' = [arg EXCEPT ![t] = Min(free)]
             /\ UNCHANGED panicked
    /\ UNCHANGED <<icache, slot, refs>>

IallocIget(t) ==
    /\ pc[t] = "ialloc_iget"
    /\ iget(t, arg[t], "locking")
    /\ arg' = [arg EXCEPT ![t] = 0]
    /\ UNCHANGED disk

IdupNoRef(t) ==
    /\ pc[t] = "held"
    /\ refs[t] < MaxRefs
    /\ refs' = [refs EXCEPT ![t] = @ + 1]
    /\ UNCHANGED <<icache, disk, pc, slot, arg, panicked>>

\* idup: one more reference, without locking.
idup(t) ==
    /\ pc[t] = "held"
    /\ refs[t] < MaxRefs
    /\ icache' = [icache EXCEPT ![slot[t]].ref = @ + 1]
    /\ refs' = [refs EXCEPT ![t] = @ + 1]
    /\ UNCHANGED <<disk, pc, slot, arg, panicked>>

\* The caller enters ilock.
IlockEnter(t) ==
    /\ pc[t] = "held"
    /\ pc' = [pc EXCEPT ![t] = "locking"]
    /\ UNCHANGED <<icache, disk, slot, refs, arg, panicked>>

\* ilock, under icache.lock: while I_BUSY is set, sleep on the slot.
IlockSleep(t) ==
    /\ pc[t] = "locking"
    /\ icache[slot[t]].busy
    /\ pc' = [pc EXCEPT ![t] = "sleeping"]
    /\ UNCHANGED <<icache, disk, slot, refs, arg, panicked>>

\* ilock, under icache.lock: I_BUSY is clear, so set it.
IlockAcquire(t) ==
    /\ pc[t] = "locking"
    /\ ~icache[slot[t]].busy
    /\ icache' = [icache EXCEPT ![slot[t]].busy = TRUE]
    /\ pc' = [pc EXCEPT ![t] = IF icache[slot[t]].valid THEN "locked" ELSE "loading"]
    /\ UNCHANGED <<disk, slot, refs, arg, panicked>>

\* ilock, after icache.lock is released: read the dinode, set I_VALID; a
\* dinode of type 0 makes it panic.
IlockLoad(t) ==
    /\ pc[t] = "loading"
    /\ LET d == disk[icache[slot[t]].inum] IN
       IF d.type = 0
       THEN /\ panicked' = "ilock: no type"
            /\ UNCHANGED <<icache, pc>>
       ELSE /\ icache' = [icache EXCEPT ![slot[t]].type = d.type,
                                        ![slot[t]].nlink = d.nlink,
                                        ![slot[t]].size = d.size,
                                        ![slot[t]].valid = TRUE]
            /\ pc' = [pc EXCEPT ![t] = "locked"]
            /\ UNCHANGED panicked
    /\ UNCHANGED <<disk, slot, refs, arg>>

\* iupdate: the cached dinode written back to disk.
iupdate(e) == [type |-> e.type, nlink |-> e.nlink, size |-> e.size]

(***************************************************************************)
(* The lock holder's work: writei growing the file (size and iupdate), and *)
(* the system-call layer setting nlink and calling iupdate (link, unlink). *)
(***************************************************************************)
WriteGrow(t) ==
    /\ pc[t] = "locked"
    /\ icache[slot[t]].size = 0
    /\ icache' = [icache EXCEPT ![slot[t]].size = 1]
    /\ disk' = [disk EXCEPT ![icache[slot[t]].inum] = iupdate(icache'[slot[t]])]
    /\ UNCHANGED <<pc, slot, refs, arg, panicked>>

SetNlink(t) ==
    /\ pc[t] = "locked"
    /\ \E n \in 0..1 :
        /\ n # icache[slot[t]].nlink
        /\ icache' = [icache EXCEPT ![slot[t]].nlink = n]
    /\ disk' = [disk EXCEPT ![icache[slot[t]].inum] = iupdate(icache'[slot[t]])]
    /\ UNCHANGED <<pc, slot, refs, arg, panicked>>

\* Every thread sleeping on slot s made runnable again.
Wakeup(p, s) ==
    [u \in Threads |-> IF p[u] = "sleeping" /\ slot[u] = s THEN "locking" ELSE p[u]]

\* iunlock: clear I_BUSY and wake the sleepers.
iunlock(t) ==
    /\ pc[t] = "locked"
    /\ icache' = [icache EXCEPT ![slot[t]].busy = FALSE]
    /\ pc' = Wakeup([pc EXCEPT ![t] = "held"], slot[t])
    /\ UNCHANGED <<disk, slot, refs, arg, panicked>>

(***************************************************************************)
(* iput, under icache.lock: the last reference to a valid entry with no    *)
(* links frees the inode; any other reference is just dropped.             *)
(***************************************************************************)
IputFreesRefOnly(e) == e.ref = 0 /\ e.valid /\ e.nlink = 0

IputFreesAnyRef(e) == e.valid /\ e.nlink = 0

IputFrees(e) == e.ref = 1 /\ e.valid /\ e.nlink = 0

Drop(t) ==
    /\ refs' = [refs EXCEPT ![t] = @ - 1]
    /\ slot' = [slot EXCEPT ![t] = IF refs[t] = 1 THEN NoSlot ELSE @]
    /\ pc' = [pc EXCEPT ![t] = IF refs[t] = 1 THEN "idle" ELSE "held"]

iput(t) ==
    /\ pc[t] = "held"
    /\ IF IputFrees(icache[slot[t]])
       THEN /\ icache' = [icache EXCEPT ![slot[t]].busy = TRUE]
            /\ pc' = [pc EXCEPT ![t] = "truncating"]
            /\ UNCHANGED <<slot, refs>>
       ELSE /\ icache' = [icache EXCEPT ![slot[t]].ref = @ - 1]
            /\ Drop(t)
    /\ UNCHANGED <<disk, arg, panicked>>

\* iput, icache.lock released: itrunc frees the content, size 0, iupdate.
itrunc(t) ==
    /\ pc[t] = "truncating"
    /\ icache' = [icache EXCEPT ![slot[t]].size = 0]
    /\ disk' = [disk EXCEPT ![icache[slot[t]].inum] = iupdate(icache'[slot[t]])]
    /\ pc' = [pc EXCEPT ![t] = "freeing"]
    /\ UNCHANGED <<slot, refs, arg, panicked>>

\* iput: ip->type = 0 and iupdate, which frees the dinode on disk.
IputFreeType(t) ==
    /\ pc[t] = "freeing"
    /\ icache' = [icache EXCEPT ![slot[t]].type = 0]
    /\ disk' = [disk EXCEPT ![icache[slot[t]].inum] = iupdate(icache'[slot[t]])]
    /\ pc' = [pc EXCEPT ![t] = "releasing"]
    /\ UNCHANGED <<slot, refs, arg, panicked>>

IputReleaseNoWakeup(t) ==
    /\ pc[t] = "releasing"
    /\ icache' = [icache EXCEPT ![slot[t]].valid = FALSE, ![slot[t]].busy = FALSE,
                                ![slot[t]].ref = @ - 1]
    /\ Drop(t)
    /\ UNCHANGED <<disk, arg, panicked>>

IputReleaseKeepValid(t) ==
    /\ pc[t] = "releasing"
    /\ icache' = [icache EXCEPT ![slot[t]].busy = FALSE, ![slot[t]].ref = @ - 1]
    /\ refs' = [refs EXCEPT ![t] = 0]
    /\ slot' = [slot EXCEPT ![t] = NoSlot]
    /\ pc' = Wakeup([pc EXCEPT ![t] = "idle"], slot[t])
    /\ UNCHANGED <<disk, arg, panicked>>

IputReleaseDoubleDrop(t) ==
    /\ pc[t] = "releasing"
    /\ icache' = [icache EXCEPT ![slot[t]].valid = FALSE, ![slot[t]].busy = FALSE,
                                ![slot[t]].ref = @ - 2]
    /\ refs' = [refs EXCEPT ![t] = 0]
    /\ slot' = [slot EXCEPT ![t] = NoSlot]
    /\ pc' = Wakeup([pc EXCEPT ![t] = "idle"], slot[t])
    /\ UNCHANGED <<disk, arg, panicked>>

\* iput, icache.lock re-acquired: flags = 0, wake the sleepers, ref--.
IputRelease(t) ==
    /\ pc[t] = "releasing"
    /\ icache' = [icache EXCEPT ![slot[t]].valid = FALSE, ![slot[t]].busy = FALSE,
                                ![slot[t]].ref = @ - 1]
    /\ refs' = [refs EXCEPT ![t] = 0]
    /\ slot' = [slot EXCEPT ![t] = NoSlot]
    /\ pc' = Wakeup([pc EXCEPT ![t] = "idle"], slot[t])
    /\ UNCHANGED <<disk, arg, panicked>>

\* A panic stops the kernel: nothing happens any more.
Halted ==
    /\ panicked # NoPanic
    /\ UNCHANGED vars

ThreadStep(t) ==
    \/ Lookup(t) \/ ialloc(t) \/ IallocIget(t) \/ idup(t)
    \/ IlockEnter(t) \/ IlockSleep(t) \/ IlockAcquire(t) \/ IlockLoad(t)
    \/ WriteGrow(t) \/ SetNlink(t) \/ iunlock(t)
    \/ iput(t) \/ itrunc(t) \/ IputFreeType(t) \/ IputRelease(t)

Next ==
    \/ panicked = NoPanic /\ \E t \in Threads : ThreadStep(t)
    \/ Halted

(***************************************************************************)
(* Fairness: a thread that holds I_BUSY finishes what it does under it     *)
(* (every system call unlocks before it returns, and iput's free sequence  *)
(* runs straight through), and a thread inside ilock keeps running.  The   *)
(* callers' own choices (lookup, ialloc, idup, iput, the work under the     *)
(* lock) are not forced.                                                   *)
(***************************************************************************)
Fairness ==
    \A t \in Threads :
        /\ WF_vars(IlockSleep(t)) /\ WF_vars(IlockAcquire(t)) /\ WF_vars(IlockLoad(t))
        /\ WF_vars(iunlock(t)) /\ WF_vars(itrunc(t)) /\ WF_vars(IputFreeType(t))
        /\ WF_vars(IputRelease(t)) /\ WF_vars(IallocIget(t))

Spec == Init /\ [][Next]_vars /\ Fairness

-----------------------------------------------------------------------------
(* Properties *)

Holders(s) == {t \in Threads : slot[t] = s}

(***************************************************************************)
(* iget/idup/iput keep ip->ref equal to the references the threads hold:   *)
(* a slot is never recycled under a thread that still points at it, and a  *)
(* slot nobody points at is free.                                          *)
(***************************************************************************)
RefCountExact ==
    \A s \in Slots :
        icache[s].ref = SumFunctionOnSet([t \in Holders(s) |-> refs[t]], Holders(s))

(***************************************************************************)
(* iget never lets two referenced cache entries stand for the same inode,  *)
(* including while iput's free sequence runs with icache.lock released and *)
(* ialloc of another thread reclaims the inum.                             *)
(***************************************************************************)
UniqueIdentity ==
    \A s1, s2 \in Slots :
        (s1 # s2 /\ icache[s1].ref > 0 /\ icache[s2].ref > 0)
            => icache[s1].inum # icache[s2].inum

(***************************************************************************)
(* A thread that has returned from ilock sees exactly the dinode on disk,  *)
(* and an allocated one (ilock's "no type" panic never fires): iget's      *)
(* flag reset and iput's clearing of I_VALID stop a stale copy surviving   *)
(* the free-and-reallocate of the inum.                                    *)
(***************************************************************************)
LockedViewCoherent ==
    \A t \in Threads :
        pc[t] = "locked" =>
            /\ icache[slot[t]].valid
            /\ icache[slot[t]].type # 0
            /\ Dinode(icache[slot[t]]) = disk[icache[slot[t]].inum]

(***************************************************************************)
(* iput truncates an inode only while the thread doing it holds the only   *)
(* reference and the inode has no links (itrunc's precondition).           *)
(***************************************************************************)
TruncateUnshared ==
    \A t \in Threads :
        pc[t] = "truncating" =>
            /\ Holders(slot[t]) = {t}
            /\ refs[t] = 1
            /\ disk[icache[slot[t]].inum].nlink = 0

(***************************************************************************)
(* No orphan: an allocated dinode without links is always still referenced *)
(* (in the cache or by ialloc on its way to iget); the last iput frees it. *)
(***************************************************************************)
NoOrphanInode ==
    \A i \in Inums :
        (disk[i].type # 0 /\ disk[i].nlink = 0)
            => \/ Cached(i) # {}
               \/ \E t \in Threads : pc[t] = "ialloc_iget" /\ arg[t] = i

(***************************************************************************)
(* No lost wakeup: a thread sleeping in ilock is woken (by iunlock or by   *)
(* iput's free sequence) unless the kernel has stopped.                    *)
(***************************************************************************)
SleeperWoken ==
    \A t \in Threads :
        pc[t] = "sleeping" ~> (pc[t] = "locking" \/ panicked # NoPanic)

=============================================================================
