---------------------------- MODULE PasswordLock ----------------------------
(***************************************************************************)
(* The password-lock extension ("TASK 2"): filefprot, filefunprot and     *)
(* filefunlock of src/unnamed/part_001, and the exemption table           *)
(* unlocked_inodes of src/fs.c (unlock_inode, free_inode_locks,           *)
(* is_inode_unlocked, fork_pids).                                         *)
(*                                                                         *)
(* The password lives in the cached inode (ip->password) and reaches the  *)
(* dinode only when some iupdate of that inode runs.  The cached copy     *)
(* survives while the inode has a reference: every namei in the three     *)
(* calls takes one that is never iput (the inode stays pinned until a     *)
(* reboot), an open file holds one.  An inode with no reference is        *)
(* reloaded from its dinode by the next ilock (iget recycles the slot     *)
(* with flags 0).  Each call runs under the inode's I_BUSY lock, and the  *)
(* table under its own spinlock inside it, so each call is one step.      *)
(* Path resolution is abstracted to the inode it ends at; a call whose    *)
(* path does not resolve changes nothing.                                 *)
(*                                                                         *)
(* Opening, fork, exit and reboot are the external collaborators spec.md  *)
(* names: open admits a process to a protected file only when            *)
(* is_inode_unlocked says so; fork calls fork_pids; exit calls            *)
(* free_inode_locks.                                                       *)
(***************************************************************************)
EXTENDS Naturals, FiniteSetsExt

CONSTANTS
    Inums,       \* inode numbers reached through paths
    FileInums,   \* those of type T_FILE (the others are directories)
    Passwords,   \* non-empty passwords callers may present
    Empty,       \* the empty password "" (no protection)
    NPROC,       \* pid slots per row of the exemption table, and processes
    MaxPid       \* pids handed out are 1..MaxPid (nextpid never reused)

ASSUME FileInums \subseteq Inums /\ Empty \notin Passwords
ASSUME NPROC \in Nat \ {0} /\ MaxPid \in Nat \ {0}

Pids == 1..MaxPid
Slots == 1..NPROC
InitPid == 1
NoPanic == "none"

VARIABLES
    pw,        \* pw[i]: ip->password of the cached inode i (when Cached(i))
    dpw,       \* dpw[i]: the password in dinode i
    pinned,    \* pinned[i]: a reference leaked by namei keeps i cached
    opened,    \* opened[p]: the inodes process p has open files of
    live,      \* the running processes
    nextpid,   \* the pid the next fork hands out
    row,       \* row[i][k]: unlocked_inodes.pids[i][k], 0 = free slot
    panicked,  \* the panic message, once the kernel has stopped
    intended,  \* ghost: the password the last protect/unprotect left on i
    grant      \* ghost: grant[i][p], the password p (or the parent it
               \*   inherited from) presented to filefunlock on i

vars == <<pw, dpw, pinned, opened, live, nextpid, row, panicked, intended, grant>>

\* The inode has a reference, so its cache entry keeps ip->password.
Cached(i) == pinned[i] \/ \E p \in live : i \in opened[p]

\* What ilock leaves in ip->password: the cached copy, or the dinode's.
Cur(i) == IF Cached(i) THEN pw[i] ELSE dpw[i]

InRow(i, p) == \E k \in Slots : row[i][k] = p

TypeOK ==
    /\ pw \in [Inums -> Passwords \cup {Empty}]
    /\ dpw \in [Inums -> Passwords \cup {Empty}]
    /\ pinned \in [Inums -> BOOLEAN]
    /\ opened \in [Pids -> SUBSET Inums]
    /\ live \subseteq Pids
    /\ nextpid \in 2..(MaxPid + 1)
    /\ row \in [Inums -> [Slots -> Pids \cup {0}]]
    /\ panicked = NoPanic
    /\ intended \in [Inums -> Passwords \cup {Empty}]
    /\ grant \in [Inums -> [Pids -> Passwords \cup {Empty}]]

\* After mkfs and boot: no passwords, only init running, the table zero.
Init ==
    /\ pw = [i \in Inums |-> Empty]
    /\ dpw = [i \in Inums |-> Empty]
    /\ pinned = [i \in Inums |-> FALSE]
    /\ opened = [p \in Pids |-> {}]
    /\ live = {InitPid}
    /\ nextpid = InitPid + 1
    /\ row = [i \in Inums |-> [k \in Slots |-> 0]]
    /\ panicked = NoPanic
    /\ intended = [i \in Inums |-> Empty]
    /\ grant = [i \in Inums |-> [p \in Pids |-> Empty]]

(***************************************************************************)
(* The prologue of all three calls: namei(final_path) returns i with a     *)
(* reference that is never dropped, and ilock loads the password.          *)
(***************************************************************************)
NameiLock(i) ==
    /\ pinned' = [pinned EXCEPT ![i] = TRUE]
    /\ pw' = [pw EXCEPT ![i] = Cur(i)]

\* ip->password set or cleared; no iupdate follows.
SetPassword(i, w) ==
    /\ pw' = [pw EXCEPT ![i] = w]
    /\ pinned' = [pinned EXCEPT ![i] = TRUE]
    /\ intended' = [intended EXCEPT ![i] = w]

\* is_inode_open: some open file refers to the inode.
IsInodeOpen(i) == \E p \in live : i \in opened[p]

(***************************************************************************)
(* filefprot: a regular file with no password and no open file gets the    *)
(* password; otherwise -1.                                                 *)
(***************************************************************************)
filefprotIgnoreOpen(p, i, w) ==
    /\ IF i \in FileInums /\ Cur(i) = Empty
       THEN SetPassword(i, w)
       ELSE NameiLock(i) /\ UNCHANGED intended
    /\ UNCHANGED <<dpw, opened, live, nextpid, row, panicked, grant>>

filefprot(p, i, w) ==
    /\ IF i \in FileInums /\ Cur(i) = Empty /\ ~IsInodeOpen(i)
       THEN SetPassword(i, w)
       ELSE NameiLock(i) /\ UNCHANGED intended
    /\ UNCHANGED <<dpw, opened, live, nextpid, row, panicked, grant>>

(***************************************************************************)
(* filefunprot: no password is success; a matching one is cleared; a       *)
(* wrong one is -1.                                                        *)
(***************************************************************************)
filefunprot(p, i, w) ==
    /\ IF Cur(i) # Empty /\ Cur(i) = w
       THEN SetPassword(i, Empty)
       ELSE NameiLock(i) /\ UNCHANGED intended
    /\ UNCHANGED <<dpw, opened, live, nextpid, row, panicked, grant>>

(***************************************************************************)
(* unlock_inode: nothing if p is in the row already, else p goes to the    *)
(* first free slot; a full row panics.                                     *)
(***************************************************************************)
FreeSlots(i) == {k \in Slots : row[i][k] = 0}

unlock_inode(i, p) ==
    IF InRow(i, p) THEN UNCHANGED <<row, panicked>>
    ELSE IF FreeSlots(i) = {} THEN /\ panicked' = "unlock_inodes: No free pid slots found"
                                   /\ UNCHANGED row
    ELSE /\ row' = [row EXCEPT ![i][Min(FreeSlots(i))] = p]
         /\ UNCHANGED panicked

(***************************************************************************)
(* filefunlock: a set and matching password exempts the caller.           *)
(***************************************************************************)
filefunlock(p, i, w) ==
    /\ NameiLock(i)
    /\ IF Cur(i) # Empty /\ Cur(i) = w
       THEN /\ unlock_inode(i, p)
            /\ grant' = [grant EXCEPT ![i][p] = w]
       ELSE UNCHANGED <<row, panicked, grant>>
    /\ UNCHANGED <<dpw, opened, live, nextpid, intended>>

\* free_inode_locks(pid): every slot holding pid is cleared.
free_inode_locksNoop(p) == row

free_inode_locks(p) ==
    [i \in Inums |-> [k \in Slots |-> IF row[i][k] = p THEN 0 ELSE row[i][k]]]

(***************************************************************************)
(* fork_pids(old, new): in every row holding old, new goes to the first    *)
(* free slot; a row holding old with no free slot panics.                  *)
(***************************************************************************)
ForkRowNoBreak(r, old, new) ==
    IF \E j \in Slots : r[j] = old
    THEN [k \in Slots |-> IF r[k] = 0 THEN new ELSE r[k]] ELSE r

ForkRow(r, old, new) ==
    LET free == {k \in Slots : r[k] = 0} IN
    IF \E j \in Slots : r[j] = old THEN [r EXCEPT ![Min(free)] = new] ELSE r

ForkFull(old) ==
    \E i \in Inums : (\E j \in Slots : row[i][j] = old) /\ FreeSlots(i) = {}

fork_pids(old, new) ==
    IF ForkFull(old)
    THEN /\ panicked' = "fork_pids: No free pid slots found"
         /\ UNCHANGED row
    ELSE /\ row' = [i \in Inums |-> ForkRow(row[i], old, new)]
         /\ UNCHANGED panicked

\* fork: the child shares the parent's open files and inherits its
\* exemptions; a full process table refuses the fork.
Fork(p) ==
    /\ Cardinality(live) < NPROC
    /\ nextpid <= MaxPid
    /\ live' = live \cup {nextpid}
    /\ nextpid' = nextpid + 1
    /\ opened' = [opened EXCEPT ![nextpid] = opened[p]]
    /\ fork_pids(p, nextpid)
    /\ grant' = [i \in Inums |-> [grant[i] EXCEPT ![nextpid] = grant[i][p]]]
    /\ UNCHANGED <<pw, dpw, pinned, intended>>

\* exit: the process closes its files and its exemptions are purged.
Exit(p) ==
    /\ p # InitPid
    /\ live' = live \ {p}
    /\ opened' = [opened EXCEPT ![p] = {}]
    /\ row' = free_inode_locks(p)
    /\ UNCHANGED <<pw, dpw, pinned, nextpid, panicked, intended, grant>>

\* open: a protected inode only for a process is_inode_unlocked admits.
Open(p, i) ==
    /\ i \notin opened[p]
    /\ Cur(i) = Empty \/ InRow(i, p)
    /\ pw' = [pw EXCEPT ![i] = Cur(i)]
    /\ opened' = [opened EXCEPT ![p] = @ \cup {i}]
    /\ UNCHANGED <<dpw, pinned, live, nextpid, row, panicked, intended, grant>>

\* close of the process's last descriptor of the file; the last reference
\* to the inode ends its cache entry unless a leaked one pins it.
Close(p, i) ==
    /\ i \in opened[p]
    /\ opened' = [opened EXCEPT ![p] = @ \ {i}]
    /\ UNCHANGED <<pw, dpw, pinned, live, nextpid, row, panicked, intended, grant>>

\* writei past the end of an open file: the size grows and iupdate writes
\* the whole cached inode, ip->password included, to its dinode.
WriteGrow(p, i) ==
    /\ i \in opened[p]
    /\ dpw' = [dpw EXCEPT ![i] = pw[i]]
    /\ UNCHANGED <<pw, pinned, opened, live, nextpid, row, panicked, intended, grant>>

\* A crash or reboot: memory (the inode cache, the exemption table, the
\* processes) is gone; the dinodes stay.
Reboot ==
    /\ pw' = [i \in Inums |-> Empty]
    /\ pinned' = [i \in Inums |-> FALSE]
    /\ opened' = [p \in Pids |-> {}]
    /\ live' = {InitPid}
    /\ nextpid' = InitPid + 1
    /\ row' = [i \in Inums |-> [k \in Slots |-> 0]]
    /\ grant' = [i \in Inums |-> [p \in Pids |-> Empty]]
    /\ UNCHANGED <<dpw, panicked, intended>>

\* A panic stops the kernel: no step follows it.  (TypeOK states that no
\* panic is reachable, so a panicked state is reported, not a deadlock.)
Next ==
    /\ panicked = NoPanic
    /\ \/ \E p \in live, i \in Inums, w \in Passwords :
            \/ filefprot(p, i, w) \/ filefunprot(p, i, w) \/ filefunlock(p, i, w)
       \/ \E p \in live : Fork(p) \/ Exit(p)
       \/ \E p \in live, i \in Inums : Open(p, i) \/ Close(p, i) \/ WriteGrow(p, i)
       \/ Reboot

Spec == Init /\ [][Next]_vars

-----------------------------------------------------------------------------
(* Properties *)

(***************************************************************************)
(* The exemption table stays consistent with the process table: a row     *)
(* names each process at most once and only running ones.  unlock_inode's  *)
(* membership test, fork_pids' single insertion per row and exit's purge   *)
(* (free_inode_locks) keep it so; this is what keeps a row of NPROC slots  *)
(* from filling and panicking.                                             *)
(***************************************************************************)
ExemptionRowsSound ==
    \A i \in Inums, k1, k2 \in Slots :
        /\ row[i][k1] # 0 => row[i][k1] \in live
        /\ (k1 # k2 /\ row[i][k1] # 0) => row[i][k1] # row[i][k2]

(***************************************************************************)
(* A process holds an open file of a protected inode only if it is       *)
(* exempt from that inode: filefprot refuses an inode some file has open   *)
(* (is_inode_open), open consults is_inode_unlocked, and fork hands the    *)
(* child both the parent's files and its exemptions.                       *)
(***************************************************************************)
OpenProtectedAuthorized ==
    \A p \in live, i \in Inums :
        (i \in opened[p] /\ Cur(i) # Empty) => InRow(i, p)

(***************************************************************************)
(* spec.md: an exemption lasts "no longer than process exit or explicit    *)
(* re-protection".  So an exempt process of a protected inode presented    *)
(* (itself or through the parent it forked from) the password the inode   *)
(* has now.                                                                *)
(***************************************************************************)
ExemptionCurrent ==
    \A i \in Inums, p \in live :
        (InRow(i, p) /\ Cur(i) # Empty) => grant[i][p] = Cur(i)

(***************************************************************************)
(* spec.md: password updates are persisted in transactions.  So the        *)
(* password the next ilock of an inode sees is the one the last successful *)
(* filefprot or filefunprot left, across a reboot too.                     *)
(***************************************************************************)
PasswordDurable ==
    \A i \in Inums : Cur(i) = intended[i]

=============================================================================
