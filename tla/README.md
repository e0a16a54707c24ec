# TLA+ models of the xv6-derived file-system engine (bitc/3)

This directory holds TLA+ modules, TLC configurations and this document for the
file-system layer in `src/fs.c` and the file-descriptor / password-lock layer in
`src/unnamed/part_001` (xv6's `file.c` with the "TASK 2" additions). The log,
the buffer cache, the spinlock/sleep primitives, the process table and
`sysfile.c` are collaborators that are not in `src/`; where a model needs one of
them it is reduced to the contract `spec.md` gives (and the definition is marked
`spec_modelled` in `PROJECT.json`).

## 1. Inventory

### Components

| Component | Source | State it keeps | Operations |
|---|---|---|---|
| Block allocator | `fs.c` 40-97 | free bitmap on disk | `balloc`, `bfree`, `bzero` |
| Inode store / inode cache | `fs.c` 99-456 | `icache.inode[NINODE]`: `dev, inum, ref, flags{I_BUSY,I_VALID}` + copy of the dinode; on-disk dinodes | `ialloc`, `iupdate`, `iget`, `idup`, `ilock`, `iunlock`, `iput`, `iunlockput` |
| Block-index map | `fs.c` 458-578 | `addrs[NDIRECT+1]`, `indirect2`, contents of indirect blocks | `bmap` (allocating), `itrunc` |
| Content I/O | `fs.c` 580-651 | inode `size`, data blocks | `stati`, `readi`, `writei` |
| Directories | `fs.c` 653-718 | directory content = array of `dirent{inum,name[DIRSIZ]}` | `namecmp`, `dirlookup`, `dirlink` |
| Path names | `fs.c` 720-809 | none (walks the tree) | `skipelem`, `namex`, `namei`, `nameiparent` |
| Symlink canonicalisation | `fs.c` 811-1036 | local buffers `origpath`, `result`, loop budget 16 | `filereadlink`, `filereadlinki` |
| Password-lock exemption table | `fs.c` 166-259 | `unlocked_inodes.pids[NINODES][NPROC]` | `unlock_inode`, `free_inode_locks`, `is_inode_unlocked`, `fork_pids` |
| Password protect/unprotect/unlock | `part_001` 158-269 | `ip->password` (in the cached inode) | `filefprot`, `filefunprot`, `filefunlock` |
| Open-file table | `part_001` 1-156 | `ftable.file[NFILE]`: `ref, type, ip, off, readable, writable` | `filealloc`, `filedup`, `fileclose`, `filestat`, `fileread`, `filewrite` |
| User programs | `find.c`, `test_flock.c`, `part_000` | process-local | `find`, `test_flock`, bulk writer, `test_readlink` |

### How they interact

* Every path operation descends: `filefprot` → `filereadlinki` → `namei` →
  `namex` → `iget`/`ilock`/`dirlookup` → `readi` → `bmap` → `balloc`.
* Shared state: the inode cache (guarded by `icache.lock` for `ref`/identity and
  by the per-inode `I_BUSY` sleep lock for everything else), the disk (dinodes,
  bitmap, indirect blocks, data), the exemption table (its own spinlock), the
  file table (its own spinlock). Each process is a kernel thread running these
  routines concurrently.
* `iput` releases `icache.lock` while it truncates and frees an unlinked inode
  and re-acquires it afterwards; `ilock` reads the dinode after releasing
  `icache.lock`; `fileclose` calls `iput` after dropping `ftable.lock`.
* `filewrite` splits one write into several transactions.

### What is hard

* Interleavings of `iget`/`ilock`/`iput` on one slot: the window in `iput`
  (fs.c 437-443) where the slot has `ref == 1`, is busy, and its dinode has
  been freed on disk, so `ialloc` of another thread can claim the same inum and
  `iget` the same slot.
* Reference and lock leaks: every `namei` in `filereadlink(i)` and in
  `filefprot/funprot/funlock` takes a reference that is never `iput`; the
  "traverse through a file" branch (fs.c 907-909, 1007-1009) returns with the
  inode still `I_BUSY`, so the next `ilock` of it sleeps for ever.
* The symlink loop budget (fs.c 889-892, 926-929): 16 is decremented before it is
  tested, so the 16th substitution already fails.
* The password lives only in the cached inode: `filefprot`/`filefunprot` never
  call `iupdate` (part_001 196, 231), so a reboot or the reload of the slot
  loses it; exemptions are keyed by `inum` only and are never cleared when a
  file is re-protected or its inum is reused.
* Block-map arithmetic at the direct / indirect / double-indirect boundaries
  (fs.c 474-520) and the nested frees of `itrunc` (fs.c 535-573).
* Partial failure of a multi-transaction `filewrite` (part_001 135-153): batches
  already committed stay written and the offset advanced, yet `-1` is returned.

### What makes each component correct

* Inode cache: one cache entry per inum among referenced entries; `ref` equals
  the references the threads hold; a thread that holds the lock of a valid entry
  sees exactly the dinode on disk; an inode is truncated only when nobody else
  references it; every thread waiting in `ilock` eventually gets the lock.
* Block map / allocator: every block reachable from an inode is allocated in the
  bitmap and reachable from exactly one place; every allocated block is
  reachable (no leak after `itrunc`); `bmap(i)` is stable until truncation;
  what `writei` wrote is what `readi` reads (refinement of an abstract file).
* Canonicalisation: the result names the same object as the input, contains no
  symlink, is a fixed point; cycles fail; chains within the budget resolve.
* Password lock: a process can bypass the password only if it presented the
  current password; a protected file stays protected across reboot; the
  exemption table never overflows while it is cleaned on exit.
* File table: the inode reference of an open file is dropped exactly once, when
  the last descriptor closes; offsets advance by what was written.

## 2. Plan

Modules, in order of importance (✓ = written in this sitting):

1. ✓ `InodeCache` — threads running `ialloc`, `iget` (through a directory
   lookup), `idup`, `ilock`, `iunlock`, `iput` with the truncate window, and the
   system-call layer's `nlink` updates and `writei` growth. `MCInodeCache`
   instantiates it.
2. ✓ `BlockMap` — bitmap allocator, `bmap` with direct / single / double indirect
   levels (small `NDIRECT`, `NINDIRECT`), `itrunc`, `writei`/`readi` at block
   granularity; `AbstractFile` the abstract spec (content per block index) and
   `BlockMap` shown to refine it.
3. ✓ `PasswordLock` — the exemption table and `filefprot/funprot/funlock`, fork,
   exit, a reboot; violation runs for the re-protect exemption and the password
   that is never written to disk.
4. ✓ `Canonicalize` — `skipelem` and `filereadlink(i)` as RECURSIVE operators over
   path strings in a small fixed tree, checked against a reference resolver;
   violation run for the 16-substitution budget.
5. ✓ `FileTable` — `filealloc/dup/close/read/write`, batches of `filewrite`,
   with the inode references and `I_BUSY` they use and `filereadlink`'s leaking
   branch; a liveness violation run for the leaked `I_BUSY` (this replaces the
   planned `PathLocks`).
6. ✓ `Find` — `find.c`'s option parsing and recursive search, on top of
   `Canonicalize`'s resolver, checked against a reference traversal.
7. ✓ `Directory` — `namecmp`, `dirlookup`, `dirlink` and `unlink` on one
   directory's dirent sequence, refining the abstract name map `DirectoryMap`.

Abstract specifications: `AbstractFile` (each file a sequence of bytes) refined by
`BlockMap` (✓); `DirectoryMap` (a name → inum map) refined by `Directory` (✓); an abstract per-inum mutex refined by `InodeCache` (still to do).

Not modelled: `test_flock.c` and `part_000` are test drivers that only call
system calls and print; the log and buffer cache
are external and taken as atomic transactions; `stati`/`namecmp` are pure data
copies.

## 3. Modules and runs

Each module keeps the names of the code: an action or operator is named after the
function it models (`iget`, `bmap`, `filefprot`, ...), or after the step of a
function when that function is split at a point where another thread can run
(`IlockSleep`, `IputRelease`). `PROJECT.json` maps every definition to the lines
it models.

### `InodeCache` (fs.c `iget`, `idup`, `ilock`, `iunlock`, `iput`, `ialloc`, `iupdate`)

State: `icache` is the `NINODE` cache slots, each holding `inum, ref, busy, valid`
and the copied dinode fields. `disk` is the on-disk dinodes. `pc`, `slot` and
`arg` are each thread's position in its call and the slot it holds. `refs` is the
references each thread holds, a ghost variable used only by the properties.
`panicked` records a kernel panic.

Actions:
* Each section under `icache.lock` is one atomic action:
  * `iget`, with its hit, recycle and "no inodes" outcomes;
  * `idup`;
  * `IlockEnter`, `IlockAcquire`, `iunlock`;
  * `iput` and `IputRelease`.
* The steps taken with the lock released are separate actions:
  * `IlockLoad` reads the dinode;
  * `itrunc` and `IputFreeType` are iput's free window;
  * `IallocIget` is the iget that ialloc ends with;
  * `IlockSleep` sleeps on a busy slot.
* `Lookup` is a directory lookup followed by `iget`.
* `WriteGrow` (writei growing a file) and `SetNlink` (link and unlink) are the
  system-call layer's updates, made under the inode lock and written back with
  `iupdate`.

`MCInodeCache` runs 3 threads over 2 slots and 2 inums. It has no symmetry
reduction, because the same run checks the liveness property `SleeperWoken`.
Three threads on two slots exhaust the cache, so iget's "no inodes" panic is
reached. Two inums let one be freed and reallocated while the other stays in the
cache.

| Run | Checks | Result |
|---|---|---|
| `inode_cache` | `TypeOK`, `RefCountExact`, `UniqueIdentity`, `LockedViewCoherent`, `TruncateUnshared`, `NoOrphanInode`, `SleeperWoken` (3 threads) | pass, 827,059 states |

What the properties say:
* **`UniqueIdentity`** covers the window in iput where the free runs with
  `icache.lock` released. Another thread's `ialloc` may take the freed inum
  then, and its `iget` must still not create a second entry for it.
* **`LockedViewCoherent`** says a locked, valid entry equals the dinode on
  disk. It holds because iget clears the flags of a recycled slot and
  `IputRelease` clears `I_VALID`.
* **`SleeperWoken`** rests on weak fairness only for the steps a thread takes
  while holding `I_BUSY` or inside `ilock`. The callers InodeCache models all
  unlock: `Iunlock` is a step every holder may take, and iput's free sequence
  runs straight through. Not every system call does this. `filereadlink(i)`
  returns -1 with the inode still `I_BUSY` when a path goes through a file or
  device (fs.c 909, and 1009 in the copy), and then its sleepers are never
  woken (see `file_lock_leak`). So `SleeperWoken` shows that ilock's wakeup
  works whenever the holder unlocks, not that every holder does. A caller's own
  next call is not forced.

### `BlockMap` and `AbstractFile` (fs.c `balloc`, `bfree`, `bmap`, `itrunc`, `readi`, `writei`)

State: `used` is the bitmap. `blk` is the words of each block, where an indirect
block holds block numbers and a data block holds values. `ino` is each inode's
`size`, `addrs` and `indirect2`. `panicked` records a panic.

Actions:
* `writei(ip, off, n, v)` is the whole call: its early returns, the chunk loop
  through `bmap` (which allocates at all three levels), and the size update with
  `iupdate`.
* `itrunc(ip)` frees the direct blocks, then the indirect tree, then the
  double-indirect tree, and resets the size.

`AbstractFile` is what the layer promises: each file is a byte sequence that a
write overwrites or extends and that truncation empties.
`RefinesAbstractFile` checks `BlockMap` against it. The mapping from `BlockMap`'s
state to the abstract file contents is `readi` of the whole file.
`AllocationExact` says that the blocks the inode trees reach, each from one place
only, are exactly the blocks marked in the bitmap.

`MCBlockMap` runs with the following bounds:
* `NDIRECT=1`, `NINDIRECT=2`, `BSIZE=1` and 8 blocks. Every level boundary of
  bmap is crossed, and balloc runs out of blocks.
* A write may span two blocks (`n` up to `BSIZE+1`).
* A VIEW identifies states that differ only in the contents of free blocks.
  This is sound because balloc zeroes a block before anything reads it.

| Run | Checks | Result |
|---|---|---|
| `block_map` | `TypeOK`, `AllocationExact`, `RefinesAbstractFile` | pass, 9,155 states |

### `PasswordLock` (fs.c exemption table; part_001 `filefprot`, `filefunprot`, `filefunlock`)

State:
* `pw` is the password in the cached inode and `dpw` the password on disk.
  `pinned` marks the cache entries the leaked `namei` references keep.
* `opened`, `live` and `nextpid` are the file descriptors and the process table.
* `row` is `unlocked_inodes.pids`.
* `intended` and `grant` are ghost variables: the password the last successful
  call set, and the password each exemption was obtained with.

Actions:
* `filefprot`, `filefunprot` and `filefunlock` include `unlock_inode`.
* `Fork` includes `fork_pids`, and `Exit` includes `free_inode_locks`.
* `Open`, `Close` and `WriteGrow` are the paths by which a cached inode is
  reloaded or its copy written back.
* `Reboot` empties the cache, the process table and the exemption table.

`MCPasswordLock` runs with `NPROC=3`, four process ids (so pids are reused after
exit and reboot), two inums (one of them a file) and two passwords.

| Run | Checks | Result |
|---|---|---|
| `password_lock_safety` | `TypeOK`, `ExemptionRowsSound`, `OpenProtectedAuthorized` | pass, 853,840 states |
| `password_reprotect_exemption` | `ExemptionCurrent` | **violated**: protect with a, unlock with a, unprotect, protect with b; the process is still exempt |
| `password_reboot` | `PasswordDurable` | **violated**: protect, reboot; the password is gone |

### `Canonicalize` (fs.c `skipelem`, `namex`/`namei`/`nameiparent`, `filereadlink`, `filereadlinki`)

These functions are pure over a fixed directory tree, so they are RECURSIVE
operators:
* a path is a sequence of tokens, each `"/"` or a whole name;
* `Loop` is one pass of the `restart` loop;
* `Substitute` is the budget test and the `goto restart`.

The state is only the arguments of one call (input, variant, cwd), and
`Next == UNCHANGED vars`. Every initial state is one call. The reference
`RefWalk` resolves components one at a time as spec.md 4.6 describes, with the
same budget.

`WalkParent` is `namex` with `nameiparent` set. It tests `T_DIR` first, then
stops at the last element, and returns 0 for a path with no element.
`NameiParentAgrees` checks it against `RefPlain`, a fold over the components
without symlinks. It also checks that `namei` of the same path is the returned
directory's entry for the returned name.

The tree in `MCCanonicalize` contains:
* an absolute link, a relative link into a subdirectory, a self-loop, and a link
  with `..`;
* a plain file to traverse through.

The inputs are every path of 1 to 3 names, with single and double slashes, a
leading `/` or not, and a trailing `/` or not. Each runs from two working
directories in both variants.

| Run | Checks | Result |
|---|---|---|
| `canonicalize` | `CanonicalAgreesWithReference` (budget 8), `NameiParentAgrees` | pass, 18,572 calls |
| `canonicalize_budget` | `CanonicalAgreesWithReference`, on a chain `/s1 -> ... -> /s16 -> /f` with budget 16 | **violated**: the code resolves only 15 substitutions; with budget 17 the chain passes |
| `canonicalize_relative` | `ResultAbsolute` | **violated**: input `..` gives the relative result `..` |

The tree run uses a budget of 8 rather than 16. The self-loop exhausts any
budget, and a shorter chain of nested restarts keeps TLC's recursive evaluation
within its stack. No tree path needs between 8 and 16 substitutions, so 8 loses
no case.

### `Find` (find.c `main`, `set_default_search_options`, `basename`, `search`)

`find` is a sequential program, so `Find` models one run of it as a pure
function of its command line, the way `Canonicalize` models one call. The single
variable `argv` ranges over the command lines `MCFind` enumerates, and `Next`
leaves it unchanged. `main_parse`/`ParseFrom` translate `main`'s option loop: each
early `exit()` is the result `Usage`, and `SizeBounds` gives `+n`, `-n` and `n`
with the uint arithmetic of lines 423-428 (`% UMAX`). `search` is RECURSIVE like
the C function. It opens the path with or without `O_IGNLINK` through
`Canonicalize`'s `RefWalk` (`OpenStat`). A failed open is silently skipped when
following a symlink, and otherwise makes the program exit. The selection tests
of each case are `Selected`/`Emit`. A symlink with `-follow` recurses with
`following_symlink = 1`. `List` is the `for(;;)` loop: it reopens the directory
for every entry and reads past `cur_entry - 1` entries, so the read order is
`ReadOrder` (entry 1 twice, then 2, 3, ...). `Visit` skips empty slots, `.` and
`..`, and stops with status `overflow` where the `buf` copy would pass `MAXPATH`.
`InTurn` concatenates the children's output up to the first one that exits.

`FindAgreesWithReference` compares the result with a reference built from the
tree and not from the code. The reference is the set of paths under the start
path (`Under`, through symlinks when `-follow` is given) that satisfy the
options. Find must print that set, each path once, no path before its parent,
and must exit exactly when the start path cannot be opened. `MCFind` has a
two-level tree holding a file, a device, an empty dirent, a live absolute
symlink, a broken one and a relative one. It runs from eight start paths
(including a relative one, a symlink and a missing path) with every combination
of up to three options.

| Run | Checks | Result |
|---|---|---|
| `find` | `FindAgreesWithReference` | pass, 26,560 command lines |

`-size -0` is left out of the pass inputs. `max_size = 0 - 1` wraps to
`0xFFFFFFFF`, so "smaller than 0" selects everything. With `Argvs <-
MCArgvsSizeEdge` the property is violated. This is recorded as a hazard, because
every run slot is in use.

### `FileTable` (part_001 `filealloc`, `filedup`, `fileclose`, `fileread`, `filewrite`; fs.c `filereadlink` 897-909)

State: `file[f]` is `ftable.file[f]`, and `desc[p][f]` counts the descriptors
process `p` holds to `f`. `iref`, `busy` and `size` are the `ref`, `I_BUSY` and
`size` of the cached inodes. `pc[p]` records a process that is part-way through
a call: between the two halves of `fileclose`, in the `ilock` of `fileread`, in
the batch loop of `filewrite` (with its `i`), or in the `ilock` of
`filereadlink`. `Open` is `sys_open`, which is not in the repository: it takes a
`namei` reference, calls `filealloc` (first free slot), and drops the
reference when the table is full. `fileclose` is the `ftable.lock` section.
`CloseIput` is the `iput(ff.ip)` after the lock is released. `filewrite` is one
batch of the loop. It fails when `off + n1` passes `MAXFILE*BSIZE`, and then
the loop breaks with the earlier batches committed. `filereadlinkNamei` and
`filereadlinkIlock` are the two steps of the traverse-through-a-file branch. It
takes a reference and the lock, and gives back neither. A ghost `leaked` counts
those references. File contents are abstracted to sizes.

`RefsExact` states two things. Each file's `ref` is the number of descriptors to
it. Each inode's `ref` is one per open file on it, plus one per closer between
`release` and `iput`, plus the leaked references. The second part fails if the
`iput` used the slot (which `filealloc` may already have reused) instead of the
copy `ff`. `TypeOK` includes that no panic ("filedup", "fileclose") is reached.
`OffsetWithinSize` says every open file's offset lies within its inode's
size. The size changes through other file structures, and the offset through
every process that shares the structure. The property rests on `readi`'s clamp
(`readi` returns -1 past the end, and `fileread` adds only a positive count) and
on `writei` growing the size. It means each batch of an interleaved
`filewrite` starts inside the file.

`ReadReturns` is liveness: a process in `fileread` returns. It assumes weak
fairness of every in-kernel step of a process (`CloseIput`, `fileread`,
`filewrite`, `filereadlinkIlock`). A process inside a system call keeps running,
and `ilock`'s sleeper is woken by every `iunlock`; in this model the lock is
only ever held across one step. Which system call a process makes next is not
forced.

`MCFileTable` has 2 processes, 2 slots and 2 files, with `MAXBYTES` 2,
`MAXBATCH` 1, lengths 1 and 2, and one descriptor per process and file. With
these bounds a slot is freed and reused before the old `iput`, the table fills,
and a two-batch write fails at its second batch. The pass run sets
`CHECK_DEADLOCK FALSE`, because a leaked `I_BUSY` really can leave every
process asleep.

| Run | Checks | Result |
|---|---|---|
| `file_table` | `TypeOK`, `RefsExact`, `OffsetWithinSize` | pass, 2,011,178 states |
| `file_lock_leak` | `ReadReturns` | **violated**: one process calls `filereadlink` on a path through file i1 and returns with i1 still locked; the other process's read of i1 then sleeps in `ilock` for ever (in TLC's trace p2 leaks the lock and p1 hangs) |

### `Directory` and `DirectoryMap` (fs.c `namecmp`, `dirlookup`, `dirlink`; `sys_unlink`)

`Directory` models the content of one directory: `ents` is the sequence of
dirents that `readi`/`writei` see, with an `inum` of 0 for a free slot. Each
operation runs with the directory inode locked by its caller, so each is one
step.
* `Trunc` is `strncpy(de.name, name, DIRSIZ)`, and `namecmp` is
  `strncmp(.., DIRSIZ)`.
* `dirlookup` returns the first used entry that matches (`LookupOff`).
* `dirlink` returns -1 if the name is present. Otherwise it writes at the first
  free slot or appends (`FreeSlot`). It panics when `writei` would pass
  `MAXENT` entries.
* `unlink` is `sys_unlink`, which is not in the repository. It writes a zeroed
  dirent at the offset `dirlookup` found, and the directory never shrinks.
* `Init` is what `mkdir` leaves: `.` and `..`.
* `ret` is the answer of the last operation.

`DirectoryMap` is the spec.md 4.4 promise: a map from names, compared up to the
maximum length, to inums. In it, link fails on a present name and unlink removes
one. `RefinesDirectoryMap` instantiates it with
`dir <- [k |-> LookupInum(KeyName(k))]`. This holds only if no name ever has two
entries: `dirlookup` sees the first one, and `unlink` would uncover the second.
`NeverFull` says the `dirlink` panic is unreachable when `MAXENT` is exactly `.`,
`..` and one slot per distinct name. That holds only because `dirlink` reuses
the slots `unlink` frees.

`MCDirectory` uses names `a`, `b`, `abc` and `abd` with `DIRSIZ` 2, so `abc`
and `abd` are the same entry, and a name of exactly `DIRSIZ` characters is
stored without a terminator. Two inums and `MAXENT` 5 complete the instance.
Every sequence of operations is explored.

| Run | Checks | Result |
|---|---|---|
| `directory` | `TypeOK`, `NeverFull`, `RefinesDirectoryMap` | pass, 960 states |

### Findings

* `ExemptionCurrent` (part_001 196) is a divergence from spec.md. An exemption
  survives re-protection because `filefprot` never clears `unlocked_inodes`.
* `PasswordDurable` (part_001 196) is a divergence from spec.md.
  `filefprot`/`filefunprot` set `ip->password` but never call `iupdate`, so a
  reboot, or the reload of a slot nobody references, loses the password.
* Symlink budget (fs.c 889) is a divergence from spec.md. A chain of exactly 16
  symlinks fails.
* Relative result (fs.c 844) is a divergence from spec.md. A relative input
  gives a relative canonical path.
* `ReadReturns` (fs.c 909) is a code bug. `filereadlink` returns -1 with the
  inode locked, so every later `ilock` of that file, including one in a plain
  `read`, sleeps for ever.

### Not modelled (yet)

* Pipe files (`FD_PIPE` branches of part_001) are not modelled, because
  `pipe.c` is not in the repository. `filestat` changes no state.
* `FileTable` uses its own inode `ref`/`I_BUSY` and does not INSTANCE
  `InodeCache`. Composing the two would make the cache slots finite, and then
  the exhaustion caused by leaked references (`iget: no inodes`) could be
  checked.
* No property states what filewrite's -1 after a partial write should mean,
  because spec.md does not say.
* `Find` runs against a fixed tree, so a concurrent unlink between its reopens
  is not modelled. The model tree has no symlink cycle under `-follow`.
* Byte lengths are not modelled: MAXPATH, DIRSIZ truncation in `skipelem`, and
  `bufsiz`.
* `Canonicalize` and `Find` take a directory as a name → inum function, with
  the first matching entry winning. The `directory` run justifies this: it
  shows the dirent sequence implements such a map. Concurrent path walks
  against `dirlink` or `unlink` are not modelled.
* The log, the buffer cache and the sleep and spinlock primitives are not in
  `src/`. A transaction is taken as atomic, a spinlock section as one step, and
  `sleep`/`wakeup` as blocking on a condition.
* `test_flock.c` and `part_000` (test drivers) are not modelled.
* Three disagreements found while modelling have no run of their own, because
  the project keeps to twelve runs. They are listed as hazards in
  `PROJECT.json`:
  * `canonicalize("//")` fails instead of naming the root (fs.c 833);
  * `find -size -0` matches everything through the uint wrap (find.c 425),
    which `MCFind`'s `MCArgvsSizeEdge` inputs show;
  * `filefprot` resolves its path twice, so a concurrent rename can redirect
    it (part_001 172). `PasswordLock` abstracts paths to inodes, and modelling
    this race would need a path layer.
* The first part of `src/find.c` is a second version of the program whose
  `search` is an empty stub ("TODO"). Only its option parsing, the same as the
  full version's, does anything, so it is not modelled separately.
