----------------------------- MODULE Directory -----------------------------
(***************************************************************************)
(* One directory's content in src/fs.c: a sequence of fixed-size dirents   *)
(* read and written through readi/writei, scanned by dirlookup, extended   *)
(* or reused by dirlink, and cleared by unlink.  Every operation runs with *)
(* the directory inode locked by its caller, so each is one step.  A name  *)
(* is a sequence of characters; a dirent keeps at most DIRSIZ of them.     *)
(***************************************************************************)
EXTENDS Integers, Sequences, SequencesExt

CONSTANTS
    Names,      \* names the system calls pass (neither "." nor "..")
    Inums,      \* inode numbers to link (never 0)
    DIRSIZ,
    MAXENT,     \* MAXFILE*BSIZE / sizeof(struct dirent)
    SELF, PARENT

VARIABLES ents, ret, panicked

vars == <<ents, ret, panicked>>

Dot == <<".">>
DotDot == <<".", ".">>
FreeEnt == [name |-> <<>>, inum |-> 0]

TruncLong(n) == SubSeq(n, 1, IF Len(n) < DIRSIZ + 1 THEN Len(n) ELSE DIRSIZ + 1)

\* strncpy(de.name, name, DIRSIZ)
Trunc(n) == SubSeq(n, 1, IF Len(n) < DIRSIZ THEN Len(n) ELSE DIRSIZ)

\* strncmp(s, t, DIRSIZ) == 0
namecmp(s, t) == Trunc(s) = Trunc(t)

\* Every dirent holds at most DIRSIZ characters, and the directory stays within MAXENT.
TypeOK ==
    /\ \A k \in DOMAIN ents : /\ Len(ents[k].name) <= DIRSIZ
                              /\ ents[k].inum \in Inums \cup {SELF, PARENT, 0}
    /\ Len(ents) <= MAXENT
    /\ panicked \in {"none", "dirlink"}

\* mkdir's two entries, "." and "..", and nothing else.
Init ==
    /\ ents = <<[name |-> Dot, inum |-> SELF], [name |-> DotDot, inum |-> PARENT]>>
    /\ ret = [op |-> "none"]
    /\ panicked = "none"

(***************************************************************************)
(* dirlookup's scan: the offset (index) of the first used entry whose name *)
(* matches, or 0 when none does.                                           *)
(***************************************************************************)
Match(n) == {k \in DOMAIN ents : ents[k].inum # 0 /\ namecmp(n, ents[k].name)}
LookupOff(n) == IF Match(n) = {} THEN 0 ELSE Min(Match(n))
LookupInum(n) == IF LookupOff(n) = 0 THEN 0 ELSE ents[LookupOff(n)].inum

dirlookup(n) ==
    /\ ret' = [op |-> "lookup", val |-> LookupInum(n)]
    /\ UNCHANGED <<ents, panicked>>

\* The slot dirlink writes: the first free entry, else one past the end.
FreeSlotAppend == Len(ents) + 1

FreeSlot ==
    LET free == {k \in DOMAIN ents : ents[k].inum = 0} IN
    IF free = {} THEN Len(ents) + 1 ELSE Min(free)

dirlinkNoCheck(n, i) ==
    IF FreeSlot > MAXENT
    THEN panicked' = "dirlink" /\ UNCHANGED <<ents, ret>>
    ELSE /\ ents' = IF FreeSlot > Len(ents)
                    THEN Append(ents, [name |-> Trunc(n), inum |-> i])
                    ELSE [ents EXCEPT ![FreeSlot] = [name |-> Trunc(n), inum |-> i]]
         /\ ret' = [op |-> "link", val |-> 0]
         /\ UNCHANGED panicked

(***************************************************************************)
(* dirlink: fail if the name is present; else write (name, inum) at the    *)
(* free slot.  writei refuses an entry past MAXFILE*BSIZE, and dirlink     *)
(* panics.                                                                 *)
(***************************************************************************)
dirlink(n, i) ==
    IF LookupOff(n) # 0
    THEN ret' = [op |-> "link", val |-> -1] /\ UNCHANGED <<ents, panicked>>
    ELSE IF FreeSlot > MAXENT
    THEN panicked' = "dirlink" /\ UNCHANGED <<ents, ret>>
    ELSE /\ ents' = IF FreeSlot > Len(ents)
                    THEN Append(ents, [name |-> Trunc(n), inum |-> i])
                    ELSE [ents EXCEPT ![FreeSlot] = [name |-> Trunc(n), inum |-> i]]
         /\ ret' = [op |-> "link", val |-> 0]
         /\ UNCHANGED panicked

(***************************************************************************)
(* sys_unlink (not in src/): dirlookup(dp, name, &off), then a zeroed      *)
(* dirent written at off; the directory does not shrink.                  *)
(***************************************************************************)
unlink(n) ==
    /\ IF LookupOff(n) = 0
       THEN ret' = [op |-> "unlink", val |-> -1] /\ UNCHANGED ents
       ELSE /\ ents' = [ents EXCEPT ![LookupOff(n)] = FreeEnt]
            /\ ret' = [op |-> "unlink", val |-> 0]
    /\ UNCHANGED panicked

Next ==
    /\ panicked = "none"
    /\ \E n \in Names : dirlookup(n) \/ unlink(n) \/ \E i \in Inums : dirlink(n, i)

Spec == Init /\ [][Next]_vars

-----------------------------------------------------------------------------
(* Properties *)

(***************************************************************************)
(* A directory never fills while its names fit: dirlink reuses the slots   *)
(* unlink frees, so the content never outgrows "." and ".." plus one entry *)
(* per distinct name, and the dirlink panic is unreachable.                *)
(***************************************************************************)
NeverFull == panicked = "none"

Keys == {Trunc(n) : n \in Names}

(***************************************************************************)
(* The dirent sequence implements the name map of spec.md 4.4, with the   *)
(* name each key stands for taken as any name that truncates to it: a     *)
(* lookup answers the first matching entry, which must be the only one.    *)
(***************************************************************************)
KeyName(k) == CHOOSE n \in Names : Trunc(n) = k

Abstract == INSTANCE DirectoryMap WITH
    dir <- [k \in Keys |-> LookupInum(KeyName(k))],
    ret <- ret

RefinesDirectoryMap == Abstract!Spec

=============================================================================
