---------------------------- MODULE Canonicalize ----------------------------
(***************************************************************************)
(* Path resolution of src/fs.c: skipelem, namex/namei, and the symlink     *)
(* canonicalisation filereadlink / filereadlinki ("TASK 1.2"), as pure     *)
(* operators over a fixed directory tree, checked against a reference      *)
(* resolver that follows symlinks one component at a time (spec.md 4.6).  *)
(*                                                                         *)
(* A path is a sequence of tokens: "/" or a whole name.  Names are atomic  *)
(* (no name is DIRSIZ long, so skipelem never truncates one), and the      *)
(* caller's buffer is large enough (the bufsiz test never fails).  The     *)
(* tree does not change during a call.                                     *)
(***************************************************************************)
EXTENDS Naturals, Sequences, SequencesExt

CONSTANTS
    Names,              \* directory-entry names, ".." included
    Inodes,             \* inode numbers of the tree
    ROOTINO,            \* the root directory
    Type,               \* Type[i] \in {"dir", "file", "dev", "symlink"}
    Entries,            \* Entries[i][n]: inode of entry n of directory i, 0 = none
    Link,               \* Link[i]: the target path stored in symlink i
    MAX_SYMLINK_LOOPS,  \* the substitution budget (16 in the kernel)
    Inputs,             \* the pathnames the callers may pass
    Cwds                \* the directories a process may be in

Slash == "/"

\* A result: the canonical path, or failure (-1).
Fail == [ok |-> FALSE]
Ok(r) == [ok |-> TRUE, path |-> r]

VARIABLES
    input,   \* the pathname argument
    follow,  \* TRUE: filereadlink; FALSE: filereadlinki
    cwd      \* proc->cwd, where namex starts a relative path

vars == <<input, follow, cwd>>

(***************************************************************************)
(* skipelem: skip slashes; no element left is 0; else the element and the  *)
(* rest after its trailing slashes.                                        *)
(***************************************************************************)
RECURSIVE SkipSlashes(_)
SkipSlashes(p) == IF p # <<>> /\ Head(p) = Slash THEN SkipSlashes(Tail(p)) ELSE p

NoElem == [name |-> Slash, rest |-> <<>>]

skipelem(p) ==
    LET q == SkipSlashes(p) IN
    IF q = <<>> THEN NoElem ELSE [name |-> Head(q), rest |-> SkipSlashes(Tail(q))]

(***************************************************************************)
(* namex(path, 0): from the root or from cwd, look each element up in the  *)
(* directory reached so far; a non-directory or a missing entry is 0.      *)
(* Symlinks are not followed: a symlink is not a directory.                *)
(***************************************************************************)
RECURSIVE Walk(_, _)
Walk(ip, p) ==
    LET e == skipelem(p) IN
    IF e = NoElem THEN ip
    ELSE IF Type[ip] # "dir" \/ Entries[ip][e.name] = 0 THEN 0
    ELSE Walk(Entries[ip][e.name], e.rest)

IsAbs(p) == p # <<>> /\ Head(p) = Slash

namei(p) == Walk(IF IsAbs(p) THEN ROOTINO ELSE cwd, p)

NoParent == [ip |-> 0, name |-> Slash]

RECURSIVE WalkParentEarly(_, _)
WalkParentEarly(ip, p) ==
    LET e == skipelem(p) IN
    IF e = NoElem THEN NoParent
    ELSE IF e.rest = <<>> THEN [ip |-> ip, name |-> e.name]
    ELSE IF Type[ip] # "dir" \/ Entries[ip][e.name] = 0 THEN NoParent
    ELSE WalkParentEarly(Entries[ip][e.name], e.rest)

(***************************************************************************)
(* namex(path, 1, name): the same walk, but after the directory test the   *)
(* last element stops it, returning the directory and the element; a path  *)
(* with no element left returns 0 (iput).                                  *)
(***************************************************************************)
RECURSIVE WalkParent(_, _)
WalkParent(ip, p) ==
    LET e == skipelem(p) IN
    IF e = NoElem THEN NoParent
    ELSE IF Type[ip] # "dir" THEN NoParent
    ELSE IF e.rest = <<>> THEN [ip |-> ip, name |-> e.name]
    ELSE IF Entries[ip][e.name] = 0 THEN NoParent
    ELSE WalkParent(Entries[ip][e.name], e.rest)

nameiparent(p) == WalkParent(IF IsAbs(p) THEN ROOTINO ELSE cwd, p)

(***************************************************************************)
(* One pass of filereadlink's loop over the elements of origpath_p, with   *)
(* result built so far and loops_left; a symlink is substituted into the   *)
(* path and the scan restarts ("goto restart") after the budget test.      *)
(***************************************************************************)
RECURSIVE Loop(_, _, _, _)

Restart(orig, loops, fin) ==
    Loop(orig, IF IsAbs(orig) THEN <<Slash>> ELSE <<>>, loops, fin)

\* loops_left-- then "if(loops_left == 0) return -1" before the restart.
Substitute(orig, loops, fin) ==
    IF loops - 1 = 0 THEN Fail ELSE Restart(orig, loops - 1, fin)

LoopNoRewind(p, result, loops, fin) ==
    LET e == skipelem(p)
        r == result \o <<e.name>>
        ip == namei(r)
    IN
    IF e = NoElem THEN Fail
    ELSE IF e.rest = <<>>
    THEN IF ~fin THEN Ok(r)
         ELSE IF ip = 0 THEN Fail
         ELSE IF Type[ip] # "symlink" THEN Ok(r)
         ELSE Substitute(IF IsAbs(Link[ip]) THEN Link[ip] ELSE r \o Link[ip],
                         loops, fin)
    ELSE IF ip = 0 \/ Type[ip] \in {"file", "dev"} THEN Fail
    ELSE IF Type[ip] = "dir" THEN Loop(e.rest, r \o <<Slash>>, loops, fin)
    ELSE LET new == result \o Link[ip] \o <<Slash>> \o e.rest IN
         Substitute(IF new[Len(result) + 1] = Slash
                    THEN SubSeq(new, Len(result) + 1, Len(new)) ELSE new,
                    loops, fin)

Loop(p, result, loops, fin) ==
    LET e == skipelem(p)
        r == result \o <<e.name>>
        ip == namei(r)
    IN
    IF e = NoElem THEN Fail
    ELSE IF e.rest = <<>>
    THEN IF ~fin THEN Ok(r)
         ELSE IF ip = 0 THEN Fail
         ELSE IF Type[ip] # "symlink" THEN Ok(r)
         ELSE Substitute(IF IsAbs(Link[ip]) THEN Link[ip] ELSE result \o Link[ip],
                         loops, fin)
    ELSE IF ip = 0 \/ Type[ip] \in {"file", "dev"} THEN Fail
    ELSE IF Type[ip] = "dir" THEN Loop(e.rest, r \o <<Slash>>, loops, fin)
    ELSE LET new == result \o Link[ip] \o <<Slash>> \o e.rest IN
         Substitute(IF new[Len(result) + 1] = Slash
                    THEN SubSeq(new, Len(result) + 1, Len(new)) ELSE new,
                    loops, fin)

\* filereadlink (fin = TRUE) and filereadlinki (fin = FALSE).
Canon(path, fin) ==
    IF path = <<>> THEN Fail
    ELSE IF path = <<Slash>> THEN Ok(<<Slash>>)
    ELSE Restart(path, MAX_SYMLINK_LOOPS, fin)

filereadlink(path) == Canon(path, TRUE)

\* The same loop, except that the last element is returned unresolved.
filereadlinki(path) == Canon(path, FALSE)

\* The call a state stands for.
Call(path) == IF follow THEN filereadlink(path) ELSE filereadlinki(path)

Init ==
    /\ input \in Inputs
    /\ follow \in BOOLEAN
    /\ cwd \in Cwds

\* The tree is fixed during a call: a state is one call, and nothing moves.
Next == UNCHANGED vars

Spec == Init /\ [][Next]_vars

-----------------------------------------------------------------------------
(***************************************************************************)
(* The reference (spec.md 4.6): resolve the components one at a time; a    *)
(* symlink met before the last component, or as the last one when the     *)
(* final target is wanted, is replaced by its target, resolved from the    *)
(* root if absolute and from the directory holding it if relative; each    *)
(* substitution uses one unit of a budget of MAX_SYMLINK_LOOPS.            *)
(***************************************************************************)
Comps(p) == SelectSeq(p, LAMBDA x : x # Slash)

RefFail == [ok |-> FALSE, ino |-> 0, budget |-> 0]

RECURSIVE RefWalk(_, _, _, _)
RefWalk(dir, cs, budget, fin) ==
    IF cs = <<>> THEN [ok |-> TRUE, ino |-> dir, budget |-> budget]
    ELSE IF Type[dir] # "dir" \/ Entries[dir][Head(cs)] = 0 THEN RefFail
    ELSE LET c == Entries[dir][Head(cs)] IN
         IF Type[c] = "symlink" /\ (Tail(cs) # <<>> \/ fin)
         THEN IF budget = 0 THEN RefFail
              ELSE LET t == RefWalk(IF IsAbs(Link[c]) THEN ROOTINO ELSE dir,
                                    Comps(Link[c]), budget - 1, TRUE)
                   IN IF t.ok THEN RefWalk(t.ino, Tail(cs), t.budget, fin) ELSE RefFail
         ELSE RefWalk(c, Tail(cs), budget, fin)

Start(p) == IF IsAbs(p) THEN ROOTINO ELSE cwd

-----------------------------------------------------------------------------
(* Properties *)

(***************************************************************************)
(* filereadlink(i) agrees with the reference: for a path with at least one *)
(* component it succeeds exactly when the reference resolves it (for      *)
(* filereadlinki: resolves its parent to a directory); its result names    *)
(* the same inode through plain namei, so contains no symlink (and, for    *)
(* filereadlink, does not end at one; for filereadlinki it keeps the last  *)
(* name); and it is a fixed point of the same call.  A path with no        *)
(* component ("/", "//") may only succeed as the root.                     *)
(***************************************************************************)
CanonicalAgreesWithReference ==
    LET out == Call(input)
        cs == Comps(input)
        ref == RefWalk(Start(input), IF follow THEN cs ELSE Front(cs),
                       MAX_SYMLINK_LOOPS, TRUE)
    IN
    /\ cs = <<>> => (out.ok => namei(out.path) = ROOTINO)
    /\ cs # <<>> =>
         /\ out.ok = (ref.ok /\ (follow \/ Type[ref.ino] = "dir"))
         /\ out.ok =>
              /\ follow => namei(out.path) = ref.ino /\ Type[ref.ino] # "symlink"
              /\ ~follow => /\ namei(Front(out.path)) = ref.ino
                            /\ Last(out.path) = Last(cs)
              /\ Call(out.path) = out

\* The directory reached by looking the components up in turn, no symlinks followed.
RefPlain(dir, cs) ==
    FoldLeft(LAMBDA d, n : IF d = 0 \/ Type[d] # "dir" THEN 0 ELSE Entries[d][n], dir, cs)

(***************************************************************************)
(* nameiparent (spec.md 4.4, resolve with stop_before_last) returns the    *)
(* directory that all components but the last lead to, and the last name,  *)
(* and fails when there is no component or that is not a directory; what   *)
(* namei returns for the same path is that directory's entry for the name. *)
(***************************************************************************)
NameiParentAgrees ==
    LET np == nameiparent(input)
        cs == Comps(input)
        d == IF cs = <<>> THEN 0 ELSE RefPlain(Start(input), Front(cs))
    IN /\ np.ip = (IF d # 0 /\ Type[d] = "dir" THEN d ELSE 0)
       /\ np.ip # 0 => np.name = Last(cs) /\ namei(input) = Entries[np.ip][np.name]

(***************************************************************************)
(* spec.md 4.6: the canonical path is absolute.                           *)
(***************************************************************************)
ResultAbsolute ==
    LET out == Call(input) IN out.ok => IsAbs(out.path)

=============================================================================
