-------------------------------- MODULE Find --------------------------------
(***************************************************************************)
(* The user program src/find.c (the implemented copy, lines 162-463):      *)
(* main's option parsing and the recursive search over a fixed tree, as    *)
(* pure operators, checked against a reference: the set of paths under the *)
(* start path whose object satisfies every predicate given.                *)
(*                                                                         *)
(* Paths are token sequences as in Canonicalize, and names are one byte    *)
(* long.  open() is not in src/: it canonicalises the path and resolves    *)
(* the result (spec.md 4.6), following the last symlink unless O_IGNLINK.  *)
(* fstat gives the type and size of the opened object.                     *)
(***************************************************************************)
EXTENDS Naturals, Sequences, SequencesExt

CONSTANTS
    Names,              \* directory-entry names, "." and ".." included
    Inodes,             \* inode numbers of the tree
    ROOTINO,
    Type,               \* Type[i] \in {"dir", "file", "dev", "symlink"}
    Size,               \* Size[i]: st.size of inode i
    Dirents,            \* Dirents[i]: the records [inum, name] of directory i, in order
    Link,               \* Link[i]: the target path of symlink i
    MAX_SYMLINK_LOOPS,
    DIRSIZ,             \* bytes memmove copies into buf per entry
    MAXPATH,            \* sizeof(buf)
    UINT_BITS,          \* width of min_size and max_size
    Lead(_),            \* Lead(s): the first character of a -size argument, "+", "-" or ""
    Digits(_),          \* Digits(s): what atoi reads from the digits of a -size argument
    Argvs               \* the argument vectors main may get: argv[1] a path, the rest words

Slash == "/"
UMAX == 2^UINT_BITS

\* The directory function open() resolves through: dirlookup returns the
\* first entry with the name.
EntryFn == [i \in Inodes |-> [n \in Names |->
               LET ks == {k \in DOMAIN Dirents[i] : Dirents[i][k].name = n
                                                   /\ Dirents[i][k].inum # 0}
               IN IF Type[i] = "dir" /\ ks # {} THEN Dirents[i][Min(ks)].inum ELSE 0]]

VARIABLE argv

C == INSTANCE Canonicalize WITH
        Entries <- EntryFn, Inputs <- {}, Cwds <- {ROOTINO},
        input <- <<>>, follow <- TRUE, cwd <- ROOTINO

(***************************************************************************)
(* open(path, following ? 0 : O_IGNLINK) then fstat: the inode opened, or  *)
(* 0 when open fails.  open is not in src/; spec.md 4.6 says it            *)
(* canonicalises the path (the last symlink kept under O_IGNLINK) and      *)
(* resolves the result, which is resolving the path one component at a     *)
(* time with the same budget (the canonicalize run checks that they agree).*)
(***************************************************************************)
OpenStat(path, following) ==
    LET r == C!RefWalk(C!Start(path), C!Comps(path), MAX_SYMLINK_LOOPS, following) IN
    IF r.ok THEN r.ino ELSE 0

\* basename: what follows the last '/' ("" when the path ends in one).
Basename(path) == IF path = <<>> \/ Last(path) = Slash THEN "" ELSE Last(path)

(***************************************************************************)
(* main: defaults, then argv[2..] one word at a time; -help, a missing or  *)
(* empty parameter, an unknown -type or an unknown word end the program    *)
(* before the search.  The bounds are uint: "+n" sets n + 1, "-n" n - 1.   *)
(***************************************************************************)
NoName == ""
Defaults == [follow |-> FALSE, name |-> NoName, type |-> "FT_ANY",
             min_size |-> 0, max_size |-> UMAX - 1]
Usage == [ok |-> FALSE]

TypeArg == ("d" :> "FT_DIR") @@ ("f" :> "FT_FILE") @@ ("s" :> "FT_SYMLINK")

SizeBounds(o, s) ==
    CASE Lead(s) = "+" -> [o EXCEPT !.min_size = (Digits(s) + 1) % UMAX]
      [] Lead(s) = "-" -> [o EXCEPT !.max_size = (Digits(s) - 1) % UMAX]
      [] OTHER         -> [o EXCEPT !.min_size = Digits(s) % UMAX,
                                    !.max_size = Digits(s) % UMAX]

RECURSIVE ParseFrom(_, _)
ParseFrom(i, o) ==
    IF i > Len(argv) THEN [ok |-> TRUE, opts |-> o]
    ELSE LET w == argv[i] IN
    CASE w = "-help"   -> Usage
      [] w = "-follow" -> ParseFrom(i + 1, [o EXCEPT !.follow = TRUE])
      [] w \in {"-name", "-size", "-type"} /\ i + 1 > Len(argv) -> Usage
      [] w = "-name"   -> IF argv[i + 1] = "" THEN Usage
                          ELSE ParseFrom(i + 2, [o EXCEPT !.name = argv[i + 1]])
      [] w = "-size"   -> IF argv[i + 1] = "" THEN Usage
                          ELSE ParseFrom(i + 2, SizeBounds(o, argv[i + 1]))
      [] w = "-type"   -> IF argv[i + 1] \notin DOMAIN TypeArg THEN Usage
                          ELSE ParseFrom(i + 2, [o EXCEPT !.type = TypeArg[argv[i + 1]]])
      [] OTHER         -> Usage

main_parse ==
    IF Len(argv) < 1 \/ argv[1] = <<"-help">> THEN Usage
    ELSE ParseFrom(2, Defaults)

(***************************************************************************)
(* search(path, following_symlink).  A result is the paths printed and    *)
(* how the program went on: "ok", "exit" (an open error, exit()), or       *)
(* "overflow" (buf written past MAXPATH).                                  *)
(***************************************************************************)
Done(out) == [out |-> out, status |-> "ok"]
Stop(st) == [out |-> <<>>, status |-> st]

\* r, then what follows unless r ended the program.
AndThen(r, next) ==
    IF r.status # "ok" THEN r ELSE [next EXCEPT !.out = r.out \o next.out]

\* The three skip tests, with the file-type predicate of the case.
Selected(o, path, ip, ft) ==
    /\ o.name = NoName \/ Basename(path) = o.name
    /\ o.type \in {"FT_ANY", ft}
    /\ o.min_size <= Size[ip] /\ Size[ip] <= o.max_size

Emit(o, path, ip, ft) == Done(IF Selected(o, path, ip, ft) THEN <<path>> ELSE <<>>)

\* buf holds path, a '/' unless path is "/", then DIRSIZ bytes and a NUL.
Child(path, name) == IF path = <<Slash>> THEN path \o <<name>> ELSE path \o <<Slash, name>>
ChildEnd(path) == Len(path) + (IF path = <<Slash>> THEN 0 ELSE 1) + DIRSIZ

RECURSIVE search(_, _, _)

\* An entry read in the loop: not free, not "." or "..", is searched as
\* buf, unless building buf writes past its end.
Visit(o, path, de) ==
    IF de.inum # 0 /\ de.name \notin {".", ".."}
    THEN IF ChildEnd(path) >= MAXPATH THEN Stop("overflow")
         ELSE search(o, Child(path, de.name), FALSE)
    ELSE Done(<<>>)

\* The results one after another, up to the first that ended the program.
InTurn(res) ==
    LET bad == {j \in DOMAIN res : res[j].status # "ok"}
        upto == IF bad = {} THEN Len(res) ELSE Min(bad)
    IN [out |-> FlattenSeq([j \in 1..upto |-> res[j].out]),
        status |-> IF bad = {} THEN "ok" ELSE res[Min(bad)].status]

(***************************************************************************)
(* The for(;;) loop: at each cur_entry, reopen path, skip cur_entry - 1    *)
(* entries and read one; a short read ends it.  So the entries are read in *)
(* the order 1, 1, 2, ..., n.  The tree does not change while find runs,   *)
(* so every reopen gives the inode of the first: a directory's entries, or *)
(* none for another inode (a symlink's text is shorter than a dirent).     *)
(***************************************************************************)
EntriesOf(ip) == IF Type[ip] = "dir" THEN Dirents[ip] ELSE <<>>
ReadOrder(n) == IF n = 0 THEN <<>> ELSE <<1>> \o [j \in 1..n |-> j]

ListIgnoreLink(o, path, following) ==
    LET fd == OpenStat(path, FALSE) IN
    IF fd = 0 THEN Stop("exit")
    ELSE LET ents == EntriesOf(fd)
             idx == ReadOrder(Len(ents))
         IN InTurn([j \in DOMAIN idx |-> Visit(o, path, ents[idx[j]])])

List(o, path, following) ==
    LET fd == OpenStat(path, following) IN
    IF fd = 0 THEN Stop("exit")
    ELSE LET ents == EntriesOf(fd)
             idx == ReadOrder(Len(ents))
         IN InTurn([j \in DOMAIN idx |-> Visit(o, path, ents[idx[j]])])

search(o, path, following) ==
    LET ip == OpenStat(path, following) IN
    IF ip = 0 THEN Stop(IF following THEN "ok" ELSE "exit")
    ELSE CASE Type[ip] = "dir"  -> AndThen(Emit(o, path, ip, "FT_DIR"),
                                           List(o, path, following))
           [] Type[ip] = "file" -> Emit(o, path, ip, "FT_FILE")
           [] Type[ip] = "dev"  -> Emit(o, path, ip, "FT_ANY")
           [] Type[ip] = "symlink" ->
                 IF o.follow THEN search(o, path, TRUE)
                 ELSE Emit(o, path, ip, "FT_SYMLINK")

\* The whole program: what it prints, and how it ends.
Find ==
    LET p == main_parse IN
    IF ~p.ok THEN Stop("usage") ELSE search(p.opts, argv[1], FALSE)

Init == argv \in Argvs

\* The tree does not change while find runs: a state is one run.
Next == UNCHANGED argv

Spec == Init /\ [][Next]_argv

-----------------------------------------------------------------------------
(***************************************************************************)
(* The reference: the objects under the start path, each reached by one   *)
(* path; a symlink stands for its target when -follow is given (a broken   *)
(* one for nothing), and is not descended into otherwise.  The predicates  *)
(* are those usage and the comments of main describe: -name the last path  *)
(* element, -type d/f/s, -size n exactly n, +n more than n, -n less than n.*)
(***************************************************************************)
Resolve(path, fin) ==
    LET r == C!RefWalk(C!Start(path), C!Comps(path), MAX_SYMLINK_LOOPS, fin) IN
    IF r.ok THEN r.ino ELSE 0

Members(d) == {Dirents[d][k].name : k \in {j \in DOMAIN Dirents[d] :
                   Dirents[d][j].inum # 0 /\ Dirents[d][j].name \notin {".", ".."}}}

\* The pairs <<path, object>> at and under path.
RECURSIVE Under(_, _)
Under(path, fol) ==
    LET o == Resolve(path, fol) IN
    IF o = 0 THEN {}
    ELSE {<<path, o>>} \cup
         (IF Type[o] = "dir" THEN UNION {Under(Child(path, n), fol) : n \in Members(o)}
          ELSE {})

\* The predicate given after each option word at position i.
Given(w) == {i \in 2..(Len(argv) - 1) : argv[i] = w}
FT(ip) == CASE Type[ip] = "dir" -> "FT_DIR" [] Type[ip] = "file" -> "FT_FILE"
            [] Type[ip] = "symlink" -> "FT_SYMLINK" [] OTHER -> "none"
SizeHolds(s, z) ==
    CASE Lead(s) = "+" -> z > Digits(s)
      [] Lead(s) = "-" -> z < Digits(s)
      [] OTHER         -> z = Digits(s)

RefMatch(path, ip) ==
    /\ \A i \in Given("-name") : Basename(path) = argv[i + 1]
    /\ \A i \in Given("-type") : TypeArg[argv[i + 1]] = FT(ip)
    /\ \A i \in Given("-size") : SizeHolds(argv[i + 1], Size[ip])

RefFollow == \E i \in 2..Len(argv) : argv[i] = "-follow"

-----------------------------------------------------------------------------
(* Properties *)

(***************************************************************************)
(* For every argument vector main accepts, find prints exactly the paths   *)
(* under the start path whose object satisfies every predicate, each once *)
(* and never before a directory it lies under (search prints a directory  *)
(* before its for(;;) loop re-reads it entry by entry, reopening it with   *)
(* or without O_IGNLINK as it was first opened); it fails ("exit") exactly *)
(* when the start path does not open.                                      *)
(***************************************************************************)
FindAgreesWithReference ==
    LET r == Find
        ref == {e[1] : e \in {x \in Under(argv[1], RefFollow) : RefMatch(x[1], x[2])}}
    IN
    main_parse.ok =>
        /\ r.status = (IF Resolve(argv[1], FALSE) = 0 THEN "exit" ELSE "ok")
        /\ ToSet(r.out) = ref
        /\ Len(r.out) = Cardinality(ToSet(r.out))
        /\ \A i, j \in DOMAIN r.out : i < j => ~IsPrefix(r.out[j], r.out[i])

=============================================================================
