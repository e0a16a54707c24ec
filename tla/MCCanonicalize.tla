--------------------------- MODULE MCCanonicalize ---------------------------
(***************************************************************************)
(* A small tree with every kind of step filereadlink meets:               *)
(*   /           dir 1: a -> 2, f -> 3, s -> 4, r -> 5, c -> 6, .. -> 1    *)
(*   /a          dir 2: g -> 7, u -> 8, .. -> 1                            *)
(*   /f, /a/g    files 3 and 7                                             *)
(*   /s -> "/a"      absolute symlink to a directory                       *)
(*   /r -> "a/g"     relative symlink through a directory                  *)
(*   /c -> "c"       a symlink cycle                                       *)
(*   /a/u -> "../f"  relative symlink climbing out of its directory        *)
(* and every path of one to three names, absolute or relative, separated  *)
(* by one or two slashes, with or without a trailing slash, from the root  *)
(* or from /a.  ChainTree is a chain /s1 -> /s2 -> ... -> /s16 -> /f of   *)
(* exactly 16 symlinks without repeats.                                    *)
(***************************************************************************)
EXTENDS Canonicalize, TLC

TreeNames == {"a", "f", "s", "r", "c", "g", "u", ".."}
TreeInodes == 1..8

NoEntries == [n \in TreeNames |-> 0]

TreeType ==
    [i \in TreeInodes |->
        CASE i \in {1, 2} -> "dir"
          [] i \in {3, 7} -> "file"
          [] OTHER -> "symlink"]

TreeEntries ==
    [i \in TreeInodes |->
        CASE i = 1 -> [NoEntries EXCEPT !["a"] = 2, !["f"] = 3, !["s"] = 4,
                                        !["r"] = 5, !["c"] = 6, ![".."] = 1]
          [] i = 2 -> [NoEntries EXCEPT !["g"] = 7, !["u"] = 8, ![".."] = 1]
          [] OTHER -> NoEntries]

TreeLink ==
    [i \in TreeInodes |->
        CASE i = 4 -> <<"/", "a">>
          [] i = 5 -> <<"a", "/", "g">>
          [] i = 6 -> <<"c">>
          [] i = 8 -> <<"..", "/", "f">>
          [] OTHER -> <<>>]

\* The names joined by the separator.
Joined(cs, sep) ==
    FoldLeft(LAMBDA acc, n : IF acc = <<>> THEN <<n>> ELSE acc \o sep \o <<n>>, <<>>, cs)

TreeInputs ==
    {<<>>, <<"/">>, <<"/", "/">>}
    \cup {lead \o Joined(cs, sep) \o trail :
            lead \in {<<>>, <<"/">>}, cs \in SeqOf(TreeNames, 3) \ {<<>>},
            sep \in {<<"/">>, <<"/", "/">>}, trail \in {<<>>, <<"/">>}}

TreeCwds == {1, 2}

\* The chain: inode 1 the root, 2 the file f, 2 + k the symlink sk.
ChainLen == 16
ChainName(k) == IF k = 0 THEN "f" ELSE "s" \o ToString(k)
ChainNames == {ChainName(k) : k \in 0..ChainLen}
ChainInodes == 1..(ChainLen + 2)
ChainType ==
    [i \in ChainInodes |-> IF i = 1 THEN "dir" ELSE IF i = 2 THEN "file" ELSE "symlink"]
ChainEntries ==
    [i \in ChainInodes |->
        [n \in ChainNames |-> IF i = 1 THEN CHOOSE j \in 2..(ChainLen + 2) :
                                                ChainName(j - 2) = n
                              ELSE 0]]
\* sk -> "/s(k+1)", and s16 -> "/f".
ChainLink ==
    [i \in ChainInodes |->
        IF i <= 2 THEN <<>>
        ELSE <<"/", ChainName((i - 1) % (ChainLen + 1))>>]
ChainInputs == {<<"/", "s1">>}
ChainCwds == {1}
=============================================================================
