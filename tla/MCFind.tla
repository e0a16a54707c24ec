------------------------------- MODULE MCFind -------------------------------
(* A tree with every kind of inode: a directory under the root, a file,    *)
(* a device, a symlink to the directory (so -follow descends through it),  *)
(* a relative symlink to a file inside it, a broken symlink, and a free    *)
(* directory slot.  Every start path and every argument vector of up to    *)
(* three option groups of different kinds is tried.                        *)
EXTENDS Find, TLC

MCNames == {".", "..", "a", "f", "l", "b", "d", "x", "g", "r", "q"}
MCInodes == 1..8
DE(i, n) == [inum |-> i, name |-> n]
MCType == (1 :> "dir") @@ (2 :> "dir") @@ (3 :> "file") @@ (4 :> "symlink")
          @@ (5 :> "symlink") @@ (6 :> "dev") @@ (7 :> "file") @@ (8 :> "symlink")
MCSize == (1 :> 3) @@ (2 :> 2) @@ (3 :> 1) @@ (4 :> 2) @@ (5 :> 2) @@ (6 :> 0)
          @@ (7 :> 2) @@ (8 :> 1)
MCDirents == [i \in MCInodes |->
    CASE i = 1 -> <<DE(1, "."), DE(1, ".."), DE(2, "a"), DE(3, "f"), DE(4, "l"),
                    DE(0, "x"), DE(5, "b"), DE(6, "d")>>
      [] i = 2 -> <<DE(2, "."), DE(1, ".."), DE(7, "g"), DE(8, "r")>>
      [] OTHER -> <<>>]
MCLink == [i \in MCInodes |->
    CASE i = 4 -> <<"/", "a">> [] i = 5 -> <<"/", "q">> [] i = 8 -> <<"g">>
      [] OTHER -> <<>>]

\* -size arguments: sign and the number atoi reads.
SizeTab == ("1" :> <<"", 1>>) @@ ("2" :> <<"", 2>>) @@ ("+1" :> <<"+", 1>>)
           @@ ("-2" :> <<"-", 2>>) @@ ("-0" :> <<"-", 0>>)
MCLead(s) == IF s \in DOMAIN SizeTab THEN SizeTab[s][1] ELSE ""
MCDigits(s) == IF s \in DOMAIN SizeTab THEN SizeTab[s][2] ELSE 0

Starts == {<<"/">>, <<"/", "a">>, <<"a", "/">>, <<"/", "l">>, <<"l">>,
           <<"/", "q">>, <<"/", "b">>, <<"-help">>}
Groups(sizes) ==
    {<<"-follow">>, <<"-help">>, <<"-bad">>, <<"-name", "">>, <<"-size", "">>}
    \cup {<<"-name", n>> : n \in {"g", "a", "l"}}
    \cup {<<"-size", s>> : s \in sizes}
    \cup {<<"-type", t>> : t \in {"d", "f", "s", "z"}}
Kind(g) == g[1]
\* Up to three groups of different kinds, optionally ended by a word
\* whose parameter is missing.
OptionSeqs(sizes) ==
    LET gs == Groups(sizes)
        seqs == {<<>>} \cup {<<g>> : g \in gs}
                \cup {<<g, h>> : g, h \in gs}
                \cup {<<g, h, k>> : g, h, k \in gs}
        distinct == {s \in seqs : \A i, j \in DOMAIN s : i # j => Kind(s[i]) # Kind(s[j])}
    IN {FlattenSeq(s) : s \in distinct} \cup {FlattenSeq(s) \o <<"-type">> : s \in distinct}
ArgvsWith(sizes) == {<<p>> \o w : p \in Starts, w \in OptionSeqs(sizes)}
MCArgvs == ArgvsWith({"1", "+1", "-2"})
MCArgvsSizeEdge == ArgvsWith({"-0"})
=============================================================================
