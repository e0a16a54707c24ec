---------------------------- MODULE MCDirectory ----------------------------
EXTENDS Directory

\* Two one-letter names, and two three-letter names that agree in their first
\* DIRSIZ = 2 characters and so name one dirent.
MCNames == {<<"a">>, <<"b">>, <<"a", "b", "c">>, <<"a", "b", "d">>}

=============================================================================
