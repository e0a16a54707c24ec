--------------------------- MODULE MCPasswordLock ---------------------------
(* One regular file and one directory, two passwords, three process slots *)
(* and four pids: enough for a parent, a child and a grandchild to hold    *)
(* exemptions in one row, and for a pid to exit and a new one to take its  *)
(* slot.                                                                   *)
EXTENDS PasswordLock

MCInums == {1, 2}
MCFileInums == {1}
MCPasswords == {"a", "b"}
=============================================================================
