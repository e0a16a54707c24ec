---------------------------- MODULE DirectoryMap ----------------------------
(***************************************************************************)
(* What a directory promises (spec.md 4.4): a finite map from names to     *)
(* inode numbers.  Names are compared only up to the maximum name length, *)
(* so the map is keyed by the truncated name.  lookup answers the map;     *)
(* link fails when the name is present and otherwise adds it; unlink       *)
(* removes a present name.  ret is the answer of the last operation.       *)
(***************************************************************************)
EXTENDS Integers

CONSTANTS Keys, Inums

VARIABLES dir, ret

Absent == 0

Init == dir = [k \in Keys |-> Absent] /\ ret = [op |-> "none"]

Lookup(k) == ret' = [op |-> "lookup", val |-> dir[k]] /\ UNCHANGED dir

Link(k, i) ==
    IF dir[k] # Absent
    THEN ret' = [op |-> "link", val |-> -1] /\ UNCHANGED dir
    ELSE dir' = [dir EXCEPT ![k] = i] /\ ret' = [op |-> "link", val |-> 0]

Unlink(k) ==
    IF dir[k] = Absent
    THEN ret' = [op |-> "unlink", val |-> -1] /\ UNCHANGED dir
    ELSE dir' = [dir EXCEPT ![k] = Absent] /\ ret' = [op |-> "unlink", val |-> 0]

Next == \E k \in Keys : Lookup(k) \/ Unlink(k) \/ \E i \in Inums : Link(k, i)

Spec == Init /\ [][Next]_<<dir, ret>>

=============================================================================
