----------------------------- MODULE MCPathLock -----------------------------
(* Small instances of PathLock: a directory "p" with one child "q".         *)
EXTENDS PathLock

MCAnc == [x \in {"p", "q"} |-> IF x = "q" THEN {"p"} ELSE {}]

KindOf(p, q) == [x \in {"p", "q"} |-> IF x = "p" THEN p ELSE q]
(* A child that is missing may become a file or a directory.                *)
ChildOrNot == {KindOf("dir", k) : k \in {"dir", "missing"}}
ChildDir == {KindOf("dir", "dir")}

(* Owner 1 locks the tree, owner 2 the child, exactly or as a tree.          *)
AskTreeAndChild ==
  [o \in 1 .. 2 |-> IF o = 1 THEN {<<"T", "p">>} ELSE {<<"E", "q">>, <<"T", "q">>}]
AskExactP == [o \in Owners |-> {<<"E", "p">>}]
=============================================================================
