----------------------------- MODULE MCCachedFS -----------------------------
(* A small tree: a mount "d" with a directory "m", a file "f" in it and a    *)
(* place "e" beside it to move things to.  The policy keeps the file, or the *)
(* listing of the mount, which changes with what is further down.            *)
EXTENDS CachedFS

Tree == {"d", "m", "f", "e"}
TreeScopes == [n \in Tree |-> IF n = "f" THEN {"d", "m", "f"} ELSE {"d", n}]
TreeParent == [n \in Tree |-> IF n = "f" THEN "m" ELSE "d"]
FileOrListing == {{<<"file", "f">>}, {<<"dir", "d">>}}
=============================================================================
