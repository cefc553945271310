--------------------------- MODULE MCSemanticDag ---------------------------
(* A small tree: the root "r" with a file "f" and a directory "s", which    *)
(* holds a file "g" and a path "x" that was deleted.                        *)
EXTENDS SemanticDag

TreeDirs == {"r", "s"}
TreeFiles == {"f", "g"}
TreeGone == {"x"}
TreeParent == [p \in {"s", "f", "g", "x"} |-> IF p \in {"s", "f"} THEN "r" ELSE "s"]
TreeAncestors ==
  [p \in {"r", "s", "f", "g", "x"} |->
     CASE p = "r" -> {} [] p \in {"s", "f"} -> {"r"} [] OTHER -> {"r", "s"}]

Conf(r, i, c, s) == [recursive |-> r, incremental |-> i, changed |-> c, skip |-> s]

(* A full execution, incremental ones without vectors (a sync that found no *)
(* change, a changed file, a deleted path), the refresh of a parent.        *)
TreeConfs ==
  {Conf(TRUE, FALSE, {}, FALSE), Conf(TRUE, TRUE, {}, TRUE), Conf(TRUE, TRUE, {"f"}, TRUE),
   Conf(TRUE, TRUE, {"x"}, TRUE), Conf(FALSE, TRUE, {"s"}, FALSE)}
=============================================================================
