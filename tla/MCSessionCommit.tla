-------------------------- MODULE MCSessionCommit --------------------------
(* Small instances of SessionCommit.                                        *)
EXTENDS SessionCommit

AllFaults == {"phase1", "marker", "meta", "lock", "overview", "step", "task", "raise",
              "root", "list", "scan", "progress", "merge"}
=============================================================================
