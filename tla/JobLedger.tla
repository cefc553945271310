----------------------------- MODULE JobLedger -----------------------------
(***************************************************************************)
(* What the work queues promise their producers: a job that was accepted   *)
(* is owed until it is settled.  It leaves the ledger only after its       *)
(* handler has reported a result for it, or because someone cleared the    *)
(* queue; neither a crash nor a shutdown strikes it out.                   *)
(***************************************************************************)
CONSTANT Jobs

VARIABLES
  owed,     \* the jobs on the ledger
  settled,  \* the jobs a handler has reported success or an error for
  waived    \* the jobs given up by clearing their queue

vars == <<owed, settled, waived>>

Init == owed = {} /\ settled = {} /\ waived = {}

Accept(j) == owed' = owed \cup {j} /\ UNCHANGED <<settled, waived>>

Settle(j) ==
  /\ j \in owed \cup waived
  /\ settled' = settled \cup {j}
  /\ UNCHANGED <<owed, waived>>

Strike(j) ==
  /\ j \in settled \cup waived
  /\ owed' = owed \ {j}
  /\ UNCHANGED <<settled, waived>>

Waive(S) ==
  /\ owed' = owed \ S
  /\ waived' = waived \cup S
  /\ UNCHANGED settled

Next ==
  \/ \E j \in Jobs : Accept(j) \/ Settle(j) \/ Strike(j)
  \/ \E S \in SUBSET Jobs : Waive(S)

Spec == Init /\ [][Next]_vars
=============================================================================
