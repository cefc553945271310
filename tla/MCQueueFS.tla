----------------------------- MODULE MCQueueFS -----------------------------
(* Small instances of QueueFS: semantic jobs "s" and "m", of which "s" has  *)
(* one embedding job "e" as its output.                                     *)
EXTENDS QueueFS

MCQueueOf == [j \in Jobs |-> IF j = "e" THEN "Embedding" ELSE "Semantic"]
MCOutputs == [j \in Jobs |-> IF j = "s" THEN {"e"} ELSE {}]

(* setup_standard_queues creates the embedding queue first.                 *)
MCOrder == <<"Embedding", "Semantic">>

TwoAtOnce == [q \in Queues |-> 2]
SequentialEmbedding == [q \in Queues |-> IF q = "Embedding" THEN 1 ELSE 2]
OneByOne == [q \in Queues |-> 1]
=============================================================================
