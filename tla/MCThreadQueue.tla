--------------------------- MODULE MCThreadQueue ---------------------------
(* Instances of ThreadQueue for TLC: what the masters call.                *)
EXTENDS ThreadQueue, TLC

CONSTANTS m1

\* results of the client's functions
MayFail     == {0, -1}
PoolResult  == {-1, 0, 1}
WriteResult == {-1, 0}          \* write_consume()

\* every function that looks at the ring or at the life of the threads
CoreOps == [m \in {m1} |-> OpNames \ {"tq_check_init", "tq_wait_for_flags"}]

\* the resource manager: check the queue, let the pools work, stop them
PoolOps ==
  [m \in {m1} |-> {"tq_check_init", "tq_enqueue", "tq_set_flags", "tq_wait_for_flags",
                   "tq_wait_for_completion"}]

=============================================================================
