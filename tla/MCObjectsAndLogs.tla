-------------------------- MODULE MCObjectsAndLogs --------------------------
(* What has to outlive a crash: an object, and, by itself, the logs of two
   runs of two ranks. *)
EXTENDS ObjectStore, ResourceLog
CONSTANTS r1, r2
MCOps == [gc |-> <<[type |-> "obj", cnt |-> 2], [type |-> "ref", cnt |-> 1]>>,
          zero |-> <<[type |-> "obj", cnt |-> 1], [type |-> "ref", cnt |-> 0]>>,
          rb |-> <<[type |-> "rbd", cnt |-> 1], [type |-> "rbd", cnt |-> 1]>>,
          one |-> <<[type |-> "rpk", cnt |-> 1]>>,
          more |-> <<[type |-> "rbd", cnt |-> 1]>>]
MCOwner == [gc |-> r1, zero |-> r2, rb |-> r2, one |-> r2, more |-> r2]
MCMixes == {{"gc", "one"}, {"rb"}, {"zero"}, {"one", "more"}}
SceneInit == Init /\ (InitLog \/ NoRuns)
SceneNext ==
  \/ run = "off" /\ Next /\ UNCHANGED lvars
  \/ run # "off" /\ LogNext /\ UNCHANGED vars
SceneSpec == SceneInit /\ [][SceneNext]_<<vars, lvars>>
=============================================================================
