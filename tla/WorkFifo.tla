------------------------------ MODULE WorkFifo ------------------------------
(***************************************************************************)
(* What a ThreadQueue promises about work packages, whatever its threads,  *)
(* flags and wake-ups do: a package is made by one process, may be put at  *)
(* the end of a queue of at most Depth packages, leaves it from the front  *)
(* into the hands of one process, and ends with the client, once.          *)
(***************************************************************************)
EXTENDS Naturals, Sequences

CONSTANTS Procs, Depth, MaxWork

VARIABLES
  q,      \* the packages enqueued, oldest first
  held,   \* the package each process holds, or 0
  made,   \* how many packages there have been: package w is the w-th
  done    \* the packages given back to the client

fifoVars == <<q, held, made, done>>

Init ==
  /\ q = <<>>
  /\ held = [p \in Procs |-> 0]
  /\ made = 0
  /\ done = {}

Make(p) ==
  /\ held[p] = 0 /\ made < MaxWork
  /\ made' = made + 1
  /\ held' = [held EXCEPT ![p] = made + 1]
  /\ UNCHANGED <<q, done>>

Put(p) ==
  /\ held[p] # 0 /\ Len(q) < Depth
  /\ q' = Append(q, held[p])
  /\ held' = [held EXCEPT ![p] = 0]
  /\ UNCHANGED <<made, done>>

Take(p) ==
  /\ held[p] = 0 /\ q # <<>>
  /\ held' = [held EXCEPT ![p] = Head(q)]
  /\ q' = Tail(q)
  /\ UNCHANGED <<made, done>>

Finish(p) ==
  /\ held[p] # 0
  /\ done' = done \cup {held[p]}
  /\ held' = [held EXCEPT ![p] = 0]
  /\ UNCHANGED <<q, made>>

\* a client's call that makes a package and enqueues it, or fails to
MakeAndPut ==
  /\ made < MaxWork /\ Len(q) < Depth
  /\ made' = made + 1
  /\ q' = Append(q, made + 1)
  /\ UNCHANGED <<held, done>>
MakeAndFinish ==
  /\ made < MaxWork
  /\ made' = made + 1
  /\ done' = done \cup {made + 1}
  /\ UNCHANGED <<q, held>>

\* a client's call that dequeues a package
TakeAndFinish ==
  /\ q # <<>>
  /\ done' = done \cup {Head(q)}
  /\ q' = Tail(q)
  /\ UNCHANGED <<held, made>>

Next ==
  \/ \E p \in Procs : Make(p) \/ Put(p) \/ Take(p) \/ Finish(p)
  \/ MakeAndPut \/ MakeAndFinish \/ TakeAndFinish

Spec == Init /\ [][Next]_fifoVars
=============================================================================
