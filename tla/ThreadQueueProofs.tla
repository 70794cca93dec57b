------------------------- MODULE ThreadQueueProofs --------------------------
(***************************************************************************)
(* Proofs about ThreadQueue, for any number of threads and masters, any    *)
(* queue depth, and every result the client's functions may return.  The   *)
(* second half shows that ThreadQueue implements WorkFifo: each step of a  *)
(* thread or a master is one operation on the abstract queue or none.      *)
(***************************************************************************)
EXTENDS ThreadQueue, Sequences, FiniteSetTheorems, TLAPS

USE DEF NULL

-----------------------------------------------------------------------------
(* Facts about the helpers.                                                *)

SleepMaps == [Threads \cup Masters -> CondVars \cup {"none"}]

\* Waking sleepers leaves a map from processes to condition variables.
LEMMA BroadcastType ==
  ASSUME NEW sl \in SleepMaps, NEW C
  PROVE  Broadcast(sl, C) \in SleepMaps
BY DEF SleepMaps, Broadcast

LEMMA SignalType ==
  ASSUME NEW sl \in SleepMaps, NEW c, NEW s2 \in Signal(sl, c)
  PROVE  s2 \in SleepMaps
BY DEF SleepMaps, Signal

LEMMA WakeType ==
  ASSUME NEW sl \in SleepMaps, NEW d
  PROVE  /\ WakeConsumer(sl, d) \subseteq SleepMaps
         /\ WakeProducer(sl, d) \subseteq SleepMaps
         /\ WakeMaster(sl) \subseteq SleepMaps
BY SignalType DEF WakeConsumer, WakeProducer, WakeMaster

\* Ring indices stay in the ring.
LEMMA NextPosType ==
  ASSUME NEW i \in 0 .. (MaxQDepth - 1)
  PROVE  /\ NextPos(i) \in 0 .. (MaxQDepth - 1)
         /\ NextPos(i) = IF i + 1 = MaxQDepth THEN 0 ELSE i + 1
<1>1. MaxQDepth \in Nat \ {0}
  BY SizeAssumption
<1>2. CASE i + 1 = MaxQDepth
  <2>1. (i + 1) % MaxQDepth = 0
    BY <1>1, <1>2
  <2> QED BY <1>1, <1>2, <2>1 DEF NextPos
<1>3. CASE i + 1 # MaxQDepth
  <2>1. (i + 1) % MaxQDepth = i + 1
    BY <1>1, <1>3
  <2> QED BY <1>1, <1>3, <2>1 DEF NextPos
<1> QED BY <1>2, <1>3

LEMMA CountType ==
  ASSUME NEW f \in [Pools -> 0 .. (UintMod - 1)], NEW r
  PROVE  /\ [f EXCEPT ![r] = Inc(@)] \in [Pools -> 0 .. (UintMod - 1)]
         /\ [f EXCEPT ![r] = Dec(@)] \in [Pools -> 0 .. (UintMod - 1)]
<1>1. \A n \in 0 .. (UintMod - 1) :
        Inc(n) \in 0 .. (UintMod - 1) /\ Dec(n) \in 0 .. (UintMod - 1)
  BY SizeAssumption DEF Inc, Dec
<1> QED BY <1>1

-----------------------------------------------------------------------------
(* Type correctness.  uncoll_thrds stays in range only because a master    *)
(* inside tq_next_thread_status() is the only one who decrements it, and   *)
(* because tq_init() counts threads one by one.                            *)

CollectInv ==
  /\ life = "creating" => uncoll_thrds = newtID
  /\ \A m \in Masters : mpc[m] \in {"tq_next_thread_status", "pthread_join"} =>
       /\ uncoll_thrds > 0
       /\ life # "creating"
       /\ "tq_next_thread_status" \in Ops[m]

TInv == TypeOK /\ CollectInv

LEMMA TypeInit == Init => TInv
<1> SUFFICES ASSUME Init PROVE TInv
  OBVIOUS
<1> USE SizeAssumption, ClientAssumption, ProcessAssumption DEF Init
<1>1. 0 \in Threads
  BY DEF Threads, NumThreads
<1>2. act_thrds \in [Pools -> 0 .. (UintMod - 1)]
  BY DEF NumThrds, Pools
<1>3. /\ workpkg \in [0 .. (MaxQDepth - 1) -> Work \cup {NULL}]
      /\ head \in 0 .. (MaxQDepth - 1) /\ tail \in 0 .. (MaxQDepth - 1)
      /\ qdepth \in 0 .. MaxQDepth
      /\ uncoll_thrds \in 0 .. NumThreads /\ newtID \in 0 .. NumThreads
      /\ made \in 0 .. MaxWork
  BY DEF NumThreads
<1>4. /\ createfail \in BOOLEAN /\ checked \in BOOLEAN
      /\ con_flags \in SUBSET Flags
      /\ done \in SUBSET Work
  OBVIOUS
<1>5. /\ state_flags \in [Threads -> SUBSET StateFlags]
      /\ sleeping \in [Threads \cup Masters -> CondVars \cup {"none"}]
      /\ cur_work \in [Threads \cup Masters -> Work \cup {NULL}]
      /\ role \in [Threads -> Pools \cup {"none"}]
      /\ pc \in [Threads -> ThreadPCs]
  BY DEF ThreadPCs
<1>6. /\ mpc \in [Masters -> OpNames \cup {"idle", "pthread_join"}]
      /\ midx \in [Masters -> Threads]
      /\ mign \in [Masters -> SUBSET Flags]
      /\ ret \in [Masters -> Int]
  BY <1>1
<1>7. TypeOK
  BY <1>2, <1>3, <1>4, <1>5, <1>6 DEF TypeOK
<1>8. CollectInv
  BY DEF CollectInv
<1> QED BY <1>7, <1>8 DEF TInv

LEMMA TypeCreate == TInv /\ CreateNext => TInv'
<1> SUFFICES ASSUME TInv, CreateNext PROVE TInv'
  OBVIOUS
<1> USE SizeAssumption, ClientAssumption, ProcessAssumption
    DEF TInv, CollectInv, lockVars, flagVars, ringVars, lifeVars, threadVars, masterVars, workVars
<1>1. CASE CreateThread
  BY <1>1 DEF CreateThread, TypeOK, Threads, NumThreads, Pools, ThreadPCs
<1>2. CASE CreateProducerFails
  BY <1>2 DEF CreateProducerFails, TypeOK
<1>3. CASE CreateConsumerFails
  <2>1. sleeping' \in SleepMaps
    BY <1>3, BroadcastType DEF CreateConsumerFails, TypeOK, SleepMaps
  <2> QED BY <1>3, <2>1 DEF CreateConsumerFails, TypeOK, SleepMaps, Flags
<1>4. CASE InitReturns
  BY <1>4 DEF InitReturns, TypeOK
<1>5. CASE InitAborts
  BY <1>5 DEF InitAborts, TypeOK
<1> QED BY <1>1, <1>2, <1>3, <1>4, <1>5 DEF CreateNext

\* The helpers of producers and consumers.
LEMMA TypePause ==
  ASSUME TInv, NEW t \in Threads, NEW from, NEW to \in ThreadPCs, NEW Nudge,
         ThreadPause(t, from, to, Nudge)
  PROVE  TInv'
<1>0. TypeOK
  BY DEF TInv
<1>1. sleeping' \in SleepMaps
  <2>1. sleeping \in SleepMaps
    BY <1>0 DEF SleepMaps, TypeOK
  <2>2. Broadcast(sleeping, CondVars) \in SleepMaps
    BY <2>1, BroadcastType
  <2>3. Broadcast(sleeping, Nudge \cup HaltWakes) \in SleepMaps
    BY <2>1, BroadcastType
  <2>4. CondVar(t) \in CondVars
    BY DEF CondVar, CondVars
  <2> QED BY <2>2, <2>3, <2>4 DEF ThreadPause, CallbackAborts, SleepMaps
<1>2. act_thrds' \in [Pools -> 0 .. (UintMod - 1)]
  <2>1. act_thrds \in [Pools -> 0 .. (UintMod - 1)]
    BY <1>0 DEF TypeOK
  <2>2. act_thrds' = act_thrds \/ act_thrds' = [act_thrds EXCEPT ![role[t]] = Dec(@)]
    BY DEF ThreadPause
  <2> QED BY <2>1, <2>2, CountType
<1>3. con_flags' \in SUBSET Flags /\ state_flags' \in [Threads -> SUBSET StateFlags]
  <2>1. con_flags \in SUBSET Flags /\ state_flags \in [Threads -> SUBSET StateFlags]
    BY <1>0 DEF TypeOK
  <2>2. con_flags' = con_flags \/ con_flags' = con_flags \cup {"ABORT"}
    BY DEF ThreadPause, CallbackAborts
  <2>3. \E S \in SUBSET StateFlags : state_flags' = [state_flags EXCEPT ![t] = S]
    BY <2>1 DEF ThreadPause, StateFlags
  <2> QED BY <2>1, <2>2, <2>3 DEF Flags
<1>4. pc' \in [Threads -> ThreadPCs] /\ qlock' \in Threads \cup Masters \cup {NoOne}
  <2>1. pc \in [Threads -> ThreadPCs] /\ qlock \in Threads \cup Masters \cup {NoOne}
    BY <1>0 DEF TypeOK
  <2> QED BY <2>1 DEF ThreadPause
<1>5. UNCHANGED <<ringVars, lifeVars, cur_work, masterVars, workVars>>
  BY DEF ThreadPause
<1> QED
  BY <1>0, <1>1, <1>2, <1>3, <1>4, <1>5
     DEF TInv, TypeOK, SleepMaps, CollectInv, ringVars, lifeVars, masterVars, workVars

LEMMA TypeResume ==
  ASSUME TInv, NEW t \in Threads, NEW from, NEW to \in ThreadPCs,
         ThreadResume(t, from, to)
  PROVE  TInv'
<1>0. TypeOK
  BY DEF TInv
<1>1. sleeping' \in SleepMaps
  <2>1. sleeping \in SleepMaps
    BY <1>0 DEF SleepMaps, TypeOK
  <2> QED BY <2>1, BroadcastType DEF ThreadResume, CallbackAborts
<1>2. act_thrds' \in [Pools -> 0 .. (UintMod - 1)]
  <2>1. act_thrds \in [Pools -> 0 .. (UintMod - 1)]
    BY <1>0 DEF TypeOK
  <2>2. act_thrds' = [act_thrds EXCEPT ![role[t]] = Inc(@)]
    BY DEF ThreadResume
  <2> QED BY <2>1, <2>2, CountType
<1>3. con_flags' \in SUBSET Flags /\ state_flags' \in [Threads -> SUBSET StateFlags]
  <2>1. con_flags \in SUBSET Flags /\ state_flags \in [Threads -> SUBSET StateFlags]
    BY <1>0 DEF TypeOK
  <2>2. con_flags' = con_flags \/ con_flags' = con_flags \cup {"ABORT"}
    BY DEF ThreadResume, CallbackAborts, flagVars
  <2>3. \/ state_flags' = state_flags
        \/ \E S \in SUBSET StateFlags : state_flags' = [state_flags EXCEPT ![t] = S]
    BY <2>1 DEF ThreadResume, StateFlags, flagVars
  <2> QED BY <2>1, <2>2, <2>3 DEF Flags
<1>4. pc' \in [Threads -> ThreadPCs] /\ qlock' = t
  BY <1>0 DEF ThreadResume, TypeOK
<1>5. cur_work' \in [Threads \cup Masters -> Work \cup {NULL}] /\ done' \in SUBSET Work
  <2>1. cur_work \in [Threads \cup Masters -> Work \cup {NULL}] /\ done \in SUBSET Work
    BY <1>0 DEF TypeOK
  <2> QED BY <2>1 DEF ThreadResume
<1>6. UNCHANGED <<ringVars, lifeVars, masterVars, made>>
  BY DEF ThreadResume
<1> QED
  BY <1>0, <1>1, <1>2, <1>3, <1>4, <1>5, <1>6
     DEF TInv, TypeOK, SleepMaps, CollectInv, ringVars, lifeVars, masterVars

LEMMA TypeTerm ==
  ASSUME TInv, NEW t \in Threads, NEW SL, SL \subseteq SleepMaps, ThreadTerm(t, SL)
  PROVE  /\ sleeping' \in SleepMaps
         /\ act_thrds' \in [Pools -> 0 .. (UintMod - 1)]
         /\ state_flags' \in [Threads -> SUBSET StateFlags]
         /\ pc' \in [Threads -> ThreadPCs]
         /\ qlock' = NoOne
<1>0. /\ act_thrds \in [Pools -> 0 .. (UintMod - 1)]
      /\ state_flags \in [Threads -> SUBSET StateFlags]
      /\ pc \in [Threads -> ThreadPCs]
  BY DEF TInv, TypeOK
<1>1. sleeping' \in SleepMaps
  BY BroadcastType DEF ThreadTerm
<1>2. act_thrds' \in [Pools -> 0 .. (UintMod - 1)]
  BY <1>0, CountType DEF ThreadTerm
<1> QED BY <1>0, <1>1, <1>2 DEF ThreadTerm, ThreadPCs

LEMMA TypePostWork ==
  ASSUME TInv, NEW t \in Threads, NEW res, PostWork(t, res)
  PROVE  /\ sleeping' \in SleepMaps
         /\ con_flags' \in SUBSET Flags
         /\ state_flags' \in [Threads -> SUBSET StateFlags]
         /\ pc' \in [Threads -> ThreadPCs]
         /\ qlock' = t
<1>0. /\ con_flags \in SUBSET Flags
      /\ state_flags \in [Threads -> SUBSET StateFlags]
      /\ pc \in [Threads -> ThreadPCs]
      /\ sleeping \in SleepMaps
  BY DEF TInv, TypeOK, SleepMaps
<1>1. sleeping' \in SleepMaps
  BY <1>0, BroadcastType DEF PostWork
<1>2. con_flags' \in SUBSET Flags
  BY <1>0 DEF PostWork, ResultFlag, Flags
<1> QED BY <1>0, <1>1, <1>2 DEF PostWork, ThreadPCs, StateFlags

\* What an enqueue and a dequeue leave in the ring.
LEMMA TypePut ==
  ASSUME TInv, NEW w \in Work, qdepth < MaxQDepth, PutTail(w)
  PROVE  /\ workpkg' \in [0 .. (MaxQDepth - 1) -> Work \cup {NULL}]
         /\ tail' \in 0 .. (MaxQDepth - 1)
         /\ head' = head
         /\ qdepth' \in 0 .. MaxQDepth
<1>1. /\ workpkg \in [0 .. (MaxQDepth - 1) -> Work \cup {NULL}]
      /\ tail \in 0 .. (MaxQDepth - 1) /\ qdepth \in 0 .. MaxQDepth
  BY DEF TInv, TypeOK
<1>2. NextPos(tail) \in 0 .. (MaxQDepth - 1)
  BY <1>1, NextPosType
<1> QED BY <1>1, <1>2, SizeAssumption DEF PutTail

LEMMA TypeTake ==
  ASSUME TInv, qdepth > 0, TakeHead
  PROVE  /\ head' \in 0 .. (MaxQDepth - 1)
         /\ tail' = tail
         /\ qdepth' \in 0 .. MaxQDepth
<1>1. head \in 0 .. (MaxQDepth - 1) /\ qdepth \in 0 .. MaxQDepth
  BY DEF TInv, TypeOK
<1>2. NextPos(head) \in 0 .. (MaxQDepth - 1)
  BY <1>1, NextPosType
<1> QED BY <1>1, <1>2, SizeAssumption DEF TakeHead

\* Every step of a thread.
LEMMA TypeThread ==
  ASSUME TInv, NEW t \in Threads, ThreadNext(t)
  PROVE  TInv'
<1>0. TypeOK
  BY DEF TInv
<1>a. /\ sleeping \in SleepMaps
      /\ con_flags \in SUBSET Flags
      /\ state_flags \in [Threads -> SUBSET StateFlags]
      /\ pc \in [Threads -> ThreadPCs]
      /\ cur_work \in [Threads \cup Masters -> Work \cup {NULL}]
      /\ done \in SUBSET Work
      /\ workpkg \in [0 .. (MaxQDepth - 1) -> Work \cup {NULL}]
      /\ head \in 0 .. (MaxQDepth - 1)
      /\ qdepth \in 0 .. MaxQDepth
      /\ made \in 0 .. MaxWork
  BY <1>0 DEF TypeOK, SleepMaps
<1>1. CASE ThreadInit(t)
  <2>1. sleeping' \in SleepMaps
    <3>1. Broadcast(sleeping, {"producer_resume", "consumer_resume"}) \in SleepMaps
      BY <1>a, BroadcastType
    <3> QED BY <1>1, <1>a, <3>1, WakeType DEF ThreadInit
  <2>2. con_flags' \in SUBSET Flags /\ state_flags' \in [Threads -> SUBSET StateFlags]
    <3>1. con_flags' \in SUBSET Flags
      BY <1>1, <1>a DEF ThreadInit, Flags
    <3>2. PICK x \in SUBSET StateFlags : state_flags' = [state_flags EXCEPT ![t] = @ \cup x]
      BY <1>1 DEF ThreadInit, StateFlags
    <3> QED BY <1>a, <3>1, <3>2
  <2>3. pc' \in [Threads -> ThreadPCs] /\ (qlock' = t \/ qlock' = qlock)
    BY <1>1, <1>a DEF ThreadInit, ThreadPCs
  <2>4. UNCHANGED <<ringVars, lifeVars, cur_work, act_thrds, masterVars, workVars>>
    BY <1>1 DEF ThreadInit
  <2> QED
    BY <1>0, <2>1, <2>2, <2>3, <2>4
       DEF TInv, TypeOK, SleepMaps, CollectInv, ringVars, lifeVars, masterVars, workVars
<1>2. CASE ThreadResume(t, "initwait", "initloop") \/ ThreadResume(t, "wait", "loop")
  BY <1>2, TypeResume DEF ThreadPCs
<1>3. CASE ConsumerPause(t) \/ ProducerInitPause(t) \/ ProducerPause(t)
  BY <1>3, TypePause DEF ThreadPCs, ConsumerPause, ProducerInitPause, ProducerPause
<1>4. CASE ConsumerQuit(t) \/ ProducerAbort(t)
  <2>1. ThreadTerm(t, {sleeping})
    BY <1>4 DEF ConsumerQuit, ProducerAbort
  <2>2. /\ sleeping' \in SleepMaps
        /\ act_thrds' \in [Pools -> 0 .. (UintMod - 1)]
        /\ state_flags' \in [Threads -> SUBSET StateFlags]
        /\ pc' \in [Threads -> ThreadPCs]
        /\ qlock' = NoOne
    BY <1>a, <2>1, TypeTerm
  <2>3. UNCHANGED <<con_flags, ringVars, lifeVars, cur_work, masterVars, workVars>>
    BY <1>4 DEF ConsumerQuit, ProducerAbort
  <2> QED
    BY <1>0, <2>2, <2>3
       DEF TInv, TypeOK, SleepMaps, CollectInv, ringVars, lifeVars, masterVars, workVars
<1>5. CASE ConsumerTake(t)
  <2>1. qdepth > 0
    BY <1>5, <1>a DEF ConsumerTake, ConsumerHolds, ConsumerQuits
  <2>2. head' \in 0 .. (MaxQDepth - 1) /\ tail' = tail /\ qdepth' \in 0 .. MaxQDepth
    BY <1>5, <2>1, TypeTake DEF ConsumerTake
  <2>3. /\ cur_work' \in [Threads \cup Masters -> Work \cup {NULL}]
        /\ workpkg' \in [0 .. (MaxQDepth - 1) -> Work \cup {NULL}]
        /\ pc' \in [Threads -> ThreadPCs]
        /\ qlock' = NoOne
    BY <1>5, <1>a DEF ConsumerTake, ThreadPCs
  <2>4. sleeping' \in SleepMaps
    BY <1>5, <1>a, WakeType DEF ConsumerTake
  <2>5. UNCHANGED <<flagVars, lifeVars, act_thrds, masterVars, workVars>>
    BY <1>5 DEF ConsumerTake
  <2> QED
    BY <1>0, <2>2, <2>3, <2>4, <2>5
       DEF TInv, TypeOK, SleepMaps, CollectInv, flagVars, lifeVars, masterVars, workVars
<1>6. CASE ConsumerWork(t)
  <2>1. /\ sleeping' \in SleepMaps
        /\ con_flags' \in SUBSET Flags
        /\ state_flags' \in [Threads -> SUBSET StateFlags]
        /\ pc' \in [Threads -> ThreadPCs]
        /\ qlock' = t
    BY <1>6, TypePostWork DEF ConsumerWork
  <2>2. /\ cur_work' \in [Threads \cup Masters -> Work \cup {NULL}]
        /\ done' \in SUBSET Work
    BY <1>6, <1>a DEF ConsumerWork
  <2>3. UNCHANGED <<ringVars, lifeVars, act_thrds, masterVars, made>>
    BY <1>6 DEF ConsumerWork
  <2> QED
    BY <1>0, <2>1, <2>2, <2>3
       DEF TInv, TypeOK, SleepMaps, CollectInv, ringVars, lifeVars, masterVars
<1>7. CASE ProducerStart(t)
  <2>1. pc' \in [Threads -> ThreadPCs] /\ qlock' = NoOne
    BY <1>7, <1>a DEF ProducerStart, ThreadPCs
  <2> QED
    BY <1>0, <1>7, <2>1
       DEF ProducerStart, TInv, TypeOK, CollectInv, flagVars, ringVars, lifeVars,
           masterVars, workVars
<1>8. CASE ProducerWork(t)
  <2>1. /\ sleeping' \in SleepMaps
        /\ con_flags' \in SUBSET Flags
        /\ state_flags' \in [Threads -> SUBSET StateFlags]
        /\ pc' \in [Threads -> ThreadPCs]
        /\ qlock' = t
    BY <1>8, TypePostWork DEF ProducerWork
  <2>2. /\ cur_work' \in [Threads \cup Masters -> Work \cup {NULL}]
        /\ made' \in 0 .. MaxWork
    BY <1>8, <1>a, SizeAssumption DEF ProducerWork, Work
  <2>3. UNCHANGED <<ringVars, lifeVars, act_thrds, masterVars, done>>
    BY <1>8 DEF ProducerWork
  <2> QED
    BY <1>0, <2>1, <2>2, <2>3
       DEF TInv, TypeOK, SleepMaps, CollectInv, ringVars, lifeVars, masterVars
<1>9. CASE ProducerPut(t)
  <2>1. qdepth < MaxQDepth
    BY <1>9, <1>a, SizeAssumption DEF ProducerPut, ProducerHolds
  <2>2. /\ workpkg' \in [0 .. (MaxQDepth - 1) -> Work \cup {NULL}]
        /\ tail' \in 0 .. (MaxQDepth - 1) /\ head' = head
        /\ qdepth' \in 0 .. MaxQDepth
    <3>1. CASE cur_work[t] = NULL
      BY <1>9, <1>0, <3>1 DEF ProducerPut, TypeOK, ringVars
    <3>2. CASE cur_work[t] # NULL
      <4>1. cur_work[t] \in Work /\ PutTail(cur_work[t])
        BY <1>9, <1>a, <3>2 DEF ProducerPut
      <4> QED BY <2>1, <4>1, TypePut
    <3> QED BY <3>1, <3>2
  <2>3. /\ sleeping' \in SleepMaps
        /\ act_thrds' \in [Pools -> 0 .. (UintMod - 1)]
        /\ state_flags' \in [Threads -> SUBSET StateFlags]
        /\ pc' \in [Threads -> ThreadPCs]
        /\ qlock' = NoOne
    <3> DEFINE SL == IF cur_work[t] = NULL THEN {sleeping} ELSE WakeConsumer(sleeping, qdepth)
    <3>1. SL \subseteq SleepMaps
      BY <1>a, WakeType
    <3>2. \/ ThreadTerm(t, SL)
          \/ /\ sleeping' \in SL /\ qlock' = NoOne
             /\ pc' = [pc EXCEPT ![t] = "work"]
             /\ UNCHANGED <<state_flags, act_thrds>>
      BY <1>9 DEF ProducerPut
    <3>3. act_thrds \in [Pools -> 0 .. (UintMod - 1)]
      BY <1>0 DEF TypeOK
    <3> HIDE DEF SL
    <3> QED BY <1>a, <3>1, <3>2, <3>3, TypeTerm DEF ThreadPCs
  <2>4. cur_work' \in [Threads \cup Masters -> Work \cup {NULL}]
    BY <1>9, <1>a DEF ProducerPut
  <2>5. UNCHANGED <<con_flags, lifeVars, masterVars, workVars>>
    BY <1>9 DEF ProducerPut
  <2> QED
    BY <1>0, <2>2, <2>3, <2>4, <2>5
       DEF TInv, TypeOK, SleepMaps, CollectInv, lifeVars, masterVars, workVars
<1>10. CASE ThreadExit(t)
  <2>1. /\ pc' \in [Threads -> ThreadPCs]
        /\ cur_work' \in [Threads \cup Masters -> Work \cup {NULL}]
        /\ done' \in SUBSET Work
    BY <1>10, <1>a DEF ThreadExit, ThreadPCs
  <2> QED
    BY <1>0, <1>10, <2>1
       DEF ThreadExit, TInv, TypeOK, CollectInv, lockVars, flagVars, ringVars, lifeVars, masterVars
<1> QED
  BY <1>1, <1>2, <1>3, <1>4, <1>5, <1>6, <1>7, <1>8, <1>9, <1>10 DEF ThreadNext

MasterTypes ==
  /\ mpc \in [Masters -> OpNames \cup {"idle", "pthread_join"}]
  /\ midx \in [Masters -> Threads]
  /\ mign \in [Masters -> SUBSET Flags]
  /\ ret \in [Masters -> Int]

\* A master that returns collects no more; one that goes to sleep inside
\* another function does not either.
LEMMA TypeReturn ==
  ASSUME TInv, NEW m \in Masters, NEW r \in Int, Return(m, r)
  PROVE  MasterTypes' /\ mpc' = [mpc EXCEPT ![m] = "idle"]
<1>1. MasterTypes
  BY DEF TInv, TypeOK, MasterTypes
<1>2. 0 \in Threads
  BY SizeAssumption DEF Threads, NumThreads
<1> QED BY <1>1, <1>2 DEF Return, MasterTypes

LEMMA TypeSleep ==
  ASSUME TInv, NEW m \in Masters, NEW op \in OpNames \cup {"pthread_join"},
         NEW i \in Threads, NEW ign \in SUBSET Flags, Sleep(m, op, i, ign)
  PROVE  MasterTypes' /\ mpc' = [mpc EXCEPT ![m] = op]
BY DEF TInv, TypeOK, MasterTypes, Sleep

\* CollectInv as far as the functions other than tq_next_thread_status() go.
LEMMA CollectOther ==
  ASSUME TInv, NEW m \in Masters,
         NEW op, op \notin {"tq_next_thread_status", "pthread_join"},
         mpc' = [mpc EXCEPT ![m] = op],
         UNCHANGED <<uncoll_thrds, newtID>>,
         life' \in {life, "freed"}
  PROVE  CollectInv'
BY DEF TInv, TypeOK, CollectInv

\* The functions that leave the ring and the packages alone and either sleep
\* on state_resume or return.
LEMMA TypeWaiter ==
  ASSUME TInv, NEW m \in Masters, NEW op \in OpNames \ {"tq_next_thread_status"},
         \/ \E r \in Int : Return(m, r) /\ UNCHANGED sleeping
         \/ /\ \E i \in Threads : \E ign \in SUBSET Flags : Sleep(m, op, i, ign)
            /\ sleeping' = [sleeping EXCEPT ![m] = "state_resume"],
         checked' \in BOOLEAN,
         UNCHANGED <<qlock, flagVars, ringVars, lifeVars, threadVars, workVars>>
  PROVE  TInv'
<1>1. sleeping \in SleepMaps
  BY DEF TInv, TypeOK, SleepMaps
<1>2. sleeping' \in SleepMaps
  BY <1>1 DEF SleepMaps, CondVars
<1>3. MasterTypes'
  BY TypeReturn, TypeSleep
<1>4. mpc' = [mpc EXCEPT ![m] = "idle"] \/ mpc' = [mpc EXCEPT ![m] = op]
  BY TypeReturn, TypeSleep
<1>5. UNCHANGED <<uncoll_thrds, newtID, life>>
  BY DEF lifeVars
<1>6. op \notin {"tq_next_thread_status", "pthread_join"}
  BY DEF OpNames
<1>7. CollectInv'
  BY <1>4, <1>5, <1>6, CollectOther
<1> QED
  BY <1>2, <1>3, <1>7
     DEF TInv, TypeOK, SleepMaps, MasterTypes, flagVars, ringVars, lifeVars, threadVars, workVars

\* The packages in the ring are live from head on and end at tail; a master
\* asleep in tq_enqueue(), and no other, holds a package.
RingInv ==
  /\ tail = Slot(head, qdepth)
  /\ \A i \in 0 .. (qdepth - 1) : workpkg[Slot(head, i)] # NULL
HeldInv == \A m \in Masters : mpc[m] = "tq_enqueue" <=> cur_work[m] # NULL

\* Every function of a master.
LEMMA TypeMaster ==
  ASSUME TInv, RingInv, HeldInv, NEW m \in Masters, MasterNext(m)
  PROVE  TInv'
<1>0. TypeOK
  BY DEF TInv
<1>a. /\ sleeping \in SleepMaps
      /\ con_flags \in SUBSET Flags
      /\ cur_work \in [Threads \cup Masters -> Work \cup {NULL}]
      /\ done \in SUBSET Work
      /\ workpkg \in [0 .. (MaxQDepth - 1) -> Work \cup {NULL}]
      /\ head \in 0 .. (MaxQDepth - 1)
      /\ qdepth \in 0 .. MaxQDepth
      /\ made \in 0 .. MaxWork
      /\ mign \in [Masters -> SUBSET Flags]
      /\ uncoll_thrds \in 0 .. NumThreads
      /\ checked \in BOOLEAN
  BY <1>0 DEF TypeOK, SleepMaps
<1>b. 0 \in Threads
  BY SizeAssumption DEF Threads, NumThreads
<1>1. CASE tq_check_init(m)
  <2>1. checked' \in BOOLEAN
    BY <1>1, <1>a DEF tq_check_init
  <2>2. "tq_check_init" \in OpNames \ {"tq_next_thread_status"} /\ {} \in SUBSET Flags
    BY DEF OpNames
  <2>3. \/ \E r \in Int : Return(m, r) /\ UNCHANGED sleeping
        \/ /\ \E i \in Threads : \E ign \in SUBSET Flags : Sleep(m, "tq_check_init", i, ign)
           /\ sleeping' = [sleeping EXCEPT ![m] = "state_resume"]
    <3>1. \/ Return(m, 0) /\ UNCHANGED sleeping
          \/ \E k \in Threads :
               \/ Return(m, -1) /\ UNCHANGED sleeping
               \/ /\ Sleep(m, "tq_check_init", k, {})
                  /\ sleeping' = [sleeping EXCEPT ![m] = "state_resume"]
      BY <1>1 DEF tq_check_init
    <3> QED BY <2>2, <3>1
  <2>4. UNCHANGED <<qlock, flagVars, ringVars, lifeVars, threadVars, workVars>>
    BY <1>1 DEF tq_check_init
  <2> QED BY <2>1, <2>2, <2>3, <2>4, TypeWaiter
<1>2. CASE tq_wait_for_pause(m)
  BY <1>2, <1>a, TypeWaiter DEF tq_wait_for_pause, OpNames
<1>3. CASE tq_wait_for_completion(m)
  BY <1>3, <1>a, TypeWaiter DEF tq_wait_for_completion, OpNames
<1>4. CASE tq_wait_for_flags(m)
  <2>1. PICK ign \in IF mpc[m] = "tq_wait_for_flags" THEN {mign[m]} ELSE {{}, {"HALT"}} :
          /\ IF con_flags \subseteq ign
             THEN /\ Sleep(m, "tq_wait_for_flags", 0, ign)
                  /\ sleeping' = [sleeping EXCEPT ![m] = "state_resume"]
             ELSE Return(m, 0) /\ UNCHANGED sleeping
          /\ UNCHANGED <<qlock, flagVars, ringVars, lifeVars, threadVars, checked, workVars>>
    BY <1>4 DEF tq_wait_for_flags
  <2>2. ign \in SUBSET Flags
    BY <1>a, <2>1 DEF Flags
  <2>3. "tq_wait_for_flags" \in OpNames \ {"tq_next_thread_status"}
    BY DEF OpNames
  <2> QED BY <1>a, <1>b, <2>1, <2>2, <2>3, TypeWaiter
<1>5. CASE tq_set_flags(m) \/ tq_unset_flags(m)
  <2>1. /\ Return(m, 0)
        /\ sleeping' = Broadcast(sleeping, CondVars)
        /\ UNCHANGED <<qlock, state_flags, ringVars, lifeVars, threadVars, checked, workVars>>
    BY <1>5 DEF tq_set_flags, tq_unset_flags
  <2>2. con_flags' \in SUBSET Flags
    BY <1>5, <1>a, ClientAssumption DEF tq_set_flags, tq_unset_flags
  <2>3. sleeping' \in SleepMaps
    BY <1>a, <2>1, BroadcastType
  <2>4. MasterTypes' /\ mpc' = [mpc EXCEPT ![m] = "idle"]
    BY <2>1, TypeReturn
  <2>5. CollectInv'
    BY <2>1, <2>4, CollectOther DEF lifeVars
  <2> QED
    BY <1>0, <2>1, <2>2, <2>3, <2>4, <2>5
       DEF TInv, TypeOK, SleepMaps, MasterTypes, ringVars, lifeVars, threadVars, workVars
<1>6. CASE tq_close(m)
  <2>1. /\ MasterTypes' /\ mpc' = [mpc EXCEPT ![m] = "idle"]
        /\ life' \in {life, "freed"}
        /\ UNCHANGED <<lockVars, flagVars, ringVars, uncoll_thrds, newtID, createfail,
                       role, threadVars, checked, workVars>>
    BY <1>6, <1>a, TypeReturn DEF tq_close
  <2>2. CollectInv'
    BY <2>1, CollectOther
  <2> QED
    BY <1>0, <2>1, <2>2
       DEF TInv, TypeOK, MasterTypes, lockVars, flagVars, ringVars, threadVars, workVars
<1>7. CASE tq_enqueue(m)
  <2> DEFINE op == "tq_enqueue"
             wb == IF mpc[m] = op THEN cur_work[m] ELSE made + 1
             Wait(ign) ==
               /\ qdepth = MaxQDepth /\ con_flags \subseteq ign
               /\ Sleep(m, op, 0, ign)
               /\ cur_work' = [cur_work EXCEPT ![m] = wb]
               /\ sleeping' = [Broadcast(sleeping, {"consumer_resume"})
                                 EXCEPT ![m] = "producer_resume"]
               /\ UNCHANGED <<ringVars, done>>
             Fail(ign) ==
               /\ ~(con_flags \subseteq ign)
               /\ Return(m, -1)
               /\ done' = done \cup {wb}
               /\ cur_work' = [cur_work EXCEPT ![m] = NULL]
               /\ UNCHANGED <<sleeping, ringVars>>
             Ok(ign) ==
               /\ qdepth # MaxQDepth /\ con_flags \subseteq ign
               /\ PutTail(wb)
               /\ cur_work' = [cur_work EXCEPT ![m] = NULL]
               /\ sleeping' \in WakeConsumer(sleeping, qdepth)
               /\ Return(m, 0)
               /\ UNCHANGED done
  <2>1. PICK ign \in IF mpc[m] = op THEN {mign[m]} ELSE {{}, {"HALT"}} :
          /\ (Fresh(m, op) /\ made < MaxWork) \/ Again(m, op)
          /\ made' = IF mpc[m] = op THEN made ELSE made + 1
          /\ Wait(ign) \/ Fail(ign) \/ Ok(ign)
          /\ UNCHANGED <<qlock, flagVars, lifeVars, pc, act_thrds, checked>>
    BY <1>7 DEF tq_enqueue
  <2>2. ign \in SUBSET Flags
    BY <1>a, <2>1 DEF Flags
  <2>3. made' \in 0 .. MaxWork /\ wb \in Work
    <3>1. CASE mpc[m] = op
      BY <3>1, <2>1, <1>a DEF HeldInv
    <3>2. CASE mpc[m] # op
      BY <3>2, <2>1, <1>a, SizeAssumption DEF Again, Work
    <3> QED BY <3>1, <3>2
  <2> HIDE DEF wb
  <2>4. sleeping' \in SleepMaps
    <3>1. Broadcast(sleeping, {"consumer_resume"}) \in SleepMaps
      BY <1>a, BroadcastType
    <3> QED BY <1>a, <2>1, <3>1, WakeType DEF SleepMaps, CondVars
  <2>5. cur_work' \in [Threads \cup Masters -> Work \cup {NULL}] /\ done' \in SUBSET Work
    BY <1>a, <2>1, <2>3
  <2>6. /\ MasterTypes'
        /\ mpc' = [mpc EXCEPT ![m] = "idle"] \/ mpc' = [mpc EXCEPT ![m] = op]
    <3>1. op \in OpNames \cup {"pthread_join"}
      BY DEF OpNames
    <3>2. CASE Wait(ign)
      BY <3>1, <3>2, <1>b, <2>2, TypeSleep
    <3>3. CASE Fail(ign) \/ Ok(ign)
      BY <3>3, TypeReturn
    <3> QED BY <2>1, <3>2, <3>3
  <2>7. CollectInv'
    BY <2>1, <2>6, CollectOther DEF lifeVars
  <2>8. /\ workpkg' \in [0 .. (MaxQDepth - 1) -> Work \cup {NULL}]
        /\ head' \in 0 .. (MaxQDepth - 1) /\ tail' \in 0 .. (MaxQDepth - 1)
        /\ qdepth' \in 0 .. MaxQDepth
    <3>1. CASE Wait(ign) \/ Fail(ign)
      BY <1>0, <3>1 DEF TypeOK, ringVars
    <3>2. CASE Ok(ign)
      <4>1. qdepth < MaxQDepth /\ PutTail(wb)
        BY <3>2, <1>a, SizeAssumption
      <4> QED BY <1>a, <2>3, <4>1, TypePut
    <3> QED BY <2>1, <3>1, <3>2
  <2>9. UNCHANGED <<qlock, flagVars, lifeVars, pc, act_thrds, checked>>
    BY <2>1
  <2> HIDE DEF Wait, Fail, Ok
  <2> QED
    BY <1>0, <2>3, <2>4, <2>5, <2>6, <2>7, <2>8, <2>9
       DEF TInv, TypeOK, SleepMaps, MasterTypes, flagVars, lifeVars
<1>8. CASE tq_dequeue(m)
  <2> DEFINE op == "tq_dequeue"
             Wait(ign) ==
               /\ qdepth = 0 /\ con_flags = {}
               /\ Sleep(m, op, 0, ign)
               /\ sleeping' = [Broadcast(sleeping, {"producer_resume"})
                                 EXCEPT ![m] = "consumer_resume"]
               /\ UNCHANGED <<ringVars, done>>
             Fail(ign) ==
               /\ Return(m, IF con_flags \subseteq ign \cup {"FINISHED"} THEN 0 ELSE -1)
               /\ UNCHANGED <<sleeping, ringVars, done>>
             Ok(ign) ==
               /\ qdepth > 0
               /\ done' = done \cup {workpkg[head]}
               /\ TakeHead /\ UNCHANGED workpkg
               /\ sleeping' \in IF con_flags = {} THEN WakeProducer(sleeping, qdepth)
                                                  ELSE {sleeping}
               /\ Return(m, qdepth)
  <2>1. PICK ign \in IF mpc[m] = op THEN {mign[m]}
                                    ELSE {{}, {"HALT"}, {"HALT", "ABORT"}} :
          /\ Wait(ign) \/ Fail(ign) \/ Ok(ign)
          /\ UNCHANGED <<qlock, flagVars, lifeVars, threadVars, checked, made>>
    BY <1>8 DEF tq_dequeue
  <2>2. ign \in SUBSET Flags
    BY <1>a, <2>1 DEF Flags
  <2>3. sleeping' \in SleepMaps
    <3>1. Broadcast(sleeping, {"producer_resume"}) \in SleepMaps
      BY <1>a, BroadcastType
    <3> QED BY <1>a, <2>1, <3>1, WakeType DEF SleepMaps, CondVars
  <2>4. done' \in SUBSET Work
    <3>1. CASE Wait(ign) \/ Fail(ign)
      BY <1>a, <3>1
    <3>2. CASE Ok(ign)
      <4>1. head = Slot(head, 0) /\ 0 \in 0 .. (qdepth - 1)
        BY <1>a, <3>2, SizeAssumption DEF Slot
      <4>2. workpkg[head] \in Work
        BY <1>a, <4>1 DEF RingInv
      <4> QED BY <1>a, <3>2, <4>2
    <3> QED BY <2>1, <3>1, <3>2
  <2>5. /\ MasterTypes'
        /\ mpc' = [mpc EXCEPT ![m] = "idle"] \/ mpc' = [mpc EXCEPT ![m] = op]
    <3>1. op \in OpNames \cup {"pthread_join"}
      BY DEF OpNames
    <3>2. CASE Wait(ign)
      BY <3>1, <3>2, <1>b, <2>2, TypeSleep
    <3>3. CASE Fail(ign)
      BY <3>3, TypeReturn
    <3>4. CASE Ok(ign)
      BY <3>4, <1>a, TypeReturn
    <3> QED BY <2>1, <3>2, <3>3, <3>4
  <2>6. CollectInv'
    BY <2>1, <2>5, CollectOther DEF lifeVars
  <2>7. /\ workpkg' \in [0 .. (MaxQDepth - 1) -> Work \cup {NULL}]
        /\ head' \in 0 .. (MaxQDepth - 1) /\ tail' \in 0 .. (MaxQDepth - 1)
        /\ qdepth' \in 0 .. MaxQDepth
    <3>1. CASE Wait(ign) \/ Fail(ign)
      BY <1>0, <3>1 DEF TypeOK, ringVars
    <3>2. CASE Ok(ign)
      <4>1. /\ head' \in 0 .. (MaxQDepth - 1)
            /\ tail' = tail
            /\ qdepth' \in 0 .. MaxQDepth
        BY <3>2, TypeTake
      <4> QED BY <1>0, <3>2, <4>1 DEF TypeOK
    <3> QED BY <2>1, <3>1, <3>2
  <2>8. UNCHANGED <<qlock, flagVars, lifeVars, threadVars, checked, made>>
    BY <2>1
  <2> HIDE DEF Wait, Fail, Ok
  <2> QED
    BY <1>0, <2>3, <2>4, <2>5, <2>6, <2>7, <2>8
       DEF TInv, TypeOK, SleepMaps, MasterTypes, flagVars, lifeVars, threadVars
<1>9. CASE tq_next_thread_status(m)
  <2> DEFINE op  == "tq_next_thread_status"
             tID == IF mpc[m] = op THEN midx[m] ELSE NumThreads - uncoll_thrds
  <2>1. /\ Fresh(m, op) \/ Again(m, op)
        /\ \/ /\ Return(m, IF Has("FINISHED") \/ Has("ABORT") THEN 0 ELSE -1)
              /\ UNCHANGED lockVars
           \/ /\ mpc[m] = op \/ uncoll_thrds # 0
              /\ Sleep(m, op, tID, {})
              /\ sleeping' = [sleeping EXCEPT ![m] = "state_resume"]
              /\ UNCHANGED qlock
           \/ /\ mpc[m] = op \/ uncoll_thrds # 0
              /\ Sleep(m, "pthread_join", tID, {})
              /\ qlock' = m
              /\ UNCHANGED sleeping
        /\ UNCHANGED <<flagVars, ringVars, lifeVars, threadVars, checked, workVars>>
    BY <1>9 DEF tq_next_thread_status
  <2>2. CASE Return(m, IF Has("FINISHED") \/ Has("ABORT") THEN 0 ELSE -1) /\ UNCHANGED lockVars
    <3>1. MasterTypes' /\ mpc' = [mpc EXCEPT ![m] = "idle"]
      BY <2>2, TypeReturn
    <3>2. CollectInv'
      BY <2>1, <3>1, CollectOther DEF lifeVars
    <3> HIDE DEF tID
    <3> QED
      BY <1>0, <2>1, <2>2, <3>1, <3>2
         DEF TInv, TypeOK, MasterTypes, lockVars, flagVars, ringVars, lifeVars, threadVars, workVars
  <2>3. CASE /\ mpc[m] = op \/ uncoll_thrds # 0
             /\ \E o \in {op, "pthread_join"} : Sleep(m, o, tID, {})
             /\ sleeping' \in {sleeping, [sleeping EXCEPT ![m] = "state_resume"]}
             /\ qlock' \in {qlock, m}
    <3>1. tID \in Threads
      BY <1>0, <2>3, SizeAssumption DEF TypeOK, Threads, NumThreads
    <3>2. op \in OpNames
      BY DEF OpNames
    <3>3. PICK o \in {op, "pthread_join"} : Sleep(m, o, tID, {})
      BY <2>3
    <3>4. MasterTypes' /\ mpc' = [mpc EXCEPT ![m] = o]
      <4>1. o \in OpNames \cup {"pthread_join"} /\ {} \in SUBSET Flags
        BY <3>2
      <4> HIDE DEF tID
      <4> QED BY <3>1, <3>3, <4>1, TypeSleep
    <3>5. /\ uncoll_thrds > 0 /\ life # "creating"
          /\ "tq_next_thread_status" \in Ops[m]
      <4>1. CASE mpc[m] = op
        BY <4>1 DEF TInv, CollectInv
      <4>2. CASE mpc[m] # op
        <5>1. Fresh(m, op) /\ uncoll_thrds # 0
          BY <2>1, <2>3, <4>2 DEF Again
        <5> QED BY <1>a, <5>1, SizeAssumption DEF Fresh, NumThreads
      <4> QED BY <4>1, <4>2
    <3>6. CollectInv'
      BY <2>1, <3>4, <3>5 DEF TInv, TypeOK, CollectInv, lifeVars
    <3>7. sleeping' \in SleepMaps
      BY <1>a, <2>3 DEF SleepMaps, CondVars
    <3> HIDE DEF tID
    <3> QED
      BY <1>0, <2>1, <2>3, <3>4, <3>6, <3>7
         DEF TInv, TypeOK, SleepMaps, MasterTypes, flagVars, ringVars, lifeVars, threadVars, workVars
  <2> QED BY <2>1, <2>2, <2>3
<1>10. CASE JoinThread(m)
  <2>1. /\ uncoll_thrds' = uncoll_thrds - 1
        /\ qlock' = NoOne
        /\ Return(m, uncoll_thrds)
        /\ UNCHANGED <<sleeping, flagVars, ringVars, life, newtID, createfail, role,
                       threadVars, checked, workVars>>
    BY <1>10 DEF JoinThread
  <2>2. /\ uncoll_thrds > 0 /\ life # "creating"
        /\ "tq_next_thread_status" \in Ops[m]
    BY <1>10 DEF JoinThread, TInv, CollectInv
  <2>3. uncoll_thrds' \in 0 .. NumThreads
    BY <1>a, <2>1, <2>2, SizeAssumption DEF NumThreads
  <2>4. MasterTypes' /\ mpc' = [mpc EXCEPT ![m] = "idle"]
    BY <1>a, <2>1, TypeReturn
  <2>5. \A n \in Masters : mpc'[n] \notin {"tq_next_thread_status", "pthread_join"}
    BY <1>0, <2>2, <2>4, ClientAssumption DEF TInv, TypeOK, CollectInv
  <2>6. CollectInv'
    BY <2>1, <2>2, <2>5 DEF CollectInv
  <2> QED
    BY <1>0, <2>1, <2>3, <2>4, <2>6
       DEF TInv, TypeOK, MasterTypes, flagVars, ringVars, threadVars, workVars
<1> QED
  BY <1>1, <1>2, <1>3, <1>4, <1>5, <1>6, <1>7, <1>8, <1>9, <1>10 DEF MasterNext

-----------------------------------------------------------------------------
(* The ring.  tail is always qdepth slots after head, so that an enqueue   *)
(* overwrites no live package and a dequeue shifts the live ones by one.   *)

LEMMA SlotPut ==
  ASSUME TInv, RingInv, NEW w \in Work, qdepth < MaxQDepth, PutTail(w)
  PROVE  /\ tail' = Slot(head', qdepth')
         /\ qdepth' = qdepth + 1
         /\ workpkg'[Slot(head', qdepth)] = w
         /\ \A i \in 0 .. (qdepth - 1) : Slot(head', i) = Slot(head, i) /\ workpkg'[Slot(head, i)] = workpkg[Slot(head, i)]
<1>1. /\ workpkg \in [0 .. (MaxQDepth - 1) -> Work \cup {NULL}]
      /\ head \in 0 .. (MaxQDepth - 1) /\ tail \in 0 .. (MaxQDepth - 1)
      /\ qdepth \in 0 .. MaxQDepth
  BY DEF TInv, TypeOK
<1>2. NextPos(tail) = IF tail + 1 = MaxQDepth THEN 0 ELSE tail + 1
  BY <1>1, NextPosType
<1>3. MaxQDepth \in Nat \ {0}
  BY SizeAssumption
<1>4. \A i \in 0 .. (qdepth - 1) : Slot(head, i) \in 0 .. (MaxQDepth - 1) /\ Slot(head, i) # tail
  BY <1>1, <1>3 DEF RingInv, Slot
<1>5. head' = head /\ tail' = NextPos(tail) /\ qdepth' = qdepth + 1
      /\ workpkg' = [workpkg EXCEPT ![tail] = w]
  BY DEF PutTail
<1>6. tail' = Slot(head', qdepth')
  BY <1>1, <1>2, <1>3, <1>5 DEF RingInv, Slot
<1>7. workpkg'[Slot(head', qdepth)] = w
  BY <1>1, <1>5 DEF RingInv, Slot
<1>8. \A i \in 0 .. (qdepth - 1) : Slot(head', i) = Slot(head, i) /\ workpkg'[Slot(head, i)] = workpkg[Slot(head, i)]
  <2> TAKE i \in 0 .. (qdepth - 1)
  <2>1. Slot(head', i) = Slot(head, i)
    BY <1>5 DEF Slot
  <2> QED BY <1>1, <1>4, <1>5, <2>1
<1> QED BY <1>5, <1>6, <1>7, <1>8

LEMMA SlotTake ==
  ASSUME TInv, RingInv, qdepth > 0, TakeHead,
         workpkg' \in {workpkg, [workpkg EXCEPT ![head] = NULL]}
  PROVE  /\ tail' = Slot(head', qdepth')
         /\ qdepth' = qdepth - 1
         /\ Slot(head, 0) = head
         /\ \A i \in 0 .. (qdepth - 2) :
              Slot(head', i) = Slot(head, i + 1) /\ workpkg'[Slot(head', i)] = workpkg[Slot(head, i + 1)]
<1>1. /\ workpkg \in [0 .. (MaxQDepth - 1) -> Work \cup {NULL}]
      /\ head \in 0 .. (MaxQDepth - 1) /\ tail \in 0 .. (MaxQDepth - 1)
      /\ qdepth \in 0 .. MaxQDepth
  BY DEF TInv, TypeOK
<1>2. NextPos(head) = IF head + 1 = MaxQDepth THEN 0 ELSE head + 1
  BY <1>1, NextPosType
<1>3. MaxQDepth \in Nat \ {0}
  BY SizeAssumption
<1>4. \A i \in 0 .. (qdepth - 2) : Slot(head, i + 1) \in 0 .. (MaxQDepth - 1) /\ Slot(head, i + 1) # head
  BY <1>1, <1>3 DEF Slot
<1>5. head' = NextPos(head) /\ tail' = tail /\ qdepth' = qdepth - 1
  BY DEF TakeHead
<1>6. tail' = Slot(head', qdepth')
  BY <1>1, <1>2, <1>3, <1>5 DEF RingInv, Slot
<1>7. \A i \in 0 .. (qdepth - 2) :
        Slot(head', i) = Slot(head, i + 1) /\ workpkg'[Slot(head', i)] = workpkg[Slot(head, i + 1)]
  <2> TAKE i \in 0 .. (qdepth - 2)
  <2>1. Slot(head', i) = Slot(head, i + 1)
    BY <1>1, <1>2, <1>3, <1>5 DEF Slot
  <2>2. Slot(head, i + 1) \in 0 .. (MaxQDepth - 1) /\ Slot(head, i + 1) # head
    BY <1>4
  <2>3. workpkg'[Slot(head, i + 1)] = workpkg[Slot(head, i + 1)]
    BY <1>1, <2>2
  <2> QED BY <2>1, <2>3
<1>8. Slot(head, 0) = head
  BY <1>1, <1>3 DEF Slot
<1> QED BY <1>5, <1>6, <1>7, <1>8

LEMMA RingPut ==
  ASSUME TInv, RingInv, NEW w \in Work, qdepth < MaxQDepth, PutTail(w)
  PROVE  RingInv'
<1>1. /\ tail' = Slot(head', qdepth') /\ qdepth' = qdepth + 1
      /\ workpkg'[Slot(head', qdepth)] = w
      /\ \A i \in 0 .. (qdepth - 1) : Slot(head', i) = Slot(head, i) /\ workpkg'[Slot(head, i)] = workpkg[Slot(head, i)]
  BY SlotPut
<1>2. qdepth \in Nat
  BY SizeAssumption DEF TInv, TypeOK
<1>3. w # NULL
  BY SizeAssumption DEF Work
<1>4. \A i \in 0 .. (qdepth' - 1) : workpkg'[Slot(head', i)] # NULL
  <2> TAKE i \in 0 .. (qdepth' - 1)
  <2>1. i = qdepth \/ i \in 0 .. (qdepth - 1)
    BY <1>1, <1>2
  <2> QED BY <1>1, <1>3, <2>1 DEF RingInv
<1> QED BY <1>1, <1>4 DEF RingInv

LEMMA RingTake ==
  ASSUME TInv, RingInv, qdepth > 0, TakeHead,
         workpkg' \in {workpkg, [workpkg EXCEPT ![head] = NULL]}
  PROVE  RingInv'
<1>1. /\ tail' = Slot(head', qdepth') /\ qdepth' = qdepth - 1
      /\ \A i \in 0 .. (qdepth - 2) :
           Slot(head', i) = Slot(head, i + 1) /\ workpkg'[Slot(head', i)] = workpkg[Slot(head, i + 1)]
  BY SlotTake
<1>2. qdepth \in Nat
  BY SizeAssumption DEF TInv, TypeOK
<1>3. \A i \in 0 .. (qdepth' - 1) : workpkg'[Slot(head', i)] # NULL
  <2> TAKE i \in 0 .. (qdepth' - 1)
  <2>1. i \in 0 .. (qdepth - 2) /\ i + 1 \in 0 .. (qdepth - 1)
    BY <1>1, <1>2
  <2> QED BY <1>1, <2>1 DEF RingInv
<1> QED BY <1>1, <1>3 DEF RingInv

LEMMA RingSame ==
  ASSUME RingInv, UNCHANGED ringVars
  PROVE  RingInv'
BY DEF RingInv, Slot, ringVars

\* Threads keep the ring in order and do not touch a master's package.
LEMMA RingThread ==
  ASSUME TInv, RingInv, HeldInv, NEW t \in Threads, ThreadNext(t)
  PROVE  RingInv' /\ HeldInv'
<1>0. /\ cur_work \in [Threads \cup Masters -> Work \cup {NULL}]
      /\ qdepth \in 0 .. MaxQDepth
  BY DEF TInv, TypeOK
<1>a. t \notin Masters
  BY ProcessAssumption
<1>1. CASE UNCHANGED ringVars /\ UNCHANGED masterVars
           /\ \A m \in Masters : cur_work'[m] = cur_work[m]
  BY <1>1, RingSame DEF HeldInv, masterVars
<1>2. CASE ThreadInit(t) \/ ThreadResume(t, "initwait", "initloop")
           \/ ThreadResume(t, "wait", "loop") \/ ConsumerPause(t) \/ ConsumerQuit(t)
           \/ ConsumerWork(t) \/ ProducerInitPause(t) \/ ProducerStart(t)
           \/ ProducerWork(t) \/ ProducerPause(t) \/ ProducerAbort(t) \/ ThreadExit(t)
  <2>1. UNCHANGED ringVars /\ UNCHANGED masterVars
    BY <1>2 DEF ThreadInit, ThreadResume, ThreadPause, ConsumerPause, ConsumerQuit, ConsumerWork,
         ProducerInitPause, ProducerStart, ProducerWork, ProducerPause, ProducerAbort, ThreadExit
  <2>2. cur_work' = cur_work \/ \E w : cur_work' = [cur_work EXCEPT ![t] = w]
    BY <1>2 DEF ThreadInit, ThreadResume, ThreadPause, ConsumerPause, ConsumerQuit, ConsumerWork,
         ProducerInitPause, ProducerStart, ProducerWork, ProducerPause, ProducerAbort, ThreadExit
  <2>3. \A m \in Masters : cur_work'[m] = cur_work[m]
    BY <1>0, <1>a, <2>2
  <2> QED BY <1>1, <2>1, <2>3
<1>3. CASE ConsumerTake(t)
  <2>1. qdepth > 0
    BY <1>0, <1>3, SizeAssumption DEF ConsumerTake, ConsumerHolds, ConsumerQuits
  <2>2. RingInv'
    BY <1>3, <2>1, RingTake DEF ConsumerTake
  <2>3. UNCHANGED mpc /\ cur_work' = [cur_work EXCEPT ![t] = workpkg[head]]
    BY <1>3 DEF ConsumerTake, masterVars
  <2> QED BY <1>0, <1>a, <2>2, <2>3 DEF HeldInv
<1>4. CASE ProducerPut(t)
  <2>1. qdepth < MaxQDepth
    BY <1>0, <1>4, SizeAssumption DEF ProducerPut, ProducerHolds
  <2>2. RingInv'
    <3>1. CASE cur_work[t] = NULL
      BY <1>4, <3>1, RingSame DEF ProducerPut
    <3>2. CASE cur_work[t] # NULL
      <4>1. cur_work[t] \in Work /\ PutTail(cur_work[t])
        BY <1>0, <1>4, <3>2 DEF ProducerPut
      <4> QED BY <2>1, <4>1, RingPut
    <3> QED BY <3>1, <3>2
  <2>3. UNCHANGED mpc /\ cur_work' = [cur_work EXCEPT ![t] = NULL]
    BY <1>4 DEF ProducerPut, masterVars
  <2> QED BY <1>0, <1>a, <2>2, <2>3 DEF HeldInv
<1> QED BY <1>2, <1>3, <1>4 DEF ThreadNext

\* The functions of a master other than tq_enqueue() leave the packages held
\* by processes alone.
LEMMA HeldOther ==
  ASSUME TInv, HeldInv, NEW m \in Masters, NEW x,
         mpc[m] # "tq_enqueue", x # "tq_enqueue",
         mpc' = [mpc EXCEPT ![m] = x], UNCHANGED cur_work
  PROVE  HeldInv'
BY DEF TInv, TypeOK, HeldInv

LEMMA RingMaster ==
  ASSUME TInv, RingInv, HeldInv, NEW m \in Masters, MasterNext(m)
  PROVE  RingInv' /\ HeldInv'
<1>0. /\ cur_work \in [Threads \cup Masters -> Work \cup {NULL}]
      /\ qdepth \in 0 .. MaxQDepth /\ made \in 0 .. MaxWork
      /\ mpc \in [Masters -> OpNames \cup {"idle", "pthread_join"}]
  BY DEF TInv, TypeOK
<1>1. CASE tq_enqueue(m)
  <2> DEFINE wb == IF mpc[m] = "tq_enqueue" THEN cur_work[m] ELSE made + 1
  <2>1. /\ (mpc[m] # "tq_enqueue" => made < MaxWork)
        /\ \/ /\ mpc' = [mpc EXCEPT ![m] = "tq_enqueue"]
              /\ cur_work' = [cur_work EXCEPT ![m] = wb]
              /\ UNCHANGED ringVars
           \/ /\ mpc' = [mpc EXCEPT ![m] = "idle"]
              /\ cur_work' = [cur_work EXCEPT ![m] = NULL]
              /\ \/ UNCHANGED ringVars
                 \/ qdepth # MaxQDepth /\ PutTail(wb)
    BY <1>1 DEF tq_enqueue, Sleep, Return, Again
  <2>2. wb \in Work
    <3>1. CASE mpc[m] = "tq_enqueue"
      BY <1>0, <3>1 DEF HeldInv
    <3>2. CASE mpc[m] # "tq_enqueue"
      BY <1>0, <2>1, <3>2, SizeAssumption DEF Work
    <3> QED BY <3>1, <3>2
  <2>3. wb # NULL
    BY <2>2, SizeAssumption DEF Work
  <2> HIDE DEF wb
  <2>4. RingInv'
    <3>1. CASE UNCHANGED ringVars
      BY <3>1, RingSame
    <3>2. CASE qdepth # MaxQDepth /\ PutTail(wb)
      BY <1>0, <2>2, <3>2, SizeAssumption, RingPut
    <3> QED BY <2>1, <3>1, <3>2
  <2>5. HeldInv'
    BY <1>0, <2>1, <2>3 DEF HeldInv
  <2> QED BY <2>4, <2>5
<1>2. CASE tq_dequeue(m)
  <2>1. /\ mpc[m] \in {"idle", "tq_dequeue"}
        /\ mpc' = [mpc EXCEPT ![m] = "idle"] \/ mpc' = [mpc EXCEPT ![m] = "tq_dequeue"]
        /\ UNCHANGED cur_work
        /\ UNCHANGED ringVars \/ (qdepth > 0 /\ TakeHead /\ UNCHANGED workpkg)
    BY <1>2 DEF tq_dequeue, Fresh, Again, Sleep, Return, threadVars
  <2>2. RingInv'
    BY <2>1, RingSame, RingTake
  <2>3. HeldInv'
    BY <2>1, HeldOther
  <2> QED BY <2>2, <2>3
<1>3. CASE tq_check_init(m) \/ tq_wait_for_pause(m) \/ tq_wait_for_completion(m)
           \/ tq_wait_for_flags(m) \/ tq_next_thread_status(m)
           \/ tq_set_flags(m) \/ tq_unset_flags(m) \/ JoinThread(m) \/ tq_close(m)
  <2>1. UNCHANGED ringVars /\ UNCHANGED cur_work
    BY <1>3 DEF tq_check_init, tq_wait_for_pause, tq_wait_for_completion, tq_wait_for_flags,
         tq_next_thread_status, tq_set_flags, tq_unset_flags, JoinThread, tq_close, threadVars
  <2>2. mpc[m] # "tq_enqueue"
    BY <1>3 DEF tq_check_init, tq_wait_for_pause, tq_wait_for_completion, tq_wait_for_flags,
         tq_next_thread_status, tq_set_flags, tq_unset_flags, JoinThread, tq_close, Fresh, Again
  <2>3. \E x : x # "tq_enqueue" /\ mpc' = [mpc EXCEPT ![m] = x]
    <3>1. CASE tq_check_init(m)
      BY <3>1 DEF tq_check_init, Return, Sleep
    <3>2. CASE tq_wait_for_pause(m)
      BY <3>2 DEF tq_wait_for_pause, Return, Sleep
    <3>3. CASE tq_wait_for_completion(m)
      BY <3>3 DEF tq_wait_for_completion, Return, Sleep
    <3>4. CASE tq_wait_for_flags(m)
      BY <3>4 DEF tq_wait_for_flags, Return, Sleep
    <3>5. CASE tq_next_thread_status(m)
      BY <3>5 DEF tq_next_thread_status, Return, Sleep
    <3>6. CASE tq_set_flags(m) \/ tq_unset_flags(m) \/ JoinThread(m) \/ tq_close(m)
      BY <3>6 DEF tq_set_flags, tq_unset_flags, JoinThread, tq_close, Return
    <3> QED BY <1>3, <3>1, <3>2, <3>3, <3>4, <3>5, <3>6
  <2> QED BY <2>1, <2>2, <2>3, RingSame, HeldOther
<1> QED BY <1>1, <1>2, <1>3 DEF MasterNext

-----------------------------------------------------------------------------
(* The inductive invariant behind the theorems on types and on the ring.   *)

Inv == TInv /\ RingInv /\ HeldInv

LEMMA InvInit == Init => Inv
<1> SUFFICES ASSUME Init PROVE Inv
  OBVIOUS
<1>1. TInv
  BY TypeInit
<1>2. RingInv
  BY SizeAssumption DEF Init, RingInv, Slot
<1>3. HeldInv
  BY DEF Init, HeldInv
<1> QED BY <1>1, <1>2, <1>3 DEF Inv

LEMMA InvNext == Inv /\ [Next]_vars => Inv'
<1> SUFFICES ASSUME Inv, [Next]_vars PROVE Inv'
  OBVIOUS
<1>0. TInv /\ RingInv /\ HeldInv
  BY DEF Inv
<1>1. CASE CreateNext
  <2>1. TInv'
    BY <1>0, <1>1, TypeCreate
  <2>2. UNCHANGED ringVars /\ UNCHANGED cur_work /\ UNCHANGED masterVars
    BY <1>1 DEF CreateNext, CreateThread, CreateProducerFails, CreateConsumerFails, InitReturns,
         InitAborts, threadVars
  <2> QED BY <1>0, <2>1, <2>2, RingSame DEF Inv, HeldInv, masterVars
<1>2. ASSUME NEW t \in Threads, ThreadNext(t) PROVE Inv'
  BY <1>0, <1>2, TypeThread, RingThread DEF Inv
<1>3. ASSUME NEW m \in Masters, MasterNext(m) PROVE Inv'
  BY <1>0, <1>3, TypeMaster, RingMaster DEF Inv
<1>4. ASSUME NEW p \in Threads \cup Masters, SpuriousWake(p) PROVE Inv'
  <2>1. UNCHANGED <<qlock, flagVars, ringVars, lifeVars, threadVars, masterVars, workVars>>
    BY <1>4 DEF SpuriousWake
  <2>2. sleeping' \in SleepMaps
    BY <1>0, <1>4 DEF SpuriousWake, TInv, TypeOK, SleepMaps
  <2> QED
    BY <1>0, <2>1, <2>2, RingSame
       DEF Inv, TInv, TypeOK, CollectInv, HeldInv, SleepMaps, flagVars, ringVars, lifeVars,
           threadVars, masterVars, workVars
<1>5. CASE UNCHANGED vars
  BY <1>0, <1>5, RingSame
     DEF Inv, TInv, TypeOK, CollectInv, HeldInv, vars, lockVars, flagVars, ringVars, lifeVars,
         threadVars, masterVars, workVars
<1> QED BY <1>1, <1>2, <1>3, <1>4, <1>5 DEF Next

\* Every variable of the queue keeps its type: the ring indices stay in the
\* ring, qdepth within max_qdepth and uncoll_thrds within the number of
\* threads, whatever the processes do.
THEOREM TypeCorrect == Spec => []TypeOK
<1>1. Inv => TypeOK
  BY DEF Inv, TInv
<1> QED BY <1>1, InvInit, InvNext, PTL DEF Spec

-----------------------------------------------------------------------------
(***************************************************************************)
(* Why tq_wait_for_pause() can be trusted: a thread that has reported      *)
(* HALTED stays in its holding pattern as long as HALT stands alone, and a *)
(* master that has looked at the first midx threads need not look again,   *)
(* however often it slept in between.                                      *)
(***************************************************************************)

InLoop == {"initloop", "loop"}
InWait == {"initwait", "wait"}
Ending == Has("FINISHED") \/ Has("ABORT")

\* Who stands at the head of a holding pattern, or joins a thread, holds qlock.
LockInv ==
  /\ \A t \in Threads : pc[t] \in InLoop => qlock = t
  /\ \A m \in Masters : mpc[m] = "pthread_join" => qlock = m

\* A HALTED thread is asleep, or looks at the flags it was halted for.
HaltInv ==
  \A t \in Threads :
    "HALTED" \in state_flags[t] => pc[t] \in InWait \/ (pc[t] \in InLoop /\ Has("HALT")) \/ Ending

\* What tq_wait_for_pause() has seen so far remains true while it sleeps.
PauseIdxInv ==
  \A m \in Masters : mpc[m] = "tq_wait_for_pause" =>
    /\ "tq_wait_for_pause" \in Ops[m]
    /\ Ending \/ (Has("HALT") /\ \A t \in Threads : t < midx[m] => "HALTED" \in state_flags[t])

\* The threads tq_init() has yet to create have not started.
UnbornInv ==
  life = "creating" => \A t \in Threads : t >= newtID => pc[t] = "unborn"

PauseInv == TypeOK /\ LockInv /\ HaltInv /\ PauseIdxInv /\ UnbornInv

-----------------------------------------------------------------------------
\* What a step of thread t leaves to the other processes and to itself.
ThreadEffect(t) ==
  /\ \E x : pc' = [pc EXCEPT ![t] = x]
  /\ \E S : state_flags' = [state_flags EXCEPT ![t] = S]
  /\ con_flags \subseteq con_flags'
  /\ UNCHANGED <<masterVars, lifeVars>>
  /\ pc[t] # "unborn"
  /\ qlock' = qlock \/ qlock \in {t, NoOne}
  /\ pc'[t] \in InLoop => qlock' = t
  /\ "HALTED" \in state_flags'[t] =>
       \/ pc'[t] \in InWait \/ (pc'[t] \in InLoop /\ "HALT" \in con_flags')
       \/ "FINISHED" \in con_flags' \/ "ABORT" \in con_flags'
  /\ "HALTED" \in state_flags[t] /\ Has("HALT") => "HALTED" \in state_flags'[t]

LEMMA EffectPause ==
  ASSUME PauseInv, NEW t \in Threads, NEW from \in InLoop, NEW to \in InWait, NEW Nudge,
         ThreadPause(t, from, to, Nudge)
  PROVE  ThreadEffect(t)
<1>1. /\ pc \in [Threads -> ThreadPCs]
      /\ state_flags \in [Threads -> SUBSET StateFlags]
      /\ "HALTED" \in state_flags[t] => Has("HALT") \/ Ending
  BY DEF PauseInv, TypeOK, HaltInv, ThreadPause, InLoop, InWait
<1> QED BY <1>1 DEF ThreadPause, CallbackAborts, ThreadEffect, InLoop, InWait, Has, Ending

LEMMA EffectResume ==
  ASSUME PauseInv, NEW t \in Threads, NEW from \in InWait, NEW to \in InLoop,
         ThreadResume(t, from, to)
  PROVE  ThreadEffect(t)
<1>1. /\ pc \in [Threads -> ThreadPCs]
      /\ state_flags \in [Threads -> SUBSET StateFlags]
  BY DEF PauseInv, TypeOK
<1>2. CASE "HALTED" \in state_flags[t] /\ ~Has("HALT")
  BY <1>1, <1>2 DEF ThreadResume, CallbackAborts, ThreadEffect, InLoop, InWait, Has
<1>3. CASE ~("HALTED" \in state_flags[t] /\ ~Has("HALT"))
  BY <1>1, <1>3 DEF ThreadResume, ThreadEffect, InLoop, InWait, Has, flagVars
<1> QED BY <1>2, <1>3

LEMMA EffectThread ==
  ASSUME PauseInv, NEW t \in Threads, ThreadNext(t)
  PROVE  ThreadEffect(t)
<1>0. /\ pc \in [Threads -> ThreadPCs]
      /\ state_flags \in [Threads -> SUBSET StateFlags]
      /\ con_flags \in SUBSET Flags
      /\ pc[t] \notin InWait => ("HALTED" \in state_flags[t] => Has("HALT") \/ Ending)
      /\ pc[t] \notin InLoop \cup InWait => ("HALTED" \in state_flags[t] => Ending)
  BY DEF PauseInv, TypeOK, HaltInv
<1>1. CASE ThreadInit(t)
  BY <1>0, <1>1 DEF ThreadInit, ThreadEffect, InLoop, InWait, Has, Ending
<1>2. CASE ThreadResume(t, "initwait", "initloop") \/ ThreadResume(t, "wait", "loop")
  BY <1>2, EffectResume DEF InLoop, InWait
<1>3. CASE ConsumerPause(t) \/ ProducerInitPause(t) \/ ProducerPause(t)
  BY <1>3, EffectPause DEF ConsumerPause, ProducerInitPause, ProducerPause, InLoop, InWait
<1>4. CASE ConsumerQuit(t) \/ ProducerAbort(t)
  <2>1. Ending
    BY <1>4 DEF ConsumerQuit, ConsumerQuits, ProducerAbort, Ending
  <2> QED
    BY <1>0, <1>4, <2>1
       DEF ConsumerQuit, ProducerAbort, ThreadTerm, ThreadEffect, InLoop, InWait, Has, Ending
<1>5. CASE ConsumerTake(t)
  <2>1. ~Has("HALT") \/ Ending
    BY <1>5 DEF ConsumerTake, ConsumerHolds, Ending
  <2> QED
    BY <1>0, <1>5, <2>1 DEF ConsumerTake, ThreadEffect, InLoop, InWait, Has, Ending, flagVars
<1>6. CASE ConsumerWork(t) \/ ProducerWork(t)
  <2>1. PICK res : PostWork(t, res)
    BY <1>6 DEF ConsumerWork, ProducerWork
  <2>2. pc[t] = "work" /\ UNCHANGED <<masterVars, lifeVars>>
    BY <1>6 DEF ConsumerWork, ProducerWork
  <2> QED
    BY <1>0, <2>1, <2>2 DEF PostWork, ThreadEffect, InLoop, InWait, Has, Ending
<1>7. CASE ProducerStart(t)
  <2>1. ~Has("HALT") \/ Ending
    BY <1>7 DEF ProducerStart, ProducerInitHolds, Ending
  <2> QED
    BY <1>0, <1>7, <2>1 DEF ProducerStart, ThreadEffect, InLoop, InWait, Has, Ending, flagVars
<1>8. CASE ProducerPut(t)
  <2>1. ~Has("HALT") \/ Ending
    BY <1>8 DEF ProducerPut, ProducerHolds, Ending
  <2>2. /\ pc[t] = "loop" /\ qlock = t /\ qlock' = NoOne
        /\ pc' = [pc EXCEPT ![t] = "term"] \/ pc' = [pc EXCEPT ![t] = "work"]
        /\ state_flags' = [state_flags EXCEPT ![t] = @ \ {"READY"}] \/ state_flags' = state_flags
        /\ con_flags' = con_flags /\ UNCHANGED <<masterVars, lifeVars>>
    BY <1>8 DEF ProducerPut, ThreadTerm
  <2> QED
    BY <1>0, <2>1, <2>2 DEF ThreadEffect, InLoop, InWait, Has, Ending
<1>9. CASE ThreadExit(t)
  BY <1>0, <1>9 DEF ThreadExit, ThreadEffect, InLoop, InWait, Has, Ending, lockVars, flagVars
<1> QED
  BY <1>1, <1>2, <1>3, <1>4, <1>5, <1>6, <1>7, <1>8, <1>9 DEF ThreadNext

\* What a call, or a step inside one, of master m leaves to the others.
MasterEffect(m) ==
  /\ UNCHANGED <<pc, state_flags, newtID>>
  /\ life' \in {life, "freed"}
  /\ qlock \in {m, NoOne} /\ qlock' \in {m, NoOne}
  /\ \E x, i :
       /\ mpc' = [mpc EXCEPT ![m] = x] /\ midx' = [midx EXCEPT ![m] = i]
       /\ x = "pthread_join" => qlock' = m
       /\ x = "tq_wait_for_pause" => tq_wait_for_pause(m)
  /\ \/ con_flags \subseteq con_flags'
     \/ /\ con_flags \ {"HALT"} \subseteq con_flags'
        /\ "tq_unset_flags" \in Ops[m] /\ mpc'[m] = "idle"

LEMMA EffectMaster ==
  ASSUME PauseInv, NEW m \in Masters, MasterNext(m)
  PROVE  MasterEffect(m)
<1>0. /\ mpc \in [Masters -> OpNames \cup {"idle", "pthread_join"}]
      /\ midx \in [Masters -> Threads]
      /\ con_flags \in SUBSET Flags
  BY DEF PauseInv, TypeOK
<1>1. CASE tq_check_init(m)
  <2>1. \E x, i : /\ mpc' = [mpc EXCEPT ![m] = x] /\ midx' = [midx EXCEPT ![m] = i]
                  /\ x \in {"idle", "tq_check_init"}
    BY <1>1 DEF tq_check_init, Return, Sleep
  <2>2. qlock = NoOne /\ UNCHANGED <<pc, state_flags, qlock, con_flags, lifeVars>>
    BY <1>1 DEF tq_check_init, flagVars, threadVars
  <2> QED BY <2>1, <2>2 DEF MasterEffect, lifeVars
<1>2. CASE tq_wait_for_pause(m)
  <2>1. \E x, i : /\ mpc' = [mpc EXCEPT ![m] = x] /\ midx' = [midx EXCEPT ![m] = i]
                  /\ x \in {"idle", "tq_wait_for_pause"}
    BY <1>2 DEF tq_wait_for_pause, Return, Sleep
  <2>2. qlock = NoOne /\ UNCHANGED <<pc, state_flags, qlock, con_flags, lifeVars>>
    BY <1>2 DEF tq_wait_for_pause, flagVars, threadVars
  <2> QED BY <1>2, <2>1, <2>2 DEF MasterEffect, lifeVars
<1>3. CASE tq_wait_for_completion(m)
  <2>1. \E x, i : /\ mpc' = [mpc EXCEPT ![m] = x] /\ midx' = [midx EXCEPT ![m] = i]
                  /\ x \in {"idle", "tq_wait_for_completion"}
    BY <1>3 DEF tq_wait_for_completion, Return, Sleep
  <2>2. qlock = NoOne /\ UNCHANGED <<pc, state_flags, qlock, con_flags, lifeVars>>
    BY <1>3 DEF tq_wait_for_completion, flagVars, threadVars
  <2> QED BY <2>1, <2>2 DEF MasterEffect, lifeVars
<1>4. CASE tq_wait_for_flags(m) \/ tq_enqueue(m) \/ tq_dequeue(m)
  <2>1. \E x, i : /\ mpc' = [mpc EXCEPT ![m] = x] /\ midx' = [midx EXCEPT ![m] = i]
                  /\ x \in {"idle", "tq_wait_for_flags", "tq_enqueue", "tq_dequeue"}
    <3>1. CASE tq_wait_for_flags(m)
      BY <3>1 DEF tq_wait_for_flags, Return, Sleep
    <3>2. CASE tq_enqueue(m)
      BY <3>2 DEF tq_enqueue, Return, Sleep
    <3>3. CASE tq_dequeue(m)
      BY <3>3 DEF tq_dequeue, Return, Sleep
    <3> QED BY <1>4, <3>1, <3>2, <3>3
  <2>2. qlock = NoOne /\ UNCHANGED <<pc, state_flags, qlock, con_flags, lifeVars>>
    BY <1>4 DEF tq_wait_for_flags, tq_enqueue, tq_dequeue, flagVars, threadVars
  <2> QED BY <2>1, <2>2 DEF MasterEffect, lifeVars
<1>5. CASE tq_next_thread_status(m)
  <2>1. \E x, i : /\ mpc' = [mpc EXCEPT ![m] = x] /\ midx' = [midx EXCEPT ![m] = i]
                  /\ x \in {"idle", "tq_next_thread_status", "pthread_join"}
                  /\ x = "pthread_join" => qlock' = m
    BY <1>5 DEF tq_next_thread_status, Return, Sleep
  <2>2. /\ qlock = NoOne /\ qlock' \in {m, NoOne}
        /\ UNCHANGED <<pc, state_flags, con_flags, newtID, life>>
    BY <1>5 DEF tq_next_thread_status, flagVars, threadVars, lockVars, lifeVars
  <2> QED BY <2>1, <2>2 DEF MasterEffect, lifeVars
<1>6. CASE JoinThread(m)
  <2>1. qlock = m
    BY <1>6 DEF JoinThread, PauseInv, LockInv
  <2>2. /\ \E x, i : /\ mpc' = [mpc EXCEPT ![m] = x] /\ midx' = [midx EXCEPT ![m] = i]
                     /\ x = "idle"
        /\ qlock' = NoOne /\ UNCHANGED <<pc, state_flags, con_flags, newtID, life>>
    BY <1>6 DEF JoinThread, Return, flagVars, threadVars
  <2> QED BY <2>1, <2>2 DEF MasterEffect, lifeVars
<1>7. CASE tq_set_flags(m)
  <2>1. /\ \E x, i : /\ mpc' = [mpc EXCEPT ![m] = x] /\ midx' = [midx EXCEPT ![m] = i]
                     /\ x = "idle"
        /\ qlock = NoOne /\ UNCHANGED <<qlock, pc, state_flags, lifeVars>>
        /\ con_flags \subseteq con_flags'
    BY <1>7 DEF tq_set_flags, Return, threadVars
  <2> QED BY <2>1 DEF MasterEffect, lifeVars
<1>8. CASE tq_unset_flags(m)
  <2>1. con_flags \ {"HALT"} \subseteq con_flags' /\ "tq_unset_flags" \in Ops[m]
    BY <1>8, ClientAssumption DEF tq_unset_flags, Fresh
  <2>2. /\ \E x, i : /\ mpc' = [mpc EXCEPT ![m] = x] /\ midx' = [midx EXCEPT ![m] = i]
                     /\ x = "idle"
        /\ qlock = NoOne /\ UNCHANGED <<qlock, pc, state_flags, lifeVars>>
    BY <1>8 DEF tq_unset_flags, Return, threadVars
  <2> QED BY <1>0, <2>1, <2>2 DEF MasterEffect, lifeVars
<1>9. CASE tq_close(m)
  BY <1>9 DEF tq_close, Return, MasterEffect, lockVars, flagVars, threadVars
<1> QED
  BY <1>1, <1>2, <1>3, <1>4, <1>5, <1>6, <1>7, <1>8, <1>9 DEF MasterNext

\* Where a master that goes on waiting stands: every thread before it is
\* HALTED.
LEMMA PauseSeen ==
  ASSUME PauseInv, NEW m \in Masters, tq_wait_for_pause(m), mpc'[m] = "tq_wait_for_pause"
  PROVE  /\ "tq_wait_for_pause" \in Ops[m]
         /\ con_flags = {"HALT"}
         /\ \A t \in Threads : t < midx'[m] => "HALTED" \in state_flags[t]
<1>0. /\ mpc \in [Masters -> OpNames \cup {"idle", "pthread_join"}]
      /\ midx \in [Masters -> Threads]
  BY DEF PauseInv, TypeOK
<1>1. "tq_wait_for_pause" \in Ops[m]
  BY DEF tq_wait_for_pause, Fresh, Again, PauseInv, PauseIdxInv
<1>2. PICK k \in Threads :
        /\ con_flags = {"HALT"}
        /\ IsFirst(k, FromIdx(m, "tq_wait_for_pause"), NotHalted)
        /\ Sleep(m, "tq_wait_for_pause", k, {})
  BY <1>0 DEF tq_wait_for_pause, Return
<1>3. midx'[m] = k
  BY <1>0, <1>2 DEF Sleep
<1>4. ASSUME NEW t \in Threads, t < k PROVE "HALTED" \in state_flags[t]
  <2>1. CASE t >= FromIdx(m, "tq_wait_for_pause")
    BY <1>2, <1>4, <2>1 DEF IsFirst, NotHalted
  <2>2. CASE ~(t >= FromIdx(m, "tq_wait_for_pause"))
    <3>1. mpc[m] = "tq_wait_for_pause" /\ t < midx[m]
      BY <1>0, <2>2 DEF FromIdx, Threads
    <3> QED BY <1>2, <3>1 DEF PauseInv, PauseIdxInv, Ending, Has
  <2> QED BY <2>1, <2>2
<1> QED BY <1>1, <1>2, <1>3, <1>4

-----------------------------------------------------------------------------
LEMMA PauseInvInit == Init => LockInv /\ HaltInv /\ PauseIdxInv /\ UnbornInv
BY DEF Init, LockInv, HaltInv, PauseIdxInv, UnbornInv, InLoop

LEMMA PauseInvThread ==
  ASSUME PauseInv, NEW t \in Threads, ThreadEffect(t)
  PROVE  LockInv' /\ HaltInv' /\ PauseIdxInv' /\ UnbornInv'
<1>0. /\ pc \in [Threads -> ThreadPCs]
      /\ state_flags \in [Threads -> SUBSET StateFlags]
      /\ LockInv /\ HaltInv /\ PauseIdxInv /\ UnbornInv
  BY DEF PauseInv, TypeOK
<1>a. t \notin Masters /\ NoOne \notin Masters \cup Threads
  BY ProcessAssumption
<1>b. /\ \A u \in Threads \ {t} : pc'[u] = pc[u] /\ state_flags'[u] = state_flags[u]
      /\ UNCHANGED <<mpc, midx>>
      /\ con_flags \subseteq con_flags'
      /\ qlock' = qlock \/ qlock \in {t, NoOne}
  BY <1>0 DEF ThreadEffect, masterVars
<1>1. LockInv'
  BY <1>0, <1>a, <1>b DEF LockInv, ThreadEffect
<1>2. HaltInv'
  <2> SUFFICES ASSUME NEW u \in Threads, "HALTED" \in state_flags'[u]
               PROVE  \/ pc'[u] \in InWait \/ (pc'[u] \in InLoop /\ "HALT" \in con_flags')
                      \/ "FINISHED" \in con_flags' \/ "ABORT" \in con_flags'
    BY DEF HaltInv, Ending, Has
  <2>1. CASE u = t
    BY <2>1 DEF ThreadEffect
  <2>2. CASE u # t
    BY <1>0, <1>b, <2>2 DEF HaltInv, Ending, Has
  <2> QED BY <2>1, <2>2
<1>3. PauseIdxInv'
  <2> SUFFICES ASSUME NEW m \in Masters, mpc[m] = "tq_wait_for_pause"
               PROVE  /\ "tq_wait_for_pause" \in Ops[m]
                      /\ \/ "FINISHED" \in con_flags' \/ "ABORT" \in con_flags'
                         \/ /\ "HALT" \in con_flags'
                            /\ \A u \in Threads : u < midx[m] => "HALTED" \in state_flags'[u]
    BY <1>b DEF PauseIdxInv, Ending, Has
  <2>1. "HALTED" \in state_flags[t] /\ Has("HALT") => "HALTED" \in state_flags'[t]
    BY DEF ThreadEffect
  <2> QED BY <1>0, <1>b, <2>1 DEF PauseIdxInv, Ending, Has
<1>4. UnbornInv'
  <2>1. UNCHANGED <<life, newtID>> /\ pc[t] # "unborn"
    BY DEF ThreadEffect, lifeVars
  <2> QED BY <1>0, <1>b, <2>1 DEF UnbornInv
<1> QED BY <1>1, <1>2, <1>3, <1>4

LEMMA PauseInvMaster ==
  ASSUME PauseInv, NEW m \in Masters, MasterEffect(m)
  PROVE  LockInv' /\ HaltInv' /\ PauseIdxInv' /\ UnbornInv'
<1>0. /\ mpc \in [Masters -> OpNames \cup {"idle", "pthread_join"}]
      /\ midx \in [Masters -> Threads]
      /\ LockInv /\ HaltInv /\ PauseIdxInv /\ UnbornInv
  BY DEF PauseInv, TypeOK
<1>a. Masters \cap Threads = {} /\ NoOne \notin Masters \cup Threads
  BY ProcessAssumption
<1>b. /\ UNCHANGED <<pc, state_flags>>
      /\ qlock \in {m, NoOne}
      /\ \A n \in Masters \ {m} : mpc'[n] = mpc[n] /\ midx'[n] = midx[n]
      /\ mpc'[m] = "pthread_join" => qlock' = m
      /\ mpc'[m] = "tq_wait_for_pause" => tq_wait_for_pause(m)
      /\ \A f \in {"FINISHED", "ABORT"} : f \in con_flags => f \in con_flags'
  BY <1>0 DEF MasterEffect, lifeVars
<1>c. \A t \in Threads : pc[t] \notin InLoop
  BY <1>0, <1>a, <1>b DEF LockInv
<1>1. LockInv'
  BY <1>0, <1>a, <1>b, <1>c DEF LockInv
<1>2. HaltInv'
  BY <1>0, <1>b, <1>c DEF HaltInv, Ending, Has
<1>3. PauseIdxInv'
  <2> SUFFICES ASSUME NEW n \in Masters, mpc'[n] = "tq_wait_for_pause"
               PROVE  /\ "tq_wait_for_pause" \in Ops[n]
                      /\ \/ "FINISHED" \in con_flags' \/ "ABORT" \in con_flags'
                         \/ /\ "HALT" \in con_flags'
                            /\ \A t \in Threads : t < midx'[n] => "HALTED" \in state_flags[t]
    BY <1>b DEF PauseIdxInv, Ending, Has
  <2>1. CASE n = m
    <3>1. tq_wait_for_pause(m) /\ mpc'[m] = "tq_wait_for_pause"
      BY <1>b, <2>1
    <3>2. UNCHANGED con_flags
      BY <3>1 DEF tq_wait_for_pause, flagVars
    <3> QED BY <2>1, <3>1, <3>2, PauseSeen
  <2>2. CASE n # m
    <3>1. mpc[n] = "tq_wait_for_pause" /\ midx'[n] = midx[n]
      BY <1>b, <2>2
    <3>2. "tq_wait_for_pause" \in Ops[n]
      BY <1>0, <3>1 DEF PauseIdxInv
    <3>3. "HALT" \in con_flags => "HALT" \in con_flags'
      BY <2>2, <3>2, ClientAssumption DEF MasterEffect
    <3> QED BY <1>0, <1>b, <3>1, <3>3 DEF PauseIdxInv, Ending, Has
  <2> QED BY <2>1, <2>2
<1>4. UnbornInv'
  BY <1>0, <1>b DEF UnbornInv, MasterEffect
<1> QED BY <1>1, <1>2, <1>3, <1>4

LEMMA PauseInvCreate ==
  ASSUME PauseInv, CreateNext
  PROVE  LockInv' /\ HaltInv' /\ PauseIdxInv' /\ UnbornInv'
<1>0. /\ pc \in [Threads -> ThreadPCs]
      /\ LockInv /\ HaltInv /\ PauseIdxInv /\ UnbornInv
  BY DEF PauseInv, TypeOK
<1>1. /\ UNCHANGED <<qlock, state_flags, mpc, midx>>
      /\ con_flags \subseteq con_flags'
  BY DEF CreateNext, CreateThread, CreateProducerFails, CreateConsumerFails, InitReturns,
         InitAborts, lockVars, flagVars, masterVars
<1>2. CASE CreateThread
  <2>1. /\ newtID \in Threads /\ pc[newtID] = "unborn" /\ newtID' = newtID + 1
        /\ pc' = [pc EXCEPT ![newtID] = "init"]
    BY <1>0, <1>2, SizeAssumption DEF CreateThread, UnbornInv, PauseInv, TypeOK, Threads, NumThreads
  <2>2. LockInv'
    BY <1>0, <1>1, <2>1 DEF LockInv, InLoop
  <2>3. HaltInv'
    BY <1>0, <1>1, <2>1 DEF HaltInv, InLoop, InWait, Ending, Has
  <2>4. PauseIdxInv'
    BY <1>0, <1>1 DEF PauseIdxInv, Ending, Has
  <2>5. UnbornInv'
    BY <1>0, <2>1, <1>2 DEF UnbornInv, CreateThread, Threads
  <2> QED BY <2>2, <2>3, <2>4, <2>5
<1>3. CASE ~CreateThread
  <2>1. UNCHANGED <<pc, newtID>> /\ (life' = "creating" => life = "creating")
    BY <1>3 DEF CreateNext, CreateProducerFails, CreateConsumerFails, InitReturns, InitAborts,
         threadVars
  <2> QED
    BY <1>0, <1>1, <2>1 DEF LockInv, HaltInv, PauseIdxInv, UnbornInv, Ending, Has
<1> QED BY <1>2, <1>3

LEMMA PauseInvNext == Inv /\ PauseInv /\ [Next]_vars => PauseInv'
<1> SUFFICES ASSUME Inv, PauseInv, [Next]_vars PROVE PauseInv'
  OBVIOUS
<1>0. TypeOK'
  BY InvNext DEF Inv, TInv
<1>1. CASE CreateNext
  BY <1>0, <1>1, PauseInvCreate DEF PauseInv
<1>2. ASSUME NEW t \in Threads, ThreadNext(t) PROVE PauseInv'
  BY <1>0, <1>2, EffectThread, PauseInvThread DEF PauseInv
<1>3. ASSUME NEW m \in Masters, MasterNext(m) PROVE PauseInv'
  BY <1>0, <1>3, EffectMaster, PauseInvMaster DEF PauseInv
<1>4. CASE UNCHANGED <<qlock, flagVars, lifeVars, threadVars, masterVars>>
  BY <1>0, <1>4
     DEF PauseInv, LockInv, HaltInv, PauseIdxInv, UnbornInv, Ending, Has, flagVars, lifeVars,
         threadVars, masterVars
<1>5. ASSUME NEW p \in Threads \cup Masters, SpuriousWake(p) PROVE PauseInv'
  BY <1>4, <1>5 DEF SpuriousWake
<1>6. CASE UNCHANGED vars
  BY <1>4, <1>6 DEF vars, lockVars
<1> QED BY <1>1, <1>2, <1>3, <1>5, <1>6 DEF Next

LEMMA PauseInvAlways == Spec => []PauseInv
<1>1. Init => PauseInv
  BY PauseInvInit, InvInit DEF PauseInv, Inv, TInv
<1> QED BY <1>1, InvInit, InvNext, PauseInvNext, PTL DEF Spec

\* A thread that has reported HALTED is not in its work function while HALT
\* is the only flag: HALTED can be acted upon.
THEOREM HaltedStayPut == Spec => []HaltedThreadsStayPut
<1>1. PauseInv => HaltedThreadsStayPut
  BY DEF PauseInv, HaltInv, HaltedThreadsStayPut, InLoop, InWait, Ending, Has
<1> QED BY <1>1, PauseInvAlways, PTL

\* When tq_wait_for_pause() is about to return zero, every thread sleeps in
\* its holding pattern, although they were looked at one after the other
\* with qlock given up in between.
THEOREM PauseCorrect == Spec => []PauseIsQuiescent
<1>1. PauseInv => PauseIsQuiescent
  <2> SUFFICES ASSUME PauseInv, NEW m \in Masters,
                      MayProceed(m, "tq_wait_for_pause"), PauseSucceeds(m),
                      NEW t \in Threads
               PROVE  pc[t] \in InWait
    BY DEF PauseIsQuiescent, InWait
  <2>1. qlock = NoOne /\ con_flags = {"HALT"}
    BY DEF MayProceed, PauseSucceeds
  <2>2. "HALTED" \in state_flags[t]
    <3>1. CASE t >= FromIdx(m, "tq_wait_for_pause")
      BY <3>1 DEF PauseSucceeds, NotHalted
    <3>2. CASE ~(t >= FromIdx(m, "tq_wait_for_pause"))
      <4>1. mpc[m] = "tq_wait_for_pause" /\ t < midx[m]
        BY <3>2 DEF FromIdx, Threads, PauseInv, TypeOK
      <4> QED BY <2>1, <4>1 DEF PauseInv, PauseIdxInv, Ending, Has
    <3> QED BY <3>1, <3>2
  <2>3. pc[t] \notin InLoop
    BY <2>1, ProcessAssumption DEF PauseInv, LockInv
  <2> QED BY <2>1, <2>2, <2>3 DEF PauseInv, HaltInv, Ending, Has
<1> QED BY <1>1, PauseInvAlways, PTL

-----------------------------------------------------------------------------
(* The refinement.                                                         *)

\* A producer holds a package from the end of its work function to the
\* enqueue (or to its termination), a consumer while it works on it.
HoldInv ==
  \A t \in Threads : cur_work[t] # NULL =>
    \/ role[t] = "prod" /\ pc[t] \in {"loop", "wait", "term"}
    \/ role[t] = "cons" /\ pc[t] = "work"

FifoInv == Inv /\ UnbornInv /\ HoldInv

-----------------------------------------------------------------------------
(* Sequences given as functions.                                           *)

LEMMA SeqAppend ==
  ASSUME NEW n \in Nat, NEW S, NEW f \in [1 .. n -> S], NEW w \in S,
         NEW g \in [1 .. (n + 1) -> S],
         g[n + 1] = w, \A i \in 1 .. n : g[i] = f[i]
  PROVE  g = Append(f, w) /\ Len(f) = n
<1>1. f \in Seq(S) /\ g \in Seq(S) /\ Len(f) = n /\ Len(g) = n + 1
  OBVIOUS
<1>2. Append(f, w) \in Seq(S) /\ Len(Append(f, w)) = n + 1
  BY <1>1
<1>3. \A i \in 1 .. (n + 1) : Append(f, w)[i] = g[i]
  BY <1>1
<1> QED BY <1>1, <1>2, <1>3

LEMMA SeqTail ==
  ASSUME NEW n \in Nat, NEW S, NEW f \in [1 .. (n + 1) -> S],
         NEW g \in [1 .. n -> S], \A i \in 1 .. n : g[i] = f[i + 1]
  PROVE  g = Tail(f) /\ Head(f) = f[1] /\ f # << >>
<1>1. f \in Seq(S) /\ g \in Seq(S) /\ Len(f) = n + 1 /\ Len(g) = n
  OBVIOUS
<1>2. Tail(f) \in Seq(S) /\ Len(Tail(f)) = n
  BY <1>1
<1>3. \A i \in 1 .. n : Tail(f)[i] = g[i]
  BY <1>1
<1>4. g = Tail(f)
  BY <1>1, <1>2, <1>3
<1> QED BY <1>1, <1>4

\* The ring as a sequence, before and after an enqueue and a dequeue.
QueueTyped == Queue \in [1 .. qdepth -> Work] /\ Len(Queue) = qdepth /\ qdepth \in Nat

LEMMA QueueType == Inv => QueueTyped
<1> SUFFICES ASSUME Inv PROVE QueueTyped
  OBVIOUS
<1>1. /\ workpkg \in [0 .. (MaxQDepth - 1) -> Work \cup {NULL}]
      /\ head \in 0 .. (MaxQDepth - 1) /\ qdepth \in 0 .. MaxQDepth
      /\ MaxQDepth \in Nat
  BY SizeAssumption DEF Inv, TInv, TypeOK
<1>2. \A i \in 1 .. qdepth : workpkg[Slot(head, i - 1)] \in Work
  <2> TAKE i \in 1 .. qdepth
  <2>1. i - 1 \in 0 .. (qdepth - 1) /\ Slot(head, i - 1) \in 0 .. (MaxQDepth - 1)
    BY <1>1 DEF Slot
  <2>2. workpkg[Slot(head, i - 1)] # NULL
    BY <2>1 DEF Inv, RingInv
  <2> QED BY <1>1, <2>1, <2>2
<1>3. Queue \in [1 .. qdepth -> Work]
  BY <1>2 DEF Queue
<1> QED BY <1>1, <1>3 DEF QueueTyped

LEMMA QueuePut ==
  ASSUME Inv, Inv', NEW w \in Work, qdepth < MaxQDepth, PutTail(w)
  PROVE  Queue' = Append(Queue, w) /\ Len(Queue) < MaxQDepth
<1>1. /\ Queue \in [1 .. qdepth -> Work] /\ Len(Queue) = qdepth /\ qdepth \in Nat
      /\ Queue' \in [1 .. qdepth' -> Work]
  <2>1. QueueTyped /\ QueueTyped'
    BY QueueType, PTL
  <2> QED BY <2>1 DEF QueueTyped
<1>2. /\ qdepth' = qdepth + 1
      /\ workpkg'[Slot(head', qdepth)] = w
      /\ \A i \in 0 .. (qdepth - 1) :
           Slot(head', i) = Slot(head, i) /\ workpkg'[Slot(head, i)] = workpkg[Slot(head, i)]
  BY SlotPut DEF Inv
<1>3. Queue'[qdepth + 1] = w
  BY <1>1, <1>2 DEF Queue
<1>4. \A i \in 1 .. qdepth : Queue'[i] = Queue[i]
  <2> TAKE i \in 1 .. qdepth
  <2>1. i - 1 \in 0 .. (qdepth - 1) /\ i \in 1 .. qdepth'
    BY <1>1, <1>2
  <2> QED BY <1>2, <2>1 DEF Queue
<1> QED BY <1>1, <1>2, <1>3, <1>4, SeqAppend

LEMMA QueueTake ==
  ASSUME Inv, Inv', qdepth > 0, TakeHead,
         workpkg' \in {workpkg, [workpkg EXCEPT ![head] = NULL]}
  PROVE  Queue' = Tail(Queue) /\ Head(Queue) = workpkg[head] /\ Queue # << >>
<1>1. /\ Queue \in [1 .. qdepth -> Work] /\ qdepth \in Nat
      /\ Queue' \in [1 .. qdepth' -> Work]
  <2>1. QueueTyped /\ QueueTyped'
    BY QueueType, PTL
  <2> QED BY <2>1 DEF QueueTyped
<1>2. /\ qdepth' = qdepth - 1
      /\ Slot(head, 0) = head
      /\ \A i \in 0 .. (qdepth - 2) :
           Slot(head', i) = Slot(head, i + 1) /\ workpkg'[Slot(head', i)] = workpkg[Slot(head, i + 1)]
  BY SlotTake DEF Inv
<1>3. Queue[1] = workpkg[head]
  BY <1>1, <1>2 DEF Queue
<1>4. \A i \in 1 .. (qdepth - 1) : Queue'[i] = Queue[i + 1]
  <2> TAKE i \in 1 .. (qdepth - 1)
  <2>1. /\ i - 1 \in 0 .. (qdepth - 2) /\ i \in 1 .. qdepth' /\ i + 1 \in 1 .. qdepth
        /\ (i - 1) + 1 = i /\ (i + 1) - 1 = i
    BY <1>1, <1>2
  <2> QED BY <1>2, <2>1 DEF Queue
<1>5. qdepth - 1 \in Nat /\ (qdepth - 1) + 1 = qdepth
  BY <1>1
<1> QED BY <1>1, <1>2, <1>3, <1>4, <1>5, SeqTail

LEMMA QueueSame ==
  ASSUME UNCHANGED ringVars
  PROVE  Queue' = Queue
BY DEF Queue, Slot, ringVars

-----------------------------------------------------------------------------
(* The operations of WorkFifo, in terms of ThreadQueue.                    *)

Procs    == Threads \cup Masters
FifoStep == [Fifo!Next]_(Fifo!fifoVars)

LEMMA FifoStutter ==
  ASSUME UNCHANGED <<ringVars, cur_work, workVars>>
  PROVE  FifoStep
<1>1. UNCHANGED Fifo!fifoVars
  BY QueueSame DEF Fifo!fifoVars, workVars
<1> QED BY <1>1 DEF FifoStep

LEMMA FifoMake ==
  ASSUME NEW p \in Procs, cur_work[p] = NULL, made < MaxWork, made' = made + 1,
         cur_work' = [cur_work EXCEPT ![p] = made + 1], UNCHANGED <<ringVars, done>>
  PROVE  FifoStep
<1>1. Fifo!Make(p)
  BY QueueSame DEF Fifo!Make
<1> QED BY <1>1 DEF FifoStep, Fifo!Next, Procs

LEMMA FifoFinish ==
  ASSUME NEW p \in Procs, cur_work[p] # NULL, done' = done \cup {cur_work[p]},
         cur_work' = [cur_work EXCEPT ![p] = NULL], UNCHANGED <<ringVars, made>>
  PROVE  FifoStep
<1>1. Fifo!Finish(p)
  BY QueueSame DEF Fifo!Finish
<1> QED BY <1>1 DEF FifoStep, Fifo!Next, Procs

LEMMA FifoPut ==
  ASSUME Inv, Inv', NEW p \in Procs, cur_work[p] \in Work, qdepth < MaxQDepth,
         PutTail(cur_work[p]), cur_work' = [cur_work EXCEPT ![p] = NULL],
         UNCHANGED workVars
  PROVE  FifoStep
<1>1. Queue' = Append(Queue, cur_work[p]) /\ Len(Queue) < MaxQDepth
  BY QueuePut
<1>2. cur_work[p] # NULL
  BY SizeAssumption DEF Work
<1>3. Fifo!Put(p)
  BY <1>1, <1>2 DEF Fifo!Put, workVars
<1> QED BY <1>3 DEF FifoStep, Fifo!Next, Procs

LEMMA FifoTake ==
  ASSUME Inv, Inv', NEW p \in Procs, cur_work[p] = NULL, qdepth > 0, TakeHead,
         workpkg' = [workpkg EXCEPT ![head] = NULL],
         cur_work' = [cur_work EXCEPT ![p] = workpkg[head]], UNCHANGED workVars
  PROVE  FifoStep
<1>1. Queue' = Tail(Queue) /\ Head(Queue) = workpkg[head] /\ Queue # << >>
  BY QueueTake
<1>2. Fifo!Take(p)
  BY <1>1 DEF Fifo!Take, workVars
<1> QED BY <1>2 DEF FifoStep, Fifo!Next, Procs

-----------------------------------------------------------------------------
\* Every step of a thread.
LEMMA FifoThread ==
  ASSUME FifoInv, Inv', NEW t \in Threads, ThreadNext(t)
  PROVE  FifoStep
<1>0. /\ Inv /\ HoldInv
      /\ cur_work \in [Procs -> Work \cup {NULL}]
      /\ qdepth \in 0 .. MaxQDepth /\ MaxQDepth \in Nat /\ t \in Procs
  BY SizeAssumption DEF FifoInv, Inv, TInv, TypeOK, Procs
<1>1. CASE UNCHANGED <<ringVars, cur_work, workVars>>
  BY <1>1, FifoStutter
<1>2. CASE ThreadInit(t) \/ ConsumerPause(t) \/ ConsumerQuit(t) \/ ProducerInitPause(t)
           \/ ProducerStart(t) \/ ProducerPause(t) \/ ProducerAbort(t)
  BY <1>1, <1>2 DEF ThreadInit, ThreadPause, ConsumerPause, ConsumerQuit, ProducerInitPause,
       ProducerStart, ProducerPause, ProducerAbort
<1>3. CASE \/ ThreadResume(t, "initwait", "initloop") \/ ThreadResume(t, "wait", "loop")
           \/ ConsumerWork(t) \/ ThreadExit(t)
  <2>1. /\ UNCHANGED <<ringVars, made>>
        /\ \/ UNCHANGED <<cur_work, done>>
           \/ /\ done' = done \cup ({cur_work[t]} \ {NULL})
              /\ cur_work' = [cur_work EXCEPT ![t] = NULL]
    BY <1>3 DEF ThreadResume, ConsumerWork, ThreadExit, workVars
  <2>2. CASE UNCHANGED <<cur_work, done>>
    BY <1>1, <2>1, <2>2 DEF workVars
  <2>3. CASE /\ done' = done \cup ({cur_work[t]} \ {NULL})
             /\ cur_work' = [cur_work EXCEPT ![t] = NULL]
    <3>1. CASE cur_work[t] = NULL
      <4>1. cur_work' = cur_work /\ done' = done
        BY <1>0, <2>3, <3>1
      <4> QED BY <2>2, <4>1
    <3>2. CASE cur_work[t] # NULL
      <4>1. done' = done \cup {cur_work[t]}
        BY <2>3, <3>2
      <4> QED BY <1>0, <2>1, <2>3, <3>2, <4>1, FifoFinish
    <3> QED BY <3>1, <3>2
  <2> QED BY <2>1, <2>2, <2>3
<1>4. CASE ConsumerTake(t)
  <2>1. qdepth > 0
    BY <1>0, <1>4 DEF ConsumerTake, ConsumerHolds, ConsumerQuits
  <2>2. cur_work[t] = NULL
    BY <1>0, <1>4 DEF HoldInv, ConsumerTake
  <2> QED BY <1>0, <1>4, <2>1, <2>2, FifoTake DEF ConsumerTake
<1>5. CASE ProducerWork(t)
  <2>1. cur_work[t] = NULL
    BY <1>0, <1>5 DEF HoldInv, ProducerWork
  <2>2. /\ UNCHANGED <<ringVars, done>>
        /\ \/ /\ made < MaxWork /\ made' = made + 1
              /\ cur_work' = [cur_work EXCEPT ![t] = made + 1]
           \/ UNCHANGED <<made, cur_work>>
    BY <1>5 DEF ProducerWork
  <2> QED BY <1>0, <1>1, <2>1, <2>2, FifoMake DEF workVars
<1>6. CASE ProducerPut(t)
  <2>1. qdepth < MaxQDepth
    BY <1>0, <1>6 DEF ProducerPut, ProducerHolds
  <2>2. cur_work' = [cur_work EXCEPT ![t] = NULL] /\ UNCHANGED workVars
    BY <1>6 DEF ProducerPut
  <2>3. CASE cur_work[t] = NULL
    <3>1. cur_work' = cur_work
      BY <1>0, <2>2, <2>3
    <3>2. UNCHANGED ringVars
      BY <1>6, <2>3 DEF ProducerPut
    <3> QED BY <1>1, <2>2, <3>1, <3>2
  <2>4. CASE cur_work[t] # NULL
    <3>1. cur_work[t] \in Work /\ PutTail(cur_work[t])
      BY <1>0, <1>6, <2>4 DEF ProducerPut
    <3> QED BY <1>0, <2>1, <2>2, <3>1, FifoPut
  <2> QED BY <2>3, <2>4
<1> QED BY <1>2, <1>3, <1>4, <1>5, <1>6 DEF ThreadNext

\* Every step of a master.
LEMMA FifoMaster ==
  ASSUME FifoInv, Inv', NEW m \in Masters, MasterNext(m)
  PROVE  FifoStep
<1>0. /\ Inv /\ HeldInv
      /\ cur_work \in [Procs -> Work \cup {NULL}] /\ m \in Procs
      /\ qdepth \in 0 .. MaxQDepth /\ MaxQDepth \in Nat
      /\ made \in 0 .. MaxWork /\ MaxWork \in Nat
  BY SizeAssumption DEF FifoInv, Inv, TInv, TypeOK, Procs
<1>1. CASE UNCHANGED <<ringVars, cur_work, workVars>>
  BY <1>1, FifoStutter
<1>2. CASE tq_check_init(m) \/ tq_wait_for_pause(m) \/ tq_wait_for_completion(m)
           \/ tq_wait_for_flags(m) \/ tq_next_thread_status(m)
           \/ tq_set_flags(m) \/ tq_unset_flags(m) \/ JoinThread(m) \/ tq_close(m)
  BY <1>1, <1>2 DEF tq_check_init, tq_wait_for_pause, tq_wait_for_completion, tq_wait_for_flags,
       tq_next_thread_status, tq_set_flags, tq_unset_flags, JoinThread, tq_close, threadVars
<1>3. CASE tq_dequeue(m)
  <2>1. /\ UNCHANGED <<cur_work, made>>
        /\ \/ UNCHANGED <<ringVars, done>>
           \/ /\ qdepth > 0 /\ TakeHead /\ UNCHANGED workpkg
              /\ done' = done \cup {workpkg[head]}
    BY <1>3 DEF tq_dequeue, threadVars
  <2>2. CASE UNCHANGED <<ringVars, done>>
    BY <1>1, <2>1, <2>2 DEF workVars
  <2>3. CASE /\ qdepth > 0 /\ TakeHead /\ UNCHANGED workpkg
             /\ done' = done \cup {workpkg[head]}
    <3>1. Queue' = Tail(Queue) /\ Head(Queue) = workpkg[head] /\ Queue # << >>
      BY <1>0, <2>3, QueueTake
    <3>2. Fifo!TakeAndFinish
      BY <2>1, <2>3, <3>1 DEF Fifo!TakeAndFinish
    <3> QED BY <3>2 DEF FifoStep, Fifo!Next
  <2> QED BY <2>1, <2>2, <2>3
<1>4. CASE tq_enqueue(m)
  <2> DEFINE Waits(w) == cur_work' = [cur_work EXCEPT ![m] = w] /\ UNCHANGED <<ringVars, done>>
             Fails(w) == /\ done' = done \cup {w}
                         /\ cur_work' = [cur_work EXCEPT ![m] = NULL]
                         /\ UNCHANGED ringVars
             Puts(w)  == /\ qdepth < MaxQDepth /\ PutTail(w)
                         /\ cur_work' = [cur_work EXCEPT ![m] = NULL]
                         /\ UNCHANGED done
  <2>1. CASE mpc[m] = "tq_enqueue"
    <3>1. cur_work[m] \in Work /\ cur_work[m] # NULL
      BY <1>0, <2>1 DEF HeldInv
    <3>2. made' = made /\ (Waits(cur_work[m]) \/ Fails(cur_work[m]) \/ Puts(cur_work[m]))
      BY <1>0, <1>4, <2>1 DEF tq_enqueue
    <3>3. CASE Waits(cur_work[m])
      <4>1. cur_work' = cur_work
        BY <1>0, <3>3
      <4> QED BY <1>1, <3>2, <3>3, <4>1 DEF workVars
    <3>4. CASE Fails(cur_work[m])
      BY <1>0, <3>1, <3>2, <3>4, FifoFinish
    <3>5. CASE Puts(cur_work[m])
      BY <1>0, <3>1, <3>2, <3>5, FifoPut DEF workVars
    <3> QED BY <3>2, <3>3, <3>4, <3>5
  <2>2. CASE mpc[m] # "tq_enqueue"
    <3>1. cur_work[m] = NULL
      BY <1>0, <2>2 DEF HeldInv
    <3>2. /\ made' = made + 1 /\ made < MaxWork
          /\ Waits(made + 1) \/ Fails(made + 1) \/ Puts(made + 1)
      BY <1>0, <1>4, <2>2 DEF tq_enqueue, Again
    <3>3. CASE Waits(made + 1)
      BY <1>0, <3>1, <3>2, <3>3, FifoMake
    <3>4. CASE Fails(made + 1)
      <4>1. cur_work' = cur_work
        BY <1>0, <3>1, <3>4
      <4>2. Fifo!MakeAndFinish
        BY <3>2, <3>4, <4>1, QueueSame DEF Fifo!MakeAndFinish
      <4> QED BY <4>2 DEF FifoStep, Fifo!Next
    <3>5. CASE Puts(made + 1)
      <4>1. cur_work' = cur_work
        BY <1>0, <3>1, <3>5
      <4>2. made + 1 \in Work
        BY <1>0, <3>2 DEF Work
      <4>3. Queue' = Append(Queue, made + 1) /\ Len(Queue) < MaxQDepth
        BY <1>0, <3>5, <4>2, QueuePut
      <4>4. Fifo!MakeAndPut
        BY <3>2, <3>5, <4>1, <4>3 DEF Fifo!MakeAndPut
      <4> QED BY <4>4 DEF FifoStep, Fifo!Next
    <3> QED BY <3>2, <3>3, <3>4, <3>5
  <2> QED BY <2>1, <2>2
<1> QED BY <1>2, <1>3, <1>4 DEF MasterNext

-----------------------------------------------------------------------------
\* Who holds a package.
LEMMA HoldThread ==
  ASSUME FifoInv, NEW t \in Threads, ThreadNext(t)
  PROVE  HoldInv'
<1>0. /\ HoldInv /\ pc \in [Threads -> ThreadPCs]
      /\ cur_work \in [Procs -> Work \cup {NULL}] /\ t \in Procs
  BY DEF FifoInv, Inv, TInv, TypeOK, Procs
<1>1. UNCHANGED role
  BY DEF ThreadNext, ThreadInit, ThreadResume, ThreadPause, ConsumerPause, ConsumerQuit,
     ConsumerTake, ConsumerWork, ProducerInitPause, ProducerStart, ProducerWork,
     ProducerPause, ProducerAbort, ProducerPut, ThreadExit, lifeVars
<1>2. \A u \in Threads \ {t} : pc'[u] = pc[u] /\ cur_work'[u] = cur_work[u]
  <2>1. \E x : pc' = [pc EXCEPT ![t] = x]
    <3>1. CASE ConsumerWork(t) \/ ProducerWork(t)
      BY <3>1 DEF ConsumerWork, ProducerWork, PostWork
    <3>2. CASE \/ ThreadInit(t) \/ ThreadResume(t, "initwait", "initloop")
               \/ ThreadResume(t, "wait", "loop")
      BY <3>2 DEF ThreadInit, ThreadResume
    <3>3. CASE ConsumerPause(t) \/ ProducerInitPause(t) \/ ProducerPause(t)
      <4>1. pc' = pc \/ \E x : pc' = [pc EXCEPT ![t] = x]
        BY <3>3 DEF ThreadPause, ConsumerPause, ProducerInitPause, ProducerPause
      <4>2. pc = [pc EXCEPT ![t] = pc[t]]
        BY <1>0
      <4> QED BY <4>1, <4>2
    <3>4. CASE ConsumerQuit(t) \/ ProducerAbort(t) \/ ProducerPut(t)
      BY <3>4 DEF ConsumerQuit, ProducerAbort, ProducerPut, ThreadTerm
    <3>5. CASE ConsumerTake(t) \/ ProducerStart(t) \/ ThreadExit(t)
      BY <3>5 DEF ConsumerTake, ProducerStart, ThreadExit
    <3> QED BY <3>1, <3>2, <3>3, <3>4, <3>5 DEF ThreadNext
  <2>2. cur_work' = cur_work \/ \E w : cur_work' = [cur_work EXCEPT ![t] = w]
    BY DEF ThreadNext, ThreadInit, ThreadResume, ThreadPause, ConsumerPause, ConsumerQuit,
     ConsumerTake, ConsumerWork, ProducerInitPause, ProducerStart, ProducerWork,
     ProducerPause, ProducerAbort, ProducerPut, ThreadExit
  <2> QED BY <1>0, <2>1, <2>2 DEF Procs
<1>3. cur_work'[t] # NULL =>
        \/ role[t] = "prod" /\ pc'[t] \in {"loop", "wait", "term"}
        \/ role[t] = "cons" /\ pc'[t] = "work"
  <2>1. CASE ThreadInit(t)
    BY <1>0, <2>1 DEF ThreadInit, HoldInv
  <2>2. CASE ThreadResume(t, "initwait", "initloop") \/ ThreadResume(t, "wait", "loop")
    BY <1>0, <2>2 DEF ThreadResume, HoldInv
  <2>3. CASE ConsumerPause(t) \/ ProducerInitPause(t) \/ ProducerPause(t)
    BY <1>0, <2>3 DEF ThreadPause, ConsumerPause, ProducerInitPause, ProducerPause, HoldInv
  <2>4. CASE ConsumerQuit(t) \/ ProducerAbort(t)
    BY <1>0, <2>4 DEF ConsumerQuit, ProducerAbort, ThreadTerm, HoldInv
  <2>5. CASE ConsumerTake(t) \/ ProducerStart(t)
    BY <1>0, <2>5 DEF ConsumerTake, ProducerStart, HoldInv
  <2>6. CASE ConsumerWork(t) \/ ProducerPut(t) \/ ThreadExit(t)
    BY <1>0, <2>6 DEF ConsumerWork, ProducerPut, ThreadExit
  <2>7. CASE ProducerWork(t)
    BY <1>0, <2>7 DEF ProducerWork, PostWork
  <2> QED BY <2>1, <2>2, <2>3, <2>4, <2>5, <2>6, <2>7 DEF ThreadNext
<1> QED BY <1>0, <1>1, <1>2, <1>3 DEF HoldInv, Procs

LEMMA HoldMaster ==
  ASSUME FifoInv, NEW m \in Masters, MasterNext(m)
  PROVE  HoldInv'
<1>0. HoldInv /\ cur_work \in [Procs -> Work \cup {NULL}] /\ m \notin Threads
  BY ProcessAssumption DEF FifoInv, Inv, TInv, TypeOK, Procs
<1>1. UNCHANGED <<pc, role>>
  BY DEF MasterNext, tq_check_init, tq_enqueue, tq_dequeue, tq_set_flags, tq_unset_flags,
     tq_wait_for_pause, tq_wait_for_completion, tq_wait_for_flags, tq_next_thread_status,
     JoinThread, tq_close, threadVars, lifeVars
<1>2. cur_work' = cur_work \/ \E w : cur_work' = [cur_work EXCEPT ![m] = w]
  BY DEF MasterNext, tq_check_init, tq_enqueue, tq_dequeue, tq_set_flags, tq_unset_flags,
     tq_wait_for_pause, tq_wait_for_completion, tq_wait_for_flags, tq_next_thread_status,
     JoinThread, tq_close, threadVars
<1> QED BY <1>0, <1>1, <1>2 DEF HoldInv, Procs

LEMMA HoldCreate ==
  ASSUME FifoInv, CreateNext
  PROVE  HoldInv'
<1>0. HoldInv /\ UnbornInv /\ pc \in [Threads -> ThreadPCs] /\ role \in [Threads -> Pools \cup {"none"}]
  BY DEF FifoInv, Inv, TInv, TypeOK
<1>1. CASE CreateThread
  <2>1. /\ newtID \in Threads
        /\ cur_work' = cur_work
        /\ pc' = [pc EXCEPT ![newtID] = "init"]
        /\ \E r : role' = [role EXCEPT ![newtID] = r]
    <3>1. newtID \in Threads
      BY <1>1, SizeAssumption DEF CreateThread, FifoInv, Inv, TInv, TypeOK, Threads, NumThreads
    <3> QED BY <1>1, <3>1 DEF CreateThread
  <2>2. pc[newtID] = "unborn"
    BY <1>0, <1>1, <2>1 DEF CreateThread, UnbornInv, Threads
  <2>3. cur_work[newtID] = NULL
    BY <1>0, <2>1, <2>2 DEF HoldInv
  <2> QED BY <1>0, <2>1, <2>3 DEF HoldInv
<1>2. CASE ~CreateThread
  BY <1>0, <1>2
     DEF CreateNext, CreateProducerFails, CreateConsumerFails, InitReturns, InitAborts,
         threadVars, HoldInv
<1> QED BY <1>1, <1>2

-----------------------------------------------------------------------------
FifoPauseInv == Inv /\ PauseInv /\ HoldInv

LEMMA FifoNext == FifoPauseInv /\ [Next]_vars => FifoPauseInv' /\ FifoStep
<1> SUFFICES ASSUME FifoPauseInv, [Next]_vars PROVE FifoPauseInv' /\ FifoStep
  OBVIOUS
<1>0. FifoInv /\ Inv' /\ PauseInv'
  BY InvNext, PauseInvNext DEF FifoPauseInv, FifoInv, PauseInv
<1>1. CASE CreateNext
  <2>1. UNCHANGED <<ringVars, cur_work, workVars>>
    BY <1>1 DEF CreateNext, CreateThread, CreateProducerFails, CreateConsumerFails, InitReturns,
         InitAborts, threadVars
  <2> QED BY <1>0, <1>1, <2>1, FifoStutter, HoldCreate DEF FifoPauseInv
<1>2. ASSUME NEW t \in Threads, ThreadNext(t) PROVE FifoPauseInv' /\ FifoStep
  BY <1>0, <1>2, FifoThread, HoldThread DEF FifoPauseInv
<1>3. ASSUME NEW m \in Masters, MasterNext(m) PROVE FifoPauseInv' /\ FifoStep
  BY <1>0, <1>3, FifoMaster, HoldMaster DEF FifoPauseInv
<1>4. CASE UNCHANGED <<ringVars, lifeVars, threadVars, workVars>>
  <2>1. UNCHANGED <<ringVars, cur_work, workVars, pc, role>>
    BY <1>4 DEF threadVars, lifeVars
  <2> QED BY <1>0, <2>1, FifoStutter DEF FifoPauseInv, FifoInv, HoldInv
<1>5. ASSUME NEW p \in Threads \cup Masters, SpuriousWake(p) PROVE FifoPauseInv' /\ FifoStep
  BY <1>4, <1>5 DEF SpuriousWake
<1>6. CASE UNCHANGED vars
  BY <1>4, <1>6 DEF vars
<1> QED BY <1>1, <1>2, <1>3, <1>5, <1>6 DEF Next

\* ThreadQueue implements WorkFifo: for any pools, masters, depth and client,
\* packages leave the ring in the order in which they entered it, each for
\* exactly one thread or caller, and the ring never exceeds max_qdepth.
THEOREM FifoCorrect == Spec => ImplementsFifo
<1>1. Init => FifoPauseInv
  BY InvInit, PauseInvInit DEF FifoPauseInv, PauseInv, Inv, TInv, HoldInv, Init
<1>2. Init => Fifo!Init
  BY SizeAssumption DEF Init, Fifo!Init, Queue
<1> QED BY <1>1, <1>2, FifoNext, PTL DEF Spec, ImplementsFifo, Fifo!Spec, FifoStep

-----------------------------------------------------------------------------
(***************************************************************************)
(* What becomes of the packages, and of the threads: no package is lost or *)
(* delivered twice, which is first proved of WorkFifo and carried over by  *)
(* the refinement; act_thrds counts the threads that are awake; a queue    *)
(* that is freed has been left by every thread and every package; and a    *)
(* queue that starts in order is finished when it says so.                 *)
(***************************************************************************)


-----------------------------------------------------------------------------
(* Each package is in one place of WorkFifo: with a process, in the queue, *)
(* or with the client.                                                     *)

Waiting(w) == \E i \in 1 .. Len(Queue) : Queue[i] = w
Held(w)    == \E p \in Procs : cur_work[p] = w

OnePlace ==
  /\ \A i \in 1 .. Len(Queue) : Queue[i] \in 1 .. made /\ Queue[i] \notin done
  /\ \A p \in Procs : cur_work[p] # NULL => cur_work[p] \in 1 .. made /\ cur_work[p] \notin done /\ ~Waiting(cur_work[p])
  /\ done \subseteq 1 .. made
  /\ \A i, j \in 1 .. Len(Queue) : Queue[i] = Queue[j] => i = j
  /\ \A p, r \in Procs : cur_work[p] = cur_work[r] /\ cur_work[p] # NULL => p = r
  /\ \A w \in 1 .. made : Waiting(w) \/ Held(w) \/ w \in done

\* what the steps of WorkFifo do to places
LEMMA OnePlaceMake ==
  ASSUME OnePlace, made \in Nat, NEW p \in Procs, cur_work \in [Procs -> Work \cup {NULL}], Fifo!Make(p)
  PROVE  OnePlace'
<1>1. /\ Queue' = Queue /\ done' = done /\ made' = made + 1 /\ cur_work[p] = NULL
      /\ \A r \in Procs : cur_work'[r] = IF r = p THEN made + 1 ELSE cur_work[r]
  BY DEF Fifo!Make
<1>2. \A w : Waiting(w)' = Waiting(w)
  BY <1>1 DEF Waiting
<1>3. ~Waiting(made + 1)
  BY DEF OnePlace, Waiting
<1>4. /\ \A w \in 1 .. made' : w \in 1 .. made \/ w = made + 1
      /\ made + 1 \notin 1 .. made /\ made + 1 \in 1 .. made' /\ 1 .. made \subseteq 1 .. made' /\ made + 1 # NULL
  BY <1>1
<1>5. \A w \in 1 .. made : Held(w) => Held(w)'
  BY <1>1 DEF Held
<1>6. \A w : w = made + 1 => Held(w)'
  BY <1>1 DEF Held
<1>7. (\A w \in 1 .. made : Waiting(w) \/ Held(w) \/ w \in done)'
  BY <1>1, <1>2, <1>4, <1>5, <1>6 DEF OnePlace
<1>8. (\A r \in Procs : cur_work[r] # NULL => cur_work[r] \in 1 .. made /\ cur_work[r] \notin done /\ ~Waiting(cur_work[r]))'
  <2> TAKE r \in Procs
  <2>1. CASE r = p
    BY <1>1, <1>2, <1>3, <1>4, <2>1 DEF OnePlace
  <2>2. CASE r # p
    BY <1>1, <1>2, <1>4, <2>2 DEF OnePlace
  <2> QED BY <2>1, <2>2
<1>9. (\A r, s \in Procs : cur_work[r] = cur_work[s] /\ cur_work[r] # NULL => r = s)'
  <2>1. \A r \in Procs : r # p => cur_work[r] # made + 1
    BY <1>4 DEF OnePlace
  <2> QED BY <1>1, <2>1 DEF OnePlace
<1> QED BY <1>1, <1>4, <1>7, <1>8, <1>9 DEF OnePlace

LEMMA OnePlaceFinish ==
  ASSUME OnePlace, NEW p \in Procs, cur_work \in [Procs -> Work \cup {NULL}], Fifo!Finish(p)
  PROVE  OnePlace'
<1>1. /\ Queue' = Queue /\ made' = made /\ done' = done \cup {cur_work[p]} /\ cur_work[p] # NULL
      /\ \A r \in Procs : cur_work'[r] = IF r = p THEN NULL ELSE cur_work[r]
  BY DEF Fifo!Finish
<1>2. \A w : Waiting(w)' = Waiting(w)
  BY <1>1 DEF Waiting
<1>3. \A w : Held(w) => Held(w)' \/ w = cur_work[p]
  BY <1>1 DEF Held
<1>4. \A i \in 1 .. Len(Queue) : Queue[i] # cur_work[p]
  BY <1>1 DEF OnePlace, Waiting
<1> QED BY <1>1, <1>2, <1>3, <1>4 DEF OnePlace

\* the queue with one more, and one less
LEMMA WaitingPut ==
  ASSUME QueueTyped, NEW w \in Work, Queue' = Append(Queue, w)
  PROVE  /\ Len(Queue') = Len(Queue) + 1 /\ Len(Queue) \in Nat
         /\ \A i \in 1 .. Len(Queue) : Queue'[i] = Queue[i]
         /\ Queue'[Len(Queue) + 1] = w
         /\ \A v : Waiting(v)' <=> Waiting(v) \/ v = w
<1>1. Queue \in Seq(Work)
  BY DEF QueueTyped
<1>2. /\ Len(Queue') = Len(Queue) + 1 /\ Len(Queue) \in Nat
      /\ \A i \in 1 .. Len(Queue) : Queue'[i] = Queue[i]
      /\ Queue'[Len(Queue) + 1] = w
  BY <1>1
<1>3. \A i \in 1 .. Len(Queue') : i \in 1 .. Len(Queue) \/ i = Len(Queue) + 1
  BY <1>2
<1>4. Len(Queue) + 1 \in 1 .. Len(Queue') /\ 1 .. Len(Queue) \subseteq 1 .. Len(Queue')
  BY <1>2
<1>5. \A v : Waiting(v)' => Waiting(v) \/ v = w
  BY <1>2, <1>3 DEF Waiting
<1>6. \A v : Waiting(v) \/ v = w => Waiting(v)'
  BY <1>2, <1>4 DEF Waiting
<1> QED BY <1>2, <1>5, <1>6

LEMMA WaitingTake ==
  ASSUME QueueTyped, Queue # << >>, Queue' = Tail(Queue)
  PROVE  /\ Len(Queue) \in Nat \ {0} /\ Len(Queue') = Len(Queue) - 1 /\ Head(Queue) = Queue[1]
         /\ \A i \in 1 .. Len(Queue') : Queue'[i] = Queue[i + 1] /\ i + 1 \in 1 .. Len(Queue)
         /\ \A v : Waiting(v) => Waiting(v)' \/ v = Queue[1]
         /\ \A v : Waiting(v)' => \E i \in 2 .. Len(Queue) : Queue[i] = v
<1>1. Queue \in Seq(Work)
  BY DEF QueueTyped
<1>2. Len(Queue) \in Nat \ {0} /\ Len(Queue') = Len(Queue) - 1 /\ Head(Queue) = Queue[1]
  BY <1>1
<1>3. \A i \in 1 .. Len(Queue') : Queue'[i] = Queue[i + 1] /\ i + 1 \in 1 .. Len(Queue)
  BY <1>1, <1>2
<1>4. \A i \in 1 .. Len(Queue) : i = 1 \/ (i - 1 \in 1 .. Len(Queue') /\ Queue[i] = Queue'[i - 1])
  BY <1>1, <1>2
<1>5. \A v : Waiting(v) => Waiting(v)' \/ v = Queue[1]
  BY <1>4 DEF Waiting
<1>6. \A v : Waiting(v)' => \E i \in 2 .. Len(Queue) : Queue[i] = v
  <2> TAKE v
  <2> HAVE Waiting(v)'
  <2>1. PICK i \in 1 .. Len(Queue') : Queue'[i] = v
    BY DEF Waiting
  <2>2. i + 1 \in 2 .. Len(Queue) /\ Queue[i + 1] = v
    BY <1>2, <1>3, <2>1
  <2> QED BY <2>2
<1> QED BY <1>2, <1>3, <1>5, <1>6

LEMMA OnePlacePut ==
  ASSUME OnePlace, QueueTyped, NEW p \in Procs, cur_work \in [Procs -> Work \cup {NULL}], Fifo!Put(p)
  PROVE  OnePlace'
<1>1. /\ Queue' = Append(Queue, cur_work[p]) /\ done' = done /\ made' = made /\ cur_work[p] # NULL
      /\ \A r \in Procs : cur_work'[r] = IF r = p THEN NULL ELSE cur_work[r]
  BY DEF Fifo!Put
<1>2. /\ Len(Queue') = Len(Queue) + 1 /\ Len(Queue) \in Nat
      /\ \A i \in 1 .. Len(Queue) : Queue'[i] = Queue[i]
      /\ Queue'[Len(Queue) + 1] = cur_work[p]
      /\ \A v : Waiting(v)' <=> Waiting(v) \/ v = cur_work[p]
  BY <1>1, WaitingPut
<1>3. \A i \in 1 .. Len(Queue') : i \in 1 .. Len(Queue) \/ i = Len(Queue) + 1
  BY <1>2
<1>4. (\A i \in 1 .. Len(Queue) : Queue[i] \in 1 .. made /\ Queue[i] \notin done)'
  BY <1>1, <1>2, <1>3 DEF OnePlace
<1>5. (\A r \in Procs : cur_work[r] # NULL => cur_work[r] \in 1 .. made /\ cur_work[r] \notin done /\ ~Waiting(cur_work[r]))'
  BY <1>1, <1>2 DEF OnePlace
<1>6. (\A i, j \in 1 .. Len(Queue) : Queue[i] = Queue[j] => i = j)'
  <2>1. \A i \in 1 .. Len(Queue) : Queue[i] # cur_work[p]
    BY <1>1 DEF OnePlace, Waiting
  <2> QED BY <1>2, <1>3, <2>1 DEF OnePlace
<1>7. (\A r, s \in Procs : cur_work[r] = cur_work[s] /\ cur_work[r] # NULL => r = s)'
  BY <1>1 DEF OnePlace
<1>8. (\A w \in 1 .. made : Waiting(w) \/ Held(w) \/ w \in done)'
  <2>1. \A w : Held(w) => Held(w)' \/ w = cur_work[p]
    BY <1>1 DEF Held
  <2> QED BY <1>1, <1>2, <2>1 DEF OnePlace
<1> QED BY <1>1, <1>4, <1>5, <1>6, <1>7, <1>8 DEF OnePlace

LEMMA OnePlaceTake ==
  ASSUME OnePlace, QueueTyped, NEW p \in Procs, cur_work \in [Procs -> Work \cup {NULL}], Fifo!Take(p)
  PROVE  OnePlace'
<1>1. /\ Queue # << >> /\ Queue' = Tail(Queue) /\ done' = done /\ made' = made /\ cur_work[p] = NULL
      /\ \A r \in Procs : cur_work'[r] = IF r = p THEN Head(Queue) ELSE cur_work[r]
  BY DEF Fifo!Take
<1>2. /\ Len(Queue) \in Nat \ {0} /\ Len(Queue') = Len(Queue) - 1 /\ Head(Queue) = Queue[1]
      /\ \A i \in 1 .. Len(Queue') : Queue'[i] = Queue[i + 1] /\ i + 1 \in 1 .. Len(Queue)
      /\ \A v : Waiting(v) => Waiting(v)' \/ v = Queue[1]
      /\ \A v : Waiting(v)' => \E i \in 2 .. Len(Queue) : Queue[i] = v
  BY <1>1, WaitingTake
<1>3. 1 \in 1 .. Len(Queue) /\ 2 .. Len(Queue) \subseteq 1 .. Len(Queue) /\ 1 \notin 2 .. Len(Queue)
  BY <1>2
<1>4. (\A i \in 1 .. Len(Queue) : Queue[i] \in 1 .. made /\ Queue[i] \notin done)'
  BY <1>1, <1>2 DEF OnePlace
<1>5. /\ Queue[1] \in 1 .. made /\ Queue[1] \notin done
      /\ \A v : v = Queue[1] => ~Waiting(v)'
  BY <1>2, <1>3 DEF OnePlace
<1>6. \A v : Waiting(v)' => Waiting(v)
  BY <1>2, <1>3 DEF Waiting
<1>7. (\A r \in Procs : cur_work[r] # NULL => cur_work[r] \in 1 .. made /\ cur_work[r] \notin done /\ ~Waiting(cur_work[r]))'
  BY <1>1, <1>2, <1>5, <1>6 DEF OnePlace
<1>8. (\A i, j \in 1 .. Len(Queue) : Queue[i] = Queue[j] => i = j)'
  <2> TAKE i, j \in 1 .. Len(Queue')
  <2>1. i + 1 \in 1 .. Len(Queue) /\ j + 1 \in 1 .. Len(Queue) /\ Queue'[i] = Queue[i + 1] /\ Queue'[j] = Queue[j + 1]
    BY <1>2
  <2>2. Queue[i + 1] = Queue[j + 1] => i + 1 = j + 1
    BY <2>1 DEF OnePlace
  <2> QED BY <2>1, <2>2
<1>9. (\A r, s \in Procs : cur_work[r] = cur_work[s] /\ cur_work[r] # NULL => r = s)'
  <2>1. \A r \in Procs : cur_work[r] # Queue[1] \/ cur_work[r] = NULL
    BY <1>3 DEF OnePlace, Waiting
  <2> QED BY <1>1, <1>2, <1>5, <2>1 DEF OnePlace
<1>10. (\A w \in 1 .. made : Waiting(w) \/ Held(w) \/ w \in done)'
  <2>1. \A w \in 1 .. made : Held(w) \/ w = Queue[1] => Held(w)'
    BY <1>1, <1>2 DEF Held
  <2> QED BY <1>1, <1>2, <2>1 DEF OnePlace
<1> QED BY <1>1, <1>4, <1>7, <1>8, <1>9, <1>10 DEF OnePlace

LEMMA OnePlaceCall ==
  ASSUME OnePlace, QueueTyped, made \in Nat, done \subseteq Work, MaxWork \in Nat,
         cur_work \in [Procs -> Work \cup {NULL}],
         Fifo!MakeAndPut \/ Fifo!MakeAndFinish \/ Fifo!TakeAndFinish
  PROVE  OnePlace'
<1>1. CASE Fifo!MakeAndPut
  <2>1. /\ made < MaxWork /\ Queue' = Append(Queue, made + 1) /\ done' = done /\ made' = made + 1
        /\ cur_work' = cur_work
    BY <1>1 DEF Fifo!MakeAndPut
  <2>2. made + 1 \in Work
    BY <2>1 DEF Work
  <2>3. /\ Len(Queue') = Len(Queue) + 1 /\ Len(Queue) \in Nat
        /\ \A i \in 1 .. Len(Queue) : Queue'[i] = Queue[i]
        /\ Queue'[Len(Queue) + 1] = made + 1
        /\ \A v : Waiting(v)' <=> Waiting(v) \/ v = made + 1
    BY <2>1, <2>2, WaitingPut
  <2>4. \A i \in 1 .. Len(Queue') : i \in 1 .. Len(Queue) \/ i = Len(Queue) + 1
    BY <2>3
  <2>5. /\ made + 1 \notin 1 .. made /\ made + 1 \in 1 .. made' /\ 1 .. made \subseteq 1 .. made'
        /\ \A w \in 1 .. made' : w \in 1 .. made \/ w = made + 1
    BY <2>1
  <2>6. \A w : Held(w)' = Held(w)
    BY <2>1 DEF Held
  <2>7. (\A i \in 1 .. Len(Queue) : Queue[i] \in 1 .. made /\ Queue[i] \notin done)'
    BY <2>1, <2>3, <2>4, <2>5 DEF OnePlace
  <2>8. (\A r \in Procs : cur_work[r] # NULL => cur_work[r] \in 1 .. made /\ cur_work[r] \notin done /\ ~Waiting(cur_work[r]))'
    BY <2>1, <2>3, <2>5 DEF OnePlace
  <2>9. (\A i, j \in 1 .. Len(Queue) : Queue[i] = Queue[j] => i = j)'
    <3>1. \A i \in 1 .. Len(Queue) : Queue[i] # made + 1
      BY <2>5 DEF OnePlace
    <3> QED BY <2>3, <2>4, <3>1 DEF OnePlace
  <2>10. (\A w \in 1 .. made : Waiting(w) \/ Held(w) \/ w \in done)'
    BY <2>1, <2>3, <2>5, <2>6 DEF OnePlace
  <2> QED BY <2>1, <2>5, <2>7, <2>8, <2>9, <2>10 DEF OnePlace
<1>2. CASE Fifo!MakeAndFinish
  <2>1. /\ Queue' = Queue /\ done' = done \cup {made + 1} /\ made' = made + 1 /\ cur_work' = cur_work
    BY <1>2 DEF Fifo!MakeAndFinish
  <2>2. \A w : Waiting(w)' = Waiting(w) /\ Held(w)' = Held(w)
    BY <2>1 DEF Waiting, Held
  <2>3. /\ made + 1 \notin 1 .. made /\ made + 1 \in 1 .. made' /\ 1 .. made \subseteq 1 .. made'
        /\ \A w \in 1 .. made' : w \in 1 .. made \/ w = made + 1
    BY <2>1
  <2> QED BY <2>1, <2>2, <2>3 DEF OnePlace
<1>3. CASE Fifo!TakeAndFinish
  <2>1. /\ Queue # << >> /\ Queue' = Tail(Queue) /\ done' = done \cup {Head(Queue)} /\ made' = made
        /\ cur_work' = cur_work
    BY <1>3 DEF Fifo!TakeAndFinish
  <2>2. /\ Len(Queue) \in Nat \ {0} /\ Len(Queue') = Len(Queue) - 1 /\ Head(Queue) = Queue[1]
        /\ \A i \in 1 .. Len(Queue') : Queue'[i] = Queue[i + 1] /\ i + 1 \in 1 .. Len(Queue)
        /\ \A v : Waiting(v) => Waiting(v)' \/ v = Queue[1]
        /\ \A v : Waiting(v)' => \E i \in 2 .. Len(Queue) : Queue[i] = v
    BY <2>1, WaitingTake
  <2>3. 1 \in 1 .. Len(Queue) /\ 2 .. Len(Queue) \subseteq 1 .. Len(Queue) /\ 1 \notin 2 .. Len(Queue)
    BY <2>2
  <2>4. \A w : Held(w)' = Held(w)
    BY <2>1 DEF Held
  <2>5. \A v : Waiting(v)' => Waiting(v) /\ v # Queue[1]
    BY <2>2, <2>3 DEF OnePlace, Waiting
  <2>6. (\A i \in 1 .. Len(Queue) : Queue[i] \in 1 .. made /\ Queue[i] \notin done)'
    <3> TAKE i \in 1 .. Len(Queue')
    <3>1. i + 1 \in 1 .. Len(Queue) /\ i + 1 # 1 /\ Queue'[i] = Queue[i + 1]
      BY <2>2
    <3> QED BY <2>1, <2>2, <2>3, <3>1 DEF OnePlace
  <2>7. (\A r \in Procs : cur_work[r] # NULL => cur_work[r] \in 1 .. made /\ cur_work[r] \notin done /\ ~Waiting(cur_work[r]))'
    BY <2>1, <2>2, <2>3, <2>5 DEF OnePlace, Waiting
  <2>8. (\A i, j \in 1 .. Len(Queue) : Queue[i] = Queue[j] => i = j)'
    <3> TAKE i, j \in 1 .. Len(Queue')
    <3>1. i + 1 \in 1 .. Len(Queue) /\ j + 1 \in 1 .. Len(Queue) /\ Queue'[i] = Queue[i + 1] /\ Queue'[j] = Queue[j + 1]
      BY <2>2
    <3>2. Queue[i + 1] = Queue[j + 1] => i + 1 = j + 1
      BY <3>1 DEF OnePlace
    <3> QED BY <3>1, <3>2
  <2>9. (\A w \in 1 .. made : Waiting(w) \/ Held(w) \/ w \in done)'
    BY <2>1, <2>2, <2>4 DEF OnePlace
  <2>10. (\A p, r \in Procs : cur_work[p] = cur_work[r] /\ cur_work[p] # NULL => p = r)'
    BY <2>1 DEF OnePlace
  <2>11. (done \subseteq 1 .. made)'
    <3>1. done \subseteq 1 .. made /\ Head(Queue) \in 1 .. made
      BY <2>2, <2>3 DEF OnePlace
    <3> QED BY <2>1, <3>1
  <2> QED BY <2>6, <2>7, <2>8, <2>9, <2>10, <2>11 DEF OnePlace
<1> QED BY <1>1, <1>2, <1>3

LEMMA OnePlaceStep ==
  ASSUME Inv, OnePlace, FifoStep
  PROVE  OnePlace'
<1>1. /\ QueueTyped /\ made \in Nat /\ done \subseteq Work /\ MaxWork \in Nat
      /\ cur_work \in [Procs -> Work \cup {NULL}]
  <2>1. /\ done \in SUBSET Work /\ made \in 0 .. MaxWork
        /\ cur_work \in [Procs -> Work \cup {NULL}]
    BY DEF Inv, TInv, TypeOK, Procs
  <2> QED BY <2>1, QueueType, SizeAssumption
<1>2. CASE UNCHANGED Fifo!fifoVars
  <2>1. UNCHANGED <<Queue, cur_work, made, done>>
    BY <1>2 DEF Fifo!fifoVars
  <2> QED BY <2>1 DEF OnePlace, Waiting, Held
<1>3. CASE Fifo!Next
  <2>1. CASE \E p \in Procs : Fifo!Make(p) \/ Fifo!Put(p) \/ Fifo!Take(p) \/ Fifo!Finish(p)
    BY <1>1, <2>1, OnePlaceMake, OnePlacePut, OnePlaceTake, OnePlaceFinish
  <2>2. CASE Fifo!MakeAndPut \/ Fifo!MakeAndFinish \/ Fifo!TakeAndFinish
    BY <1>1, <2>2, OnePlaceCall
  <2> QED BY <1>3, <2>1, <2>2 DEF Fifo!Next, Procs
<1> QED BY <1>2, <1>3 DEF FifoStep

\* From the queue back to the ring: its live slots are the places of the queue.
LEMMA LiveSlots ==
  ASSUME Inv
  PROVE  /\ \A i \in Live : \E j \in 1 .. Len(Queue) : i = Slot(head, j - 1) /\ Queue[j] = workpkg[i]
         /\ \A j \in 1 .. Len(Queue) : Slot(head, j - 1) \in Live /\ workpkg[Slot(head, j - 1)] = Queue[j]
<1>1. QueueTyped
  BY QueueType
<1>2. \A j \in 1 .. qdepth : Queue[j] = workpkg[Slot(head, j - 1)]
  BY DEF Queue
<1>3. \A i \in 0 .. (qdepth - 1) : i + 1 \in 1 .. qdepth /\ (i + 1) - 1 = i
  BY <1>1 DEF QueueTyped
<1>4. \A j \in 1 .. qdepth : j - 1 \in 0 .. (qdepth - 1)
  BY <1>1 DEF QueueTyped
<1> QED BY <1>1, <1>2, <1>3, <1>4 DEF QueueTyped, Live

LEMMA OnePlaceSuffices ==
  ASSUME Inv, OnePlace
  PROVE  NoWorkLostOrDuplicated
<1> SUFFICES ASSUME NEW w \in 1 .. made PROVE \E x \in Places(w) : Places(w) = {x}
  BY DEF NoWorkLostOrDuplicated
<1> DEFINE InRing == {<<"ring", i>> : i \in {i \in Live : workpkg[i] = w}}
           InHand == {<<"held", p>> : p \in {p \in Threads \cup Masters : cur_work[p] = w}}
<1>1. w # NULL
  OBVIOUS
<1>2. CASE Waiting(w)
  <2>1. PICK j \in 1 .. Len(Queue) : Queue[j] = w
    BY <1>2 DEF Waiting
  <2>2. Slot(head, j - 1) \in Live /\ workpkg[Slot(head, j - 1)] = w
    BY <2>1, LiveSlots
  <2>3. \A i \in Live : workpkg[i] = w => i = Slot(head, j - 1)
    BY <2>1, LiveSlots DEF OnePlace
  <2>4. InRing = {<<"ring", Slot(head, j - 1)>>}
    BY <2>2, <2>3
  <2>5. InHand = {} /\ w \notin done
    BY <1>1, <1>2, <2>1 DEF OnePlace, Procs
  <2> QED BY <2>4, <2>5 DEF Places
<1>3. CASE ~Waiting(w)
  <2>1. InRing = {}
    BY <1>3, LiveSlots DEF Waiting
  <2>2. CASE Held(w)
    <3>1. PICK p \in Procs : cur_work[p] = w
      BY <2>2 DEF Held
    <3>2. InHand = {<<"held", p>>}
      BY <1>1, <3>1 DEF OnePlace, Procs
    <3>3. w \notin done
      BY <1>1, <3>1 DEF OnePlace
    <3> QED BY <2>1, <3>2, <3>3 DEF Places
  <2>3. CASE ~Held(w)
    <3>1. InHand = {}
      BY <2>3 DEF Held, Procs
    <3>2. w \in done
      BY <1>3, <2>3 DEF OnePlace
    <3> QED BY <2>1, <3>1, <3>2 DEF Places
  <2> QED BY <2>2, <2>3
<1> QED BY <1>2, <1>3

OnePlaceInv == FifoPauseInv /\ OnePlace

LEMMA OnePlaceInit == Init => OnePlaceInv
<1> SUFFICES ASSUME Init PROVE OnePlaceInv
  OBVIOUS
<1>1. FifoPauseInv
  BY InvInit, PauseInvInit DEF FifoPauseInv, PauseInv, Inv, TInv, HoldInv, Init
<1>2. qdepth = 0 /\ made = 0 /\ done = {} /\ \A p \in Procs : cur_work[p] = NULL
  BY DEF Init, Procs
<1>3. Len(Queue) = 0
  BY <1>1, <1>2, QueueType DEF FifoPauseInv, QueueTyped
<1> QED BY <1>1, <1>2, <1>3 DEF OnePlaceInv, OnePlace

LEMMA OnePlaceNext == OnePlaceInv /\ [Next]_vars => OnePlaceInv'
BY FifoNext, OnePlaceStep DEF OnePlaceInv, FifoPauseInv

-----------------------------------------------------------------------------
(* act_thrds counts the threads that are awake.  With every thread created *)
(* by the loop meant for it, its pool is told by its number, and the count *)
(* never wraps, for it counts some of the threads.                         *)

PoolOf(t) == IF t < NumProd THEN "prod" ELSE "cons"
Awake(p)  == {t \in Threads : (t < NumProd) = (p = "prod") /\ pc[t] \notin Parked}

RoleInv  == \A t \in Threads : pc[t] # "unborn" => role[t] = PoolOf(t)
CountsOf == \A p \in Pools : act_thrds[p] = Cardinality(Awake(p))
CountInv == ~createfail => RoleInv /\ CountsOf

LEMMA AwakeFinite ==
  ASSUME NEW p
  PROVE  /\ IsFiniteSet(Awake(p)) /\ Cardinality(Awake(p)) \in 0 .. NumThreads
         /\ IsFiniteSet(Awake(p)') /\ Cardinality(Awake(p)') \in 0 .. NumThreads
<1>1. NumThreads \in Nat \ {0}
  BY SizeAssumption DEF NumThreads
<1>2. IsFiniteSet(Threads) /\ Cardinality(Threads) = NumThreads
  BY <1>1, FS_Interval DEF Threads
<1>3. \A T \in SUBSET Threads : IsFiniteSet(T) /\ Cardinality(T) \in 0 .. NumThreads
  <2> TAKE T \in SUBSET Threads
  <2>1. IsFiniteSet(T) /\ Cardinality(T) <= NumThreads
    BY <1>2, FS_Subset
  <2>2. Cardinality(T) \in Nat
    BY <2>1, FS_CardinalityType
  <2> QED BY <1>1, <2>1, <2>2
<1>4. Awake(p) \in SUBSET Threads /\ Awake(p)' \in SUBSET Threads
  BY DEF Awake
<1> QED BY <1>3, <1>4

\* A thread that falls asleep or terminates leaves the count of its pool,
\* one that wakes up joins it, and the other pool keeps its own.
LEMMA AwakeLess ==
  ASSUME pc \in [Threads -> ThreadPCs], NEW t \in Threads, NEW x \in Parked,
         pc[t] \notin Parked, pc' = [pc EXCEPT ![t] = x]
  PROVE  \A p \in Pools : Awake(p)' = IF p = PoolOf(t) THEN Awake(p) \ {t} ELSE Awake(p)
BY DEF Awake, PoolOf, Pools

LEMMA AwakeMore ==
  ASSUME pc \in [Threads -> ThreadPCs], NEW t \in Threads, NEW x, x \notin Parked,
         pc[t] \in Parked, pc' = [pc EXCEPT ![t] = x]
  PROVE  \A p \in Pools : Awake(p)' = IF p = PoolOf(t) THEN Awake(p) \cup {t} ELSE Awake(p)
BY DEF Awake, PoolOf, Pools

LEMMA AwakeSame ==
  ASSUME pc \in [Threads -> ThreadPCs], NEW t \in Threads, NEW x, x \in Parked <=> pc[t] \in Parked,
         pc' = [pc EXCEPT ![t] = x]
  PROVE  \A p : Awake(p)' = Awake(p)
BY DEF Awake

\* What a step of thread t does to its place and to the counts.
CountEffect(t) ==
  \/ /\ act_thrds' = act_thrds
     /\ \E x : pc' = [pc EXCEPT ![t] = x] /\ (x \in Parked <=> pc[t] \in Parked)
  \/ /\ act_thrds' = [act_thrds EXCEPT ![role[t]] = Dec(@)]
     /\ pc[t] \notin Parked /\ \E x \in Parked : pc' = [pc EXCEPT ![t] = x]
  \/ /\ act_thrds' = [act_thrds EXCEPT ![role[t]] = Inc(@)]
     /\ pc[t] \in Parked /\ \E x : x \notin Parked /\ pc' = [pc EXCEPT ![t] = x]

LEMMA CountThreadEffect ==
  ASSUME Inv, NEW t \in Threads, ThreadNext(t)
  PROVE  CountEffect(t)
<1>0. pc \in [Threads -> ThreadPCs]
  BY DEF Inv, TInv, TypeOK
<1>1. CASE ThreadInit(t)
  BY <1>0, <1>1 DEF ThreadInit, CountEffect, Parked, threadVars
<1>2. CASE ThreadResume(t, "initwait", "initloop") \/ ThreadResume(t, "wait", "loop")
  BY <1>0, <1>2 DEF ThreadResume, CountEffect, Parked
<1>3. CASE ConsumerPause(t) \/ ProducerInitPause(t) \/ ProducerPause(t)
  <2>1. PICK from \in InLoop, to \in InWait : \E Nudge : ThreadPause(t, from, to, Nudge)
    BY <1>3 DEF ConsumerPause, ProducerInitPause, ProducerPause, InLoop, InWait
  <2>2. pc = [pc EXCEPT ![t] = pc[t]]
    BY <1>0
  <2> QED BY <1>0, <2>1, <2>2 DEF ThreadPause, CountEffect, Parked, InLoop, InWait
<1>4. CASE ConsumerQuit(t) \/ ProducerAbort(t)
  BY <1>0, <1>4 DEF ConsumerQuit, ProducerAbort, ThreadTerm, CountEffect, Parked
<1>5. CASE ConsumerTake(t) \/ ProducerStart(t)
  BY <1>0, <1>5 DEF ConsumerTake, ProducerStart, CountEffect, Parked
<1>6. CASE ConsumerWork(t) \/ ProducerWork(t)
  BY <1>0, <1>6 DEF ConsumerWork, ProducerWork, PostWork, CountEffect, Parked
<1>7. CASE ProducerPut(t)
  BY <1>0, <1>7 DEF ProducerPut, ThreadTerm, CountEffect, Parked
<1>8. CASE ThreadExit(t)
  BY <1>0, <1>8 DEF ThreadExit, CountEffect, Parked
<1> QED
  BY <1>1, <1>2, <1>3, <1>4, <1>5, <1>6, <1>7, <1>8 DEF ThreadNext

LEMMA CountThread ==
  ASSUME Inv, PauseInv, CountInv, NEW t \in Threads, ThreadNext(t)
  PROVE  CountInv'
<1>1. ThreadEffect(t) /\ CountEffect(t)
  BY EffectThread, CountThreadEffect
<1>2. /\ UNCHANGED <<createfail, role>> /\ pc[t] # "unborn"
      /\ pc \in [Threads -> ThreadPCs] /\ act_thrds \in [Pools -> 0 .. (UintMod - 1)]
  BY <1>1 DEF ThreadEffect, lifeVars, Inv, TInv, TypeOK
<1> SUFFICES ASSUME ~createfail PROVE RoleInv' /\ CountsOf'
  BY <1>2 DEF CountInv
<1>3. RoleInv /\ CountsOf /\ role[t] = PoolOf(t) /\ PoolOf(t) \in Pools
  BY <1>2 DEF CountInv, RoleInv, PoolOf, Pools
<1>4. RoleInv'
  <2>1. \A u \in Threads : pc'[u] # "unborn" => pc[u] # "unborn"
    BY <1>1, <1>2 DEF ThreadEffect
  <2> QED BY <1>2, <1>3, <2>1 DEF RoleInv
<1>5. \A p \in Pools : act_thrds'[p] = Cardinality(Awake(p)')
  <2>1. CASE act_thrds' = act_thrds /\ \E x : pc' = [pc EXCEPT ![t] = x] /\ (x \in Parked <=> pc[t] \in Parked)
    <3>1. \A p : Awake(p)' = Awake(p)
      BY <1>2, <2>1, AwakeSame
    <3> QED BY <1>3, <2>1, <3>1 DEF CountsOf
  <2>2. CASE /\ act_thrds' = [act_thrds EXCEPT ![role[t]] = Dec(@)]
             /\ pc[t] \notin Parked /\ \E x \in Parked : pc' = [pc EXCEPT ![t] = x]
    <3> TAKE p \in Pools
    <3>1. Awake(p)' = IF p = PoolOf(t) THEN Awake(p) \ {t} ELSE Awake(p)
      BY <1>2, <2>2, AwakeLess
    <3>2. CASE p = PoolOf(t)
      <4>1. t \in Awake(p)
        BY <2>2, <3>2 DEF Awake, PoolOf, Pools
      <4>2. Cardinality(Awake(p)') = Cardinality(Awake(p)) - 1 /\ Cardinality(Awake(p)) # 0
        <5>1. /\ IsFiniteSet(Awake(p)) /\ Cardinality(Awake(p)) \in 0 .. NumThreads
              /\ Cardinality(Awake(p)') \in 0 .. NumThreads
          BY AwakeFinite
        <5>2. Cardinality(Awake(p)') = Cardinality(Awake(p)) - 1
          BY <3>1, <3>2, <4>1, <5>1, FS_RemoveElement
        <5> QED BY <5>1, <5>2, SizeAssumption DEF NumThreads
      <4>3. act_thrds'[p] = Dec(act_thrds[p]) /\ act_thrds[p] = Cardinality(Awake(p))
        BY <1>2, <1>3, <2>2, <3>2 DEF CountsOf
      <4> QED BY <4>2, <4>3 DEF Dec
    <3>3. CASE p # PoolOf(t)
      BY <1>2, <1>3, <2>2, <3>1, <3>3 DEF CountsOf
    <3> QED BY <3>2, <3>3
  <2>3. CASE /\ act_thrds' = [act_thrds EXCEPT ![role[t]] = Inc(@)]
             /\ pc[t] \in Parked /\ \E x : x \notin Parked /\ pc' = [pc EXCEPT ![t] = x]
    <3> TAKE p \in Pools
    <3>1. Awake(p)' = IF p = PoolOf(t) THEN Awake(p) \cup {t} ELSE Awake(p)
      BY <1>2, <2>3, AwakeMore
    <3>2. CASE p = PoolOf(t)
      <4>1. t \notin Awake(p)
        BY <2>3 DEF Awake
      <4>2. Cardinality(Awake(p)') = Cardinality(Awake(p)) + 1 /\ Cardinality(Awake(p)) # UintMod - 1
        <5>1. /\ IsFiniteSet(Awake(p)) /\ Cardinality(Awake(p)) \in 0 .. NumThreads
              /\ Cardinality(Awake(p)') \in 0 .. NumThreads
          BY AwakeFinite
        <5>2. Cardinality(Awake(p)') = Cardinality(Awake(p)) + 1
          BY <3>1, <3>2, <4>1, <5>1, FS_AddElement
        <5> QED BY <5>1, <5>2, SizeAssumption DEF NumThreads
      <4>3. act_thrds'[p] = Inc(act_thrds[p]) /\ act_thrds[p] = Cardinality(Awake(p))
        BY <1>2, <1>3, <2>3, <3>2 DEF CountsOf
      <4> QED BY <4>2, <4>3 DEF Inc
    <3>3. CASE p # PoolOf(t)
      BY <1>2, <1>3, <2>3, <3>1, <3>3 DEF CountsOf
    <3> QED BY <3>2, <3>3
  <2> QED BY <1>1, <2>1, <2>2, <2>3 DEF CountEffect
<1> QED BY <1>4, <1>5 DEF CountsOf

LEMMA CountCreate ==
  ASSUME Inv, PauseInv, CountInv, CreateNext
  PROVE  CountInv'
<1>0. /\ UnbornInv /\ pc \in [Threads -> ThreadPCs] /\ role \in [Threads -> Pools \cup {"none"}]
      /\ newtID \in 0 .. NumThreads /\ createfail \in BOOLEAN
  BY DEF PauseInv, Inv, TInv, TypeOK
<1>1. CASE CreateThread
  <2>1. /\ newtID \in Threads /\ UNCHANGED <<createfail, act_thrds>>
        /\ pc' = [pc EXCEPT ![newtID] = "init"]
        /\ ~createfail => role' = [role EXCEPT ![newtID] = PoolOf(newtID)]
    <3>1. newtID \in Threads
      BY <1>0, <1>1, SizeAssumption DEF CreateThread, Threads, NumThreads
    <3>2. ~createfail => role' = [role EXCEPT ![newtID] = PoolOf(newtID)]
      BY <1>1 DEF CreateThread, PoolOf
    <3> QED BY <1>1, <3>1, <3>2 DEF CreateThread
  <2>2. pc[newtID] = "unborn"
    BY <1>0, <1>1, <2>1 DEF CreateThread, UnbornInv, Threads
  <2>3. \A p : Awake(p)' = Awake(p)
    BY <1>0, <2>1, <2>2, AwakeSame DEF Parked
  <2>4. ~createfail /\ RoleInv => RoleInv'
    BY <1>0, <2>1 DEF RoleInv, PoolOf
  <2>5. CountsOf => CountsOf'
    BY <2>1, <2>3 DEF CountsOf
  <2> QED BY <2>1, <2>4, <2>5 DEF CountInv
<1>2. CASE ~CreateThread
  <2>1. UNCHANGED <<pc, role, act_thrds>> /\ (~createfail' => ~createfail)
    BY <1>0, <1>2 DEF CreateNext, CreateProducerFails, CreateConsumerFails, InitReturns, InitAborts,
        threadVars
  <2> QED BY <2>1 DEF CountInv, RoleInv, CountsOf, Awake
<1> QED BY <1>1, <1>2

LEMMA CountInit == Init => CountInv
<1> SUFFICES ASSUME Init PROVE RoleInv /\ CountsOf
  BY DEF CountInv
<1>1. NumProd \in Nat /\ NumCons \in Nat /\ pc = [t \in Threads |-> "unborn"] /\ act_thrds = NumThrds
  BY SizeAssumption DEF Init
<1>2. RoleInv
  BY <1>1 DEF RoleInv
<1>3. act_thrds["prod"] = Cardinality(Awake("prod"))
  <2>1. Awake("prod") = 0 .. (NumProd - 1)
    BY <1>1 DEF Awake, Parked, Threads, NumThreads
  <2>2. Cardinality(0 .. (NumProd - 1)) = NumProd
    BY <1>1, FS_Interval
  <2> QED BY <1>1, <2>1, <2>2 DEF NumThrds, Pools
<1>4. act_thrds["cons"] = Cardinality(Awake("cons"))
  <2>1. Awake("cons") = NumProd .. (NumThreads - 1)
    BY <1>1 DEF Awake, Parked, Threads, NumThreads
  <2>2. Cardinality(NumProd .. (NumThreads - 1)) = NumCons
    BY <1>1, FS_Interval DEF NumThreads
  <2> QED BY <1>1, <2>1, <2>2 DEF NumThrds, Pools
<1> QED BY <1>2, <1>3, <1>4 DEF CountsOf, Pools

LEMMA CountNext == Inv /\ PauseInv /\ CountInv /\ [Next]_vars => CountInv'
<1> SUFFICES ASSUME Inv, PauseInv, CountInv, [Next]_vars PROVE CountInv'
  OBVIOUS
<1>1. CASE CreateNext
  BY <1>1, CountCreate
<1>2. ASSUME NEW t \in Threads, ThreadNext(t) PROVE CountInv'
  BY <1>2, CountThread
<1>3. CASE UNCHANGED <<createfail, role, pc, act_thrds>>
  BY <1>3 DEF CountInv, RoleInv, CountsOf, Awake
<1>4. ASSUME NEW m \in Masters, MasterNext(m) PROVE CountInv'
  <2>1. UNCHANGED <<createfail, role, pc, act_thrds>>
    BY <1>4 DEF MasterNext, tq_check_init, tq_enqueue, tq_dequeue, tq_set_flags, tq_unset_flags,
       tq_wait_for_pause, tq_wait_for_completion, tq_wait_for_flags, tq_next_thread_status,
       JoinThread, tq_close, threadVars, lifeVars
  <2> QED BY <1>3, <2>1
<1>5. ASSUME NEW p \in Threads \cup Masters, SpuriousWake(p) PROVE CountInv'
  BY <1>3, <1>5 DEF SpuriousWake, lifeVars, threadVars
<1>6. CASE UNCHANGED vars
  BY <1>3, <1>6 DEF vars, lifeVars, threadVars
<1> QED BY <1>1, <1>2, <1>4, <1>5, <1>6 DEF Next

\* The unsigned counters by which an enqueue and a dequeue decide whom to
\* wake are exact in every interleaving, and never wrap around.
THEOREM CountsAreExact == Spec => []ActThrdsExact
<1>1. Init => Inv /\ PauseInv /\ CountInv
  BY InvInit, PauseInvInit, CountInit DEF PauseInv, Inv, TInv
<1>2. CountInv => ActThrdsExact
  BY DEF CountInv, CountsOf, ActThrdsExact, Awake
<1> QED BY <1>1, <1>2, InvNext, PauseInvNext, CountNext, PTL DEF Spec

-----------------------------------------------------------------------------
(* The end of the queue.  Threads are joined in the order of their numbers *)
(* by one master, or all of them by a failing tq_init(); when tq_close()   *)
(* frees the queue nothing is in it, and FINISHED or ABORT, which no one   *)
(* takes back, sends away a master that still sleeps in tq_enqueue().      *)

StartInv ==
  life \in {"creating", "aborting"} =>
    /\ uncoll_thrds = newtID
    /\ \A t \in Threads : t >= newtID => pc[t] = "unborn"
    /\ \A m \in Masters : mpc[m] = "idle"
    /\ life = "aborting" => createfail
Collected == \A t \in Threads : t < NumThreads - uncoll_thrds => Exited(t)
AllGone   == \A t \in Threads : Exited(t) \/ pc[t] = "unborn"
Collects(m) == mpc[m] \in {"tq_next_thread_status", "pthread_join"}
CollectAt   == \A m \in Masters : Collects(m) => life = "live" /\ midx[m] = NumThreads - uncoll_thrds
EnqueueInv  == \A m \in Masters : mpc[m] = "tq_enqueue" => mign[m] \subseteq {"HALT"}
ClosedInv   == life = "freed" /\ ~createfail => Ending /\ qdepth = 0

EndInv ==
  /\ StartInv /\ CollectAt /\ EnqueueInv /\ ClosedInv
  /\ life = "live" => Collected
  /\ life = "freed" => AllGone

LEMMA EndInit == Init => EndInv
BY DEF Init, EndInv, StartInv, CollectAt, Collects, EnqueueInv, ClosedInv, Threads

LEMMA EndCreate ==
  ASSUME Inv, PauseInv, EndInv, CreateNext
  PROVE  EndInv'
<1>0. /\ pc \in [Threads -> ThreadPCs] /\ newtID \in 0 .. NumThreads /\ uncoll_thrds \in 0 .. NumThreads
      /\ createfail \in BOOLEAN /\ NumThreads \in Nat
      /\ StartInv /\ CollectAt /\ EnqueueInv /\ ClosedInv
  BY SizeAssumption DEF Inv, TInv, TypeOK, EndInv, NumThreads
<1>1. /\ UNCHANGED <<mpc, midx, mign, qdepth>>
      /\ \A m \in Masters : mpc[m] = "idle"
      /\ life \in {"creating", "aborting"}
  BY <1>0 DEF CreateNext, CreateThread, CreateProducerFails, CreateConsumerFails, InitReturns,
         InitAborts, masterVars, ringVars, StartInv
<1>2. CollectAt' /\ EnqueueInv'
  BY <1>1 DEF CollectAt, EnqueueInv, Collects
<1>3. CASE CreateThread
  <2>1. /\ newtID \in Threads /\ newtID' = newtID + 1 /\ uncoll_thrds' = uncoll_thrds + 1
        /\ pc' = [pc EXCEPT ![newtID] = "init"] /\ life' = "creating"
    BY <1>0, <1>3 DEF CreateThread, Threads
  <2>2. \A t \in Threads : t >= newtID + 1 => t >= newtID /\ t # newtID
    BY <1>0 DEF Threads
  <2>3. StartInv'
    BY <1>0, <1>1, <2>1, <2>2 DEF StartInv
  <2> QED BY <1>2, <2>1, <2>3 DEF EndInv, ClosedInv
<1>4. CASE CreateProducerFails \/ CreateConsumerFails
  <2>1. /\ UNCHANGED <<uncoll_thrds, newtID, pc>> /\ life' \in {"creating", "aborting"} /\ createfail'
    BY <1>4 DEF CreateProducerFails, CreateConsumerFails, threadVars
  <2>2. StartInv'
    BY <1>0, <1>1, <2>1 DEF StartInv
  <2> QED BY <1>2, <2>1, <2>2 DEF EndInv, ClosedInv
<1>5. CASE InitReturns
  <2>1. /\ uncoll_thrds' = NumThreads /\ life' = "live"
    BY <1>0, <1>5 DEF InitReturns, StartInv
  <2>2. Collected'
    BY <1>0, <2>1 DEF Collected, Threads
  <2> QED BY <1>2, <2>1, <2>2 DEF EndInv, ClosedInv, StartInv
<1>6. CASE InitAborts
  <2>1. /\ life = "aborting" /\ life' = "freed" /\ UNCHANGED <<pc, createfail>>
        /\ \A t \in 0 .. (uncoll_thrds - 1) : Exited(t)
    BY <1>6 DEF InitAborts, threadVars
  <2>2. \A t \in Threads : t \in 0 .. (uncoll_thrds - 1) \/ t >= newtID
    BY <1>0, <2>1 DEF StartInv, Threads
  <2>3. AllGone'
    BY <1>0, <2>1, <2>2 DEF AllGone, Exited, StartInv
  <2> QED BY <1>0, <1>2, <2>1, <2>3 DEF EndInv, ClosedInv, StartInv
<1> QED BY <1>3, <1>4, <1>5, <1>6 DEF CreateNext

LEMMA EndThread ==
  ASSUME Inv, PauseInv, EndInv, NEW t \in Threads, ThreadNext(t)
  PROVE  EndInv'
<1>1. /\ UNCHANGED <<masterVars, lifeVars>> /\ \E x : pc' = [pc EXCEPT ![t] = x]
      /\ con_flags \subseteq con_flags' /\ pc[t] # "unborn"
  BY EffectThread DEF ThreadEffect
<1>2. ~Exited(t)
  BY DEF Exited, ThreadNext, ThreadInit, ThreadResume, ThreadPause, ConsumerPause, ConsumerQuit,
     ConsumerTake, ConsumerWork, ProducerInitPause, ProducerStart, ProducerWork,
     ProducerPause, ProducerAbort, ProducerPut, ThreadExit
<1>3. /\ pc \in [Threads -> ThreadPCs]
      /\ UNCHANGED <<mpc, midx, mign, uncoll_thrds, life, newtID, createfail>>
  BY <1>1 DEF masterVars, lifeVars, Inv, TInv, TypeOK
<1>4. \A u \in Threads : u # t => pc'[u] = pc[u]
  BY <1>1, <1>3
<1>5. life # "freed"
  BY <1>1, <1>2 DEF EndInv, AllGone
<1>6. StartInv'
  BY <1>1, <1>3, <1>4 DEF EndInv, StartInv
<1>7. life = "live" => Collected'
  BY <1>2, <1>3, <1>4 DEF EndInv, Collected, Exited
<1>8. CollectAt' /\ EnqueueInv' /\ ClosedInv'
  BY <1>3, <1>5 DEF EndInv, CollectAt, Collects, EnqueueInv, ClosedInv
<1> QED BY <1>3, <1>5, <1>6, <1>7, <1>8 DEF EndInv

\* What a call of master m changes of all that; only one master collects.
LEMMA EndOther ==
  ASSUME Inv, EndInv, NEW m \in Masters, mpc[m] # "idle" \/ life = "live",
         UNCHANGED <<pc, uncoll_thrds, life, newtID, createfail, qdepth>>,
         Ending => Ending',
         NEW x, NEW i, NEW g, x \notin {"tq_next_thread_status", "pthread_join"},
         x = "tq_enqueue" => g \subseteq {"HALT"},
         mpc' = [mpc EXCEPT ![m] = x], midx' = [midx EXCEPT ![m] = i], mign' = [mign EXCEPT ![m] = g]
  PROVE  EndInv'
<1>1. /\ mpc \in [Masters -> OpNames \cup {"idle", "pthread_join"}] /\ midx \in [Masters -> Threads]
      /\ mign \in [Masters -> SUBSET Flags]
  BY DEF Inv, TInv, TypeOK
<1>2. life \notin {"creating", "aborting"}
  BY DEF EndInv, StartInv
<1>3. StartInv' /\ ClosedInv' /\ (life = "live" => Collected') /\ (life = "freed" => AllGone')
  BY <1>2 DEF EndInv, StartInv, ClosedInv, Collected, AllGone, Exited
<1>4. CollectAt' /\ EnqueueInv'
  BY <1>1 DEF EndInv, CollectAt, Collects, EnqueueInv
<1> QED BY <1>3, <1>4 DEF EndInv

LEMMA EndWaiter ==
  ASSUME Inv, EndInv, NEW m \in Masters,
         tq_check_init(m) \/ tq_set_flags(m) \/ tq_unset_flags(m) \/ tq_wait_for_pause(m)
           \/ tq_wait_for_completion(m) \/ tq_wait_for_flags(m)
  PROVE  EndInv'
<1>1. /\ mpc[m] # "idle" \/ life = "live"
      /\ UNCHANGED <<pc, uncoll_thrds, life, newtID, createfail, qdepth>>
  BY DEF tq_check_init, tq_set_flags, tq_unset_flags, tq_wait_for_pause, tq_wait_for_completion,
     tq_wait_for_flags, Fresh, Again, lifeVars, threadVars, ringVars
<1>2. Ending => Ending'
  BY ClientAssumption
     DEF tq_check_init, tq_set_flags, tq_unset_flags, tq_wait_for_pause, tq_wait_for_completion,
         tq_wait_for_flags, flagVars, Ending, Has
<1>3. \E x, i, g : /\ x \in {"idle", "tq_check_init", "tq_wait_for_pause", "tq_wait_for_completion",
                             "tq_wait_for_flags"}
                   /\ mpc' = [mpc EXCEPT ![m] = x] /\ midx' = [midx EXCEPT ![m] = i]
                   /\ mign' = [mign EXCEPT ![m] = g]
  <2>1. CASE tq_check_init(m)
    <3>1. (\E r : Return(m, r)) \/ (\E k : Sleep(m, "tq_check_init", k, {}))
      BY <2>1 DEF tq_check_init
    <3> QED BY <3>1 DEF Return, Sleep
  <2>2. CASE tq_set_flags(m) \/ tq_unset_flags(m)
    BY <2>2 DEF tq_set_flags, tq_unset_flags, Return
  <2>3. CASE tq_wait_for_pause(m)
    BY <2>3 DEF tq_wait_for_pause, Return, Sleep
  <2>4. CASE tq_wait_for_completion(m)
    BY <2>4 DEF tq_wait_for_completion, Return, Sleep
  <2>5. CASE tq_wait_for_flags(m)
    BY <2>5 DEF tq_wait_for_flags, Return, Sleep
  <2> QED BY <2>1, <2>2, <2>3, <2>4, <2>5
<1> QED BY <1>1, <1>2, <1>3, EndOther

\* An enqueue into a freed queue fails, a dequeue from it finds nothing.
LEMMA EndQueue ==
  ASSUME Inv, EndInv, NEW m \in Masters, tq_enqueue(m) \/ tq_dequeue(m)
  PROVE  EndInv'
<1>0. /\ mpc[m] # "idle" \/ life = "live"
      /\ UNCHANGED <<pc, uncoll_thrds, life, newtID, createfail, con_flags>>
      /\ life \in {"live", "freed"}
  <2>1. /\ mpc[m] # "idle" \/ life = "live"
        /\ UNCHANGED <<pc, uncoll_thrds, life, newtID, createfail, con_flags>>
    BY DEF tq_enqueue, tq_dequeue, Fresh, Again, lifeVars, threadVars, flagVars
  <2> QED BY <2>1 DEF EndInv, StartInv, Inv, TInv, TypeOK
<1>1. \E x, i, g : /\ x \in {"idle", "tq_enqueue", "tq_dequeue"} /\ (x = "tq_enqueue" => g \subseteq {"HALT"})
                   /\ mpc' = [mpc EXCEPT ![m] = x] /\ midx' = [midx EXCEPT ![m] = i]
                   /\ mign' = [mign EXCEPT ![m] = g]
  <2>1. CASE tq_enqueue(m)
    <3>1. PICK ign \in IF mpc[m] = "tq_enqueue" THEN {mign[m]} ELSE {{}, {"HALT"}} :
            Sleep(m, "tq_enqueue", 0, ign) \/ Return(m, -1) \/ Return(m, 0)
      BY <2>1 DEF tq_enqueue
    <3>2. ign \subseteq {"HALT"}
      BY DEF EndInv, EnqueueInv
    <3> QED BY <3>1, <3>2 DEF Sleep, Return
  <2>2. CASE tq_dequeue(m)
    BY <2>2 DEF tq_dequeue, Sleep, Return
  <2> QED BY <2>1, <2>2
<1>2. CASE life = "live"
  \* only ClosedInv looks at qdepth
  <2>1. /\ mpc \in [Masters -> OpNames \cup {"idle", "pthread_join"}] /\ midx \in [Masters -> Threads]
        /\ mign \in [Masters -> SUBSET Flags]
    BY DEF Inv, TInv, TypeOK
  <2>2. StartInv' /\ ClosedInv' /\ Collected'
    BY <1>0, <1>2 DEF EndInv, StartInv, ClosedInv, Collected, Exited
  <2>3. CollectAt' /\ EnqueueInv'
    BY <1>0, <1>1, <2>1 DEF EndInv, CollectAt, Collects, EnqueueInv
  <2> QED BY <1>0, <1>2, <2>2, <2>3 DEF EndInv
<1>3. CASE life = "freed" /\ createfail
  <2>1. /\ mpc \in [Masters -> OpNames \cup {"idle", "pthread_join"}] /\ midx \in [Masters -> Threads]
        /\ mign \in [Masters -> SUBSET Flags]
    BY DEF Inv, TInv, TypeOK
  <2>2. StartInv' /\ ClosedInv' /\ AllGone'
    BY <1>0, <1>3 DEF EndInv, StartInv, ClosedInv, AllGone, Exited
  <2>3. CollectAt' /\ EnqueueInv'
    BY <1>0, <1>1, <2>1 DEF EndInv, CollectAt, Collects, EnqueueInv
  <2> QED BY <1>0, <1>3, <2>2, <2>3 DEF EndInv
<1>4. CASE life = "freed" /\ ~createfail
  <2>1. Ending /\ qdepth = 0
    BY <1>4 DEF EndInv, ClosedInv
  <2>2. UNCHANGED qdepth
    <3>1. CASE tq_enqueue(m)
      <4>1. mpc[m] = "tq_enqueue"
        BY <1>4, <3>1 DEF tq_enqueue, Fresh, Again
      <4>2. ~(con_flags \subseteq mign[m])
        BY <2>1, <4>1 DEF EndInv, EnqueueInv, Ending, Has
      <4> QED BY <3>1, <4>1, <4>2 DEF tq_enqueue, ringVars
    <3>2. CASE tq_dequeue(m)
      BY <2>1, <3>2 DEF tq_dequeue, ringVars
    <3> QED BY <3>1, <3>2
  <2>3. Ending => Ending'
    BY <1>0 DEF Ending, Has
  <2> QED BY <1>0, <1>1, <2>2, <2>3, EndOther
<1> QED BY <1>0, <1>2, <1>3, <1>4

LEMMA EndCollect ==
  ASSUME Inv, EndInv, NEW m \in Masters, tq_next_thread_status(m) \/ JoinThread(m) \/ tq_close(m)
  PROVE  EndInv'
<1>0. /\ mpc \in [Masters -> OpNames \cup {"idle", "pthread_join"}] /\ midx \in [Masters -> Threads]
      /\ mign \in [Masters -> SUBSET Flags]
      /\ uncoll_thrds \in 0 .. NumThreads /\ NumThreads \in Nat /\ pc \in [Threads -> ThreadPCs]
      /\ createfail \in BOOLEAN
      /\ life \in {"creating", "live", "aborting", "freed"}
      /\ StartInv /\ CollectAt /\ EnqueueInv /\ ClosedInv
  BY SizeAssumption DEF Inv, TInv, TypeOK, NumThreads, EndInv
\* no other master is in there
<1>1. \A n \in Masters : n # m /\ Collects(n) => ~Collects(m) /\ "tq_next_thread_status" \notin Ops[m]
  BY ClientAssumption DEF Inv, TInv, CollectInv, Collects
<1>2. CASE tq_next_thread_status(m)
  <2>1. /\ life = "live"
        /\ UNCHANGED <<pc, uncoll_thrds, life, newtID, createfail, qdepth, con_flags>>
    BY <1>0, <1>2 DEF tq_next_thread_status, Fresh, Again, CollectAt, Collects, lifeVars, threadVars,
       ringVars, flagVars
  <2>2. CASE \E r : Return(m, r)
    <3>1. Ending => Ending'
      BY <2>1 DEF Ending, Has
    <3>2. /\ mpc' = [mpc EXCEPT ![m] = "idle"] /\ midx' = [midx EXCEPT ![m] = 0]
          /\ mign' = [mign EXCEPT ![m] = {}]
      BY <2>2 DEF Return
    <3> QED BY <2>1, <3>1, <3>2, EndOther
  <2>3. CASE ~\E r : Return(m, r)
    <3>1. \E x \in {"tq_next_thread_status", "pthread_join"} :
            /\ mpc' = [mpc EXCEPT ![m] = x] /\ mign' = [mign EXCEPT ![m] = {}]
            /\ midx' = [midx EXCEPT ![m] = IF mpc[m] = "tq_next_thread_status" THEN midx[m]
                                            ELSE NumThreads - uncoll_thrds]
      BY <1>2, <2>3 DEF tq_next_thread_status, Sleep
    <3>2. midx'[m] = NumThreads - uncoll_thrds
      BY <1>0, <3>1 DEF CollectAt, Collects
    <3>3. CollectAt' /\ EnqueueInv'
      BY <1>0, <2>1, <3>1, <3>2 DEF CollectAt, Collects, EnqueueInv
    <3>4. StartInv' /\ ClosedInv' /\ Collected'
      BY <2>1 DEF EndInv, StartInv, ClosedInv, Collected, Exited
    <3> QED BY <2>1, <3>3, <3>4 DEF EndInv
  <2> QED BY <2>2, <2>3
<1>3. CASE JoinThread(m)
  <2>1. /\ Collects(m) /\ life = "live" /\ Exited(midx[m]) /\ midx[m] = NumThreads - uncoll_thrds
        /\ uncoll_thrds' = uncoll_thrds - 1
        /\ UNCHANGED <<pc, life, newtID, createfail, qdepth, con_flags>>
        /\ mpc' = [mpc EXCEPT ![m] = "idle"] /\ midx' = [midx EXCEPT ![m] = 0]
        /\ mign' = [mign EXCEPT ![m] = {}]
    BY <1>0, <1>3 DEF JoinThread, Return, CollectAt, Collects, threadVars, ringVars, flagVars
  <2>2. \A t \in Threads : t < NumThreads - (uncoll_thrds - 1) =>
          t < NumThreads - uncoll_thrds \/ t = NumThreads - uncoll_thrds
    BY <1>0 DEF Threads
  <2>3. Collected'
    BY <2>1, <2>2 DEF EndInv, Collected, Exited
  <2>4. CollectAt' /\ EnqueueInv'
    BY <1>0, <1>1, <2>1 DEF CollectAt, Collects, EnqueueInv
  <2>5. StartInv' /\ ClosedInv'
    BY <2>1 DEF StartInv, ClosedInv
  <2> QED BY <2>1, <2>3, <2>4, <2>5 DEF EndInv
<1>4. CASE tq_close(m)
  <2>1. /\ life = "live"
        /\ UNCHANGED <<pc, uncoll_thrds, newtID, createfail, qdepth, con_flags>>
        /\ mpc' = [mpc EXCEPT ![m] = "idle"] /\ midx' = [midx EXCEPT ![m] = 0]
        /\ mign' = [mign EXCEPT ![m] = {}]
        /\ life' = life \/ (life' = "freed" /\ ~NotClosable /\ qdepth = 0)
    BY <1>4 DEF tq_close, Fresh, Return, threadVars, ringVars, flagVars
  <2>2. CASE life' = life
    <3>1. Ending => Ending'
      BY <2>1 DEF Ending, Has
    <3> QED BY <2>1, <2>2, <3>1, EndOther
  <2>3. CASE life' = "freed" /\ ~NotClosable /\ qdepth = 0
    <3>1. uncoll_thrds = 0 /\ Ending
      BY <1>0, <2>3 DEF NotClosable, Ending
    <3>2. \A t \in Threads : t < NumThreads - uncoll_thrds
      BY <1>0, <3>1 DEF Threads
    <3>3. AllGone'
      BY <2>1, <3>2 DEF EndInv, Collected, AllGone, Exited
    <3>4. \A n \in Masters : ~Collects(n)
      BY <1>0, <3>1 DEF Inv, TInv, CollectInv, Collects
    <3>5. CollectAt' /\ EnqueueInv'
      BY <1>0, <2>1, <3>4 DEF CollectAt, Collects, EnqueueInv
    <3>6. StartInv' /\ ClosedInv'
      BY <2>1, <2>3, <3>1 DEF StartInv, ClosedInv, Ending, Has
    <3> QED BY <2>3, <3>3, <3>5, <3>6 DEF EndInv
  <2> QED BY <2>1, <2>2, <2>3
<1> QED BY <1>2, <1>3, <1>4

LEMMA EndNext == Inv /\ PauseInv /\ EndInv /\ [Next]_vars => EndInv'
<1> SUFFICES ASSUME Inv, PauseInv, EndInv, [Next]_vars PROVE EndInv'
  OBVIOUS
<1>1. CASE CreateNext
  BY <1>1, EndCreate
<1>2. ASSUME NEW t \in Threads, ThreadNext(t) PROVE EndInv'
  BY <1>2, EndThread
<1>3. ASSUME NEW m \in Masters, MasterNext(m) PROVE EndInv'
  BY <1>3, EndWaiter, EndQueue, EndCollect DEF MasterNext
<1>4. CASE UNCHANGED <<flagVars, ringVars, lifeVars, threadVars, masterVars>>
  BY <1>4 DEF EndInv, StartInv, CollectAt, Collects, EnqueueInv, ClosedInv, Collected, AllGone,
     Exited, Ending, Has, flagVars, ringVars, lifeVars, threadVars, masterVars
<1>5. ASSUME NEW p \in Threads \cup Masters, SpuriousWake(p) PROVE EndInv'
  BY <1>4, <1>5 DEF SpuriousWake
<1>6. CASE UNCHANGED vars
  BY <1>4, <1>6 DEF vars
<1> QED BY <1>1, <1>2, <1>3, <1>5, <1>6 DEF Next

LEMMA FreedQuiet ==
  ASSUME OnePlaceInv, EndInv
  PROVE  FreedIsQuiet
<1> SUFFICES ASSUME life = "freed" PROVE AllGone /\ (~createfail => done \cup ({cur_work[m] : m \in Masters} \ {NULL}) = 1 .. made)
  BY DEF FreedIsQuiet, AllGone
<1>1. AllGone
  BY DEF EndInv
<1>2. ASSUME ~createfail PROVE done \cup ({cur_work[m] : m \in Masters} \ {NULL}) = 1 .. made
  <2>1. QueueTyped /\ qdepth = 0
    BY <1>2, QueueType DEF EndInv, ClosedInv, OnePlaceInv, FifoPauseInv
  <2>2. \A w : ~Waiting(w)
    BY <2>1 DEF Waiting, QueueTyped
  <2>3. \A t \in Threads : cur_work[t] = NULL
    BY <1>1 DEF AllGone, Exited, OnePlaceInv, FifoPauseInv, HoldInv
  <2>4. \A w \in 1 .. made : w \in done \/ \E m \in Masters : cur_work[m] = w
    BY <2>2, <2>3 DEF OnePlaceInv, OnePlace, Held, Procs
  <2>5. \A m \in Masters : cur_work[m] # NULL => cur_work[m] \in 1 .. made
    BY DEF OnePlaceInv, OnePlace, Procs
  <2>6. done \subseteq 1 .. made
    BY DEF OnePlaceInv, OnePlace
  <2>7. \A w \in 1 .. made : w # NULL
    OBVIOUS
  <2> QED BY <2>4, <2>5, <2>6, <2>7
<1> QED BY <1>1, <1>2

\* No package is lost or delivered twice; and once the queue is freed no
\* thread runs, and every package is with the client again.
THEOREM WorkCorrect == Spec => []WorkIsSafe
<1>1. Init => OnePlaceInv /\ EndInv
  BY OnePlaceInit, EndInit
<1>2. OnePlaceInv /\ EndInv /\ [Next]_vars => (OnePlaceInv /\ EndInv)'
  BY OnePlaceNext, EndNext DEF OnePlaceInv, FifoPauseInv
<1>3. OnePlaceInv /\ EndInv => WorkIsSafe
  BY OnePlaceSuffices, FreedQuiet DEF OnePlaceInv, FifoPauseInv, WorkIsSafe
<1> QED BY <1>1, <1>2, <1>3, PTL DEF Spec

-----------------------------------------------------------------------------
(* That a queue is finished when it says so, and that its consumers stay   *)
(* until then.  Both hold only if FINISHED cannot be set before every      *)
(* producer has initialised: one that starts later drops out of all that   *)
(* consumers and masters look at.                                          *)

\* Nothing but tq_init() and the threads goes on before tq_check_init() has
\* succeeded, every thread is created, and one thread's result cannot end the
\* queue before another has begun.
OrderlyStart ==
  /\ CheckFirst /\ ~CreateMayFail /\ "FINISHED" \notin InitFlags
  /\ NumProd <= 1 \/ "HALT" \in InitFlags \/ 1 \notin ProdRes \cup ConsRes

Started(t) == pc[t] \notin {"unborn", "init"}
Over(t)    == pc[t] \in {"term", "exited"}
Prods      == {t \in Threads : t < NumProd}
Aborted    == Has("ABORT")

\* READY tells where a thread is; one that reported an error has set ABORT.
ReadyInv ==
  \A t \in Threads :
    /\ "READY" \in state_flags[t] <=> Started(t) /\ ~Over(t) /\ pc[t] # "failed"
    /\ "ERROR" \in state_flags[t] \/ pc[t] = "failed" => Aborted

\* What tq_check_init() has seen so far, and what follows once it is back.
CheckInv ==
  /\ checked /\ ~Aborted => \A t \in Threads : Started(t)
  /\ \A m \in Masters :
       /\ mpc[m] = "tq_check_init" => \A t \in Threads : t < midx[m] => Started(t)
       /\ mpc[m] \notin {"idle", "tq_check_init"} => checked

\* No FINISHED, and with a single producer no package, before the producers
\* are ready.
OrderInv ==
  /\ Has("FINISHED") /\ ~Aborted => \A t \in Prods : Started(t)
  /\ NumProd <= 1 /\ made > 0 /\ ~Aborted => \A t \in Prods : Started(t)
  /\ \A t \in Threads : role[t] = "cons" /\ pc[t] = "work" => made > 0
  /\ "HALT" \in InitFlags /\ ~checked /\ ~Aborted =>
       Has("HALT") /\ ~Has("FINISHED") /\ \A t \in Threads : pc[t] # "work"

\* The first consumer to leave finds the queue empty, and no one to fill it.
OutliveInv ==
  ~Aborted /\ (\E t \in Threads \ Prods : Over(t)) => Has("FINISHED") /\ qdepth = 0 /\ \A t \in Prods : Over(t)

\* What tq_wait_for_completion() has seen so far.
CompletionInv ==
  \A m \in Masters : mpc[m] = "tq_wait_for_completion" /\ ~Aborted => \A t \in Threads : t < midx[m] => Over(t)

FinishInv == ~createfail /\ ReadyInv /\ CheckInv /\ OrderInv /\ OutliveInv /\ CompletionInv
FinishBase == Inv /\ PauseInv /\ OnePlace /\ EndInv /\ RoleInv /\ OrderlyStart

-----------------------------------------------------------------------------
\* What a step of thread t changes of all that.
FinishEffect(t) ==
  /\ Started(t)' /\ pc[t] # "unborn"
  /\ \A u \in Threads : u # t => pc'[u] = pc[u] /\ state_flags'[u] = state_flags[u]
  /\ UNCHANGED <<createfail, role, mpc, midx, checked>>
  /\ "READY" \in state_flags'[t] <=> ~Over(t)' /\ pc'[t] # "failed"
  /\ "ERROR" \in state_flags'[t] \/ pc'[t] = "failed" => Aborted'
  /\ con_flags \subseteq con_flags'
  /\ Has("FINISHED")' => Has("FINISHED") \/ (pc[t] = "work" /\ 1 \in ProdRes \cup ConsRes)
  /\ made' >= made
  /\ made' > made => role[t] = "prod" /\ pc[t] = "work"
  /\ pc'[t] = "work" => /\ Has("HALT") => Has("FINISHED") \/ Aborted
                        /\ role[t] = "cons" => qdepth > 0
  /\ qdepth' <= qdepth \/ (role[t] = "prod" /\ ~Over(t))
  /\ Over(t) => Over(t)'
  /\ Over(t)' => \/ Over(t) \/ Aborted \/ role[t] = "prod"
                 \/ qdepth = 0 /\ Has("FINISHED") /\ tq_threads_terminated("prod")

LEMMA FinishThreadEffect ==
  ASSUME FinishBase, FinishInv, NEW t \in Threads, ThreadNext(t)
  PROVE  FinishEffect(t)
<1>0. /\ pc \in [Threads -> ThreadPCs]
      /\ state_flags \in [Threads -> SUBSET StateFlags]
      /\ con_flags \in SUBSET Flags
      /\ made \in Nat /\ qdepth \in Nat
      /\ "READY" \in state_flags[t] <=> Started(t) /\ ~Over(t) /\ pc[t] # "failed"
      /\ "ERROR" \in state_flags[t] \/ pc[t] = "failed" => Aborted
  BY SizeAssumption DEF FinishBase, Inv, TInv, TypeOK, FinishInv, ReadyInv
<1>e. ThreadEffect(t)
  BY EffectThread DEF FinishBase
<1>b. /\ \A u \in Threads : u # t => pc'[u] = pc[u] /\ state_flags'[u] = state_flags[u]
      /\ UNCHANGED <<createfail, role, mpc, midx, checked>>
      /\ con_flags \subseteq con_flags' /\ pc[t] # "unborn"
  BY <1>0, <1>e DEF ThreadEffect, masterVars, lifeVars
<1>1. CASE ThreadInit(t)
  <2>1. /\ pc[t] = "init" /\ UNCHANGED <<qdepth, made>>
        /\ Has("FINISHED")' => Has("FINISHED")
    BY <1>0, <1>1 DEF ThreadInit, ringVars, workVars, Has
  <2>2. /\ pc'[t] \in {"initloop", "loop", "failed"}
        /\ "READY" \in state_flags'[t] <=> pc'[t] # "failed"
        /\ "ERROR" \in state_flags'[t] \/ pc'[t] = "failed" => Aborted'
    BY <1>0, <1>1 DEF ThreadInit, Has, Aborted, Started, Over
  <2> QED BY <1>0, <1>b, <2>1, <2>2 DEF FinishEffect, Started, Over
<1>2. CASE ThreadResume(t, "initwait", "initloop") \/ ThreadResume(t, "wait", "loop")
  <2>1. PICK from \in InWait, to \in InLoop : ThreadResume(t, from, to)
    BY <1>2 DEF InWait, InLoop
  <2>2. /\ pc[t] \in InWait /\ pc'[t] \in InLoop /\ UNCHANGED <<qdepth, made>>
        /\ Has("FINISHED")' => Has("FINISHED")
        /\ "READY" \in state_flags'[t] <=> "READY" \in state_flags[t]
        /\ "ERROR" \in state_flags'[t] => "ERROR" \in state_flags[t] \/ Aborted'
    BY <1>0, <2>1 DEF ThreadResume, CallbackAborts, ringVars, flagVars, Has, Aborted
  <2> QED BY <1>0, <1>b, <2>2 DEF FinishEffect, Started, Over, InWait, InLoop, Has, Aborted
<1>3. CASE ConsumerPause(t) \/ ProducerInitPause(t) \/ ProducerPause(t)
  <2>1. PICK from \in InLoop, to \in InWait : \E Nudge : ThreadPause(t, from, to, Nudge)
    BY <1>3 DEF ConsumerPause, ProducerInitPause, ProducerPause, InLoop, InWait
  <2>2. /\ pc[t] \in InLoop /\ pc'[t] \in InLoop \cup InWait /\ UNCHANGED <<qdepth, made>>
        /\ Has("FINISHED")' => Has("FINISHED")
        /\ "READY" \in state_flags'[t] <=> "READY" \in state_flags[t]
        /\ "ERROR" \in state_flags'[t] => "ERROR" \in state_flags[t] \/ Aborted'
    BY <1>0, <2>1 DEF ThreadPause, CallbackAborts, ringVars, workVars, Has, Aborted
  <2> QED BY <1>0, <1>b, <2>2 DEF FinishEffect, Started, Over, InWait, InLoop, Has, Aborted
<1>4. CASE ConsumerQuit(t) \/ ProducerAbort(t)
  <2>1. /\ pc[t] = "loop" /\ pc'[t] = "term" /\ UNCHANGED <<qdepth, made, con_flags>>
        /\ state_flags'[t] = state_flags[t] \ {"READY"}
    BY <1>0, <1>4 DEF ConsumerQuit, ProducerAbort, ThreadTerm, ringVars, workVars
  <2>2. Aborted \/ (qdepth = 0 /\ Has("FINISHED") /\ tq_threads_terminated("prod"))
    BY <1>4 DEF ConsumerQuit, ProducerAbort, ConsumerQuits, Aborted
  <2> QED BY <1>0, <1>b, <2>1, <2>2 DEF FinishEffect, Started, Over, Has, Aborted
<1>5. CASE ConsumerTake(t)
  <2>1. /\ pc[t] = "loop" /\ pc'[t] = "work" /\ UNCHANGED <<made, con_flags, state_flags>>
        /\ qdepth' = qdepth - 1
    BY <1>0, <1>5 DEF ConsumerTake, TakeHead, flagVars, workVars
  <2>2. /\ Has("HALT") => Has("FINISHED") \/ Aborted
        /\ qdepth > 0
    BY <1>0, <1>5 DEF ConsumerTake, ConsumerHolds, ConsumerQuits, Aborted
  <2> QED BY <1>0, <1>b, <2>1, <2>2 DEF FinishEffect, Started, Over, Has, Aborted
<1>6. CASE ConsumerWork(t) \/ ProducerWork(t)
  <2>1. PICK res \in ProdRes \cup ConsRes : PostWork(t, res)
    BY <1>6 DEF ConsumerWork, ProducerWork
  <2>2. /\ pc[t] = "work" /\ UNCHANGED qdepth /\ made' >= made
        /\ made' > made => role[t] = "prod"
    BY <1>0, <1>6 DEF ConsumerWork, ProducerWork, ringVars
  <2>3. /\ pc'[t] = "loop"
        /\ "READY" \in state_flags'[t] <=> "READY" \in state_flags[t]
        /\ "ERROR" \in state_flags'[t] => "ERROR" \in state_flags[t] \/ Aborted'
        /\ Has("FINISHED")' => Has("FINISHED") \/ res = 1
    BY <1>0, <2>1 DEF PostWork, ResultFlag, Has, Aborted
  <2> QED BY <1>0, <1>b, <2>1, <2>2, <2>3 DEF FinishEffect, Started, Over, Has, Aborted
<1>7. CASE ProducerStart(t)
  <2>1. /\ pc[t] = "initloop" /\ pc'[t] = "work" /\ UNCHANGED <<made, con_flags, state_flags, qdepth>>
        /\ role[t] = "prod"
        /\ Has("HALT") => Has("FINISHED") \/ Aborted
    BY <1>0, <1>7 DEF ProducerStart, ProducerInitHolds, flagVars, workVars, ringVars, Aborted
  <2> QED BY <1>0, <1>b, <2>1 DEF FinishEffect, Started, Over, Has, Aborted
<1>8. CASE ProducerPut(t)
  <2>1. /\ pc[t] = "loop" /\ role[t] = "prod" /\ UNCHANGED <<made, con_flags>>
        /\ \/ pc'[t] = "work" /\ state_flags'[t] = state_flags[t]
           \/ pc'[t] = "term" /\ state_flags'[t] = state_flags[t] \ {"READY"}
        /\ Has("HALT") => Has("FINISHED") \/ Aborted
    BY <1>0, <1>8 DEF ProducerPut, ProducerHolds, ThreadTerm, workVars, Aborted
  <2> QED BY <1>0, <1>b, <2>1 DEF FinishEffect, Started, Over, Has, Aborted
<1>9. CASE ThreadExit(t)
  <2>1. pc[t] = "term" /\ pc'[t] = "exited" /\ UNCHANGED <<made, con_flags, state_flags, qdepth>>
    BY <1>0, <1>9 DEF ThreadExit, flagVars, ringVars
  <2> QED BY <1>0, <1>b, <2>1 DEF FinishEffect, Started, Over, Has, Aborted
<1> QED
  BY <1>1, <1>2, <1>3, <1>4, <1>5, <1>6, <1>7, <1>8, <1>9 DEF ThreadNext

LEMMA QueuedIsMade ==
  ASSUME FinishBase, qdepth > 0
  PROVE  made > 0
<1>1. QueueTyped /\ made \in Nat
  BY QueueType, SizeAssumption DEF FinishBase, Inv, TInv, TypeOK
<1>2. 1 \in 1 .. Len(Queue)
  BY <1>1 DEF QueueTyped
<1> QED BY <1>1, <1>2 DEF FinishBase, OnePlace

LEMMA FinishThread ==
  ASSUME FinishBase, FinishInv, NEW t \in Threads, ThreadNext(t)
  PROVE  FinishInv'
<1>0. /\ ReadyInv /\ CheckInv /\ OrderInv /\ OutliveInv /\ CompletionInv /\ ~createfail
      /\ made \in Nat /\ qdepth \in Nat /\ NumProd \in Nat
      /\ OrderlyStart /\ RoleInv
      /\ qdepth' \in Nat /\ made' \in Nat
  <2>1. Inv'
    BY InvNext DEF FinishBase, Next
  <2> QED BY <2>1, SizeAssumption DEF FinishInv, FinishBase, Inv, TInv, TypeOK
<1>1. FinishEffect(t)
  BY FinishThreadEffect
<1>2. /\ role[t] = PoolOf(t) /\ (role[t] = "prod" <=> t \in Prods) /\ (role[t] = "cons" <=> t \notin Prods)
  BY <1>0, <1>1 DEF FinishEffect, RoleInv, PoolOf, Prods
<1>3. /\ \A u \in Threads : (Started(u) => Started(u)') /\ (Over(u) => Over(u)')
      /\ Aborted => Aborted'
  BY <1>1 DEF FinishEffect, Started, Over, Aborted, Has
<1>4. ReadyInv'
  <2>1. ASSUME NEW u \in Threads
        PROVE  /\ "READY" \in state_flags'[u] <=> Started(u)' /\ ~Over(u)' /\ pc'[u] # "failed"
               /\ "ERROR" \in state_flags'[u] \/ pc'[u] = "failed" => Aborted'
    BY <1>0, <1>1, <1>3 DEF ReadyInv, FinishEffect, Started, Over
  <2> QED BY <2>1 DEF ReadyInv
<1>5. CheckInv'
  BY <1>0, <1>1, <1>3 DEF CheckInv, FinishEffect
<1>6. \A u \in Prods : NumProd <= 1 => u = 0
  BY <1>0 DEF Prods, Threads
<1>7. pc[t] = "work" => Started(t) /\ Started(t)'
  BY <1>3 DEF Started
\* who may set FINISHED or make a package
<1>8. ASSUME ~Aborted', pc[t] = "work" PROVE 1 \in ProdRes \cup ConsRes => \A u \in Prods : Started(u)'
  <2>1. CASE NumProd <= 1
    <3>1. CASE t \in Prods
      BY <1>6, <1>7, <1>8, <2>1, <3>1
    <3>2. CASE t \notin Prods
      BY <1>0, <1>2, <1>3, <1>8, <2>1, <3>2 DEF OrderInv, Prods
    <3> QED BY <3>1, <3>2
  <2>2. CASE "HALT" \in InitFlags
    BY <1>0, <1>3, <1>8, <2>2 DEF OrderInv, CheckInv, Prods
  <2> QED BY <1>0, <2>1, <2>2 DEF OrderlyStart
<1>9. Has("FINISHED")' /\ ~Aborted' => \A u \in Prods : Started(u)'
  <2>1. Has("FINISHED") /\ ~Aborted' => \A u \in Prods : Started(u)'
    BY <1>0, <1>3 DEF OrderInv, Prods
  <2> QED BY <1>1, <1>8, <2>1 DEF FinishEffect
<1>10. NumProd <= 1 /\ made' > 0 /\ ~Aborted' => \A u \in Prods : Started(u)'
  <2>1. CASE made > 0
    BY <1>0, <1>3, <2>1 DEF OrderInv, Prods
  <2>2. CASE made' > made
    BY <1>1, <1>2, <1>6, <1>7, <2>2 DEF FinishEffect
  <2> QED BY <1>0, <1>1, <2>1, <2>2 DEF FinishEffect
<1>11. ASSUME NEW u \in Threads, role'[u] = "cons", pc'[u] = "work" PROVE made' > 0
  <2>1. role[u] = "cons" /\ made' >= made
    BY <1>0, <1>1, <1>11 DEF FinishEffect
  <2>2. CASE u = t
    <3>1. qdepth > 0
      BY <1>1, <1>11, <2>1, <2>2 DEF FinishEffect
    <3> QED BY <1>0, <2>1, <3>1, QueuedIsMade
  <2>3. CASE u # t
    BY <1>0, <1>1, <1>11, <2>1, <2>3 DEF OrderInv, FinishEffect
  <2> QED BY <2>2, <2>3
<1>12. ASSUME "HALT" \in InitFlags, ~checked', ~Aborted'
       PROVE  Has("HALT")' /\ ~Has("FINISHED")' /\ \A u \in Threads : pc'[u] # "work"
  <2>1. ~checked /\ ~Aborted /\ Has("HALT") /\ ~Has("FINISHED") /\ \A u \in Threads : pc[u] # "work"
    BY <1>0, <1>1, <1>3, <1>12 DEF OrderInv, FinishEffect
  <2> QED BY <1>1, <2>1 DEF FinishEffect, Has, Aborted
<1>13. OrderInv'
  BY <1>9, <1>10, <1>11, <1>12 DEF OrderInv, Prods
<1>14. OutliveInv'
  <2> SUFFICES ASSUME ~Aborted', NEW u \in Threads \ Prods, Over(u)'
               PROVE  Has("FINISHED")' /\ qdepth' = 0 /\ \A v \in Prods : Over(v)'
    BY DEF OutliveInv, Prods
  <2>1. Has("FINISHED") /\ qdepth = 0 /\ \A v \in Prods : Over(v)
    <3>1. CASE Over(u)
      BY <1>0, <1>3, <3>1 DEF OutliveInv
    <3>2. CASE ~Over(u)
      <4>1. u = t
        BY <1>1, <3>2 DEF FinishEffect, Over
      <4>2. qdepth = 0 /\ Has("FINISHED") /\ tq_threads_terminated("prod")
        BY <1>1, <1>2, <1>3, <3>2, <4>1 DEF FinishEffect
      <4>3. \A v \in Prods : "READY" \notin state_flags[v] /\ Started(v) /\ pc[v] # "failed"
        BY <1>0, <1>3, <4>2 DEF tq_threads_terminated, OrderInv, ReadyInv, Prods
      <4> QED BY <1>0, <4>2, <4>3 DEF ReadyInv, Prods
    <3> QED BY <3>1, <3>2
  <2>2. Has("FINISHED")' /\ \A v \in Prods : Over(v)'
    BY <1>1, <1>3, <2>1 DEF FinishEffect, Has, Prods
  <2>3. ~(role[t] = "prod" /\ ~Over(t))
    BY <1>2, <2>1
  <2> QED BY <1>0, <1>1, <2>1, <2>2, <2>3 DEF FinishEffect
<1>15. CompletionInv'
  BY <1>0, <1>1, <1>3 DEF CompletionInv, FinishEffect
<1> QED BY <1>0, <1>1, <1>4, <1>5, <1>13, <1>14, <1>15 DEF FinishInv, FinishEffect

LEMMA FinishCreate ==
  ASSUME FinishBase, FinishInv, CreateNext
  PROVE  FinishInv'
<1>0. /\ ReadyInv /\ CheckInv /\ OrderInv /\ OutliveInv /\ CompletionInv /\ ~createfail
      /\ pc \in [Threads -> ThreadPCs] /\ newtID \in 0 .. NumThreads /\ NumThreads \in Nat
      /\ ~CreateMayFail /\ StartInv
  BY SizeAssumption DEF FinishInv, FinishBase, OrderlyStart, Inv, TInv, TypeOK, NumThreads, EndInv
<1>1. /\ UNCHANGED <<con_flags, state_flags, mpc, midx, checked, made, qdepth, createfail>>
      /\ (pc' = pc /\ role' = role) \/ CreateThread
  BY <1>0 DEF CreateNext, CreateThread, CreateProducerFails, CreateConsumerFails, InitReturns, InitAborts,
     lockVars, flagVars, masterVars, workVars, ringVars, threadVars
<1>2. CASE pc' = pc /\ role' = role
  BY <1>0, <1>1, <1>2
     DEF FinishInv, ReadyInv, CheckInv, OrderInv, OutliveInv, CompletionInv, Started, Over, Aborted, Has
<1>3. CASE CreateThread
  <2>1. /\ newtID \in Threads /\ pc[newtID] = "unborn"
        /\ pc' = [pc EXCEPT ![newtID] = "init"]
        /\ role' = [role EXCEPT ![newtID] = IF newtID < NumProd /\ ~createfail THEN "prod" ELSE "cons"]
    <3>1. newtID \in Threads
      BY <1>0, <1>3 DEF CreateThread, Threads
    <3> QED BY <1>0, <1>3, <3>1 DEF CreateThread, StartInv
  <2>2. /\ \A u \in Threads : u # newtID => pc'[u] = pc[u] /\ role'[u] = role[u]
        /\ pc'[newtID] = "init"
    <3>1. role \in [Threads -> Pools \cup {"none"}]
      BY DEF FinishBase, Inv, TInv, TypeOK
    <3> QED BY <1>0, <2>1, <3>1
  <2>3. \A u \in Threads : (Started(u)' <=> Started(u)) /\ (Over(u)' <=> Over(u)) /\ (Aborted' <=> Aborted)
    BY <1>1, <2>1, <2>2 DEF Started, Over, Aborted, Has
  <2>4. ReadyInv'
    BY <1>0, <1>1, <2>1, <2>2, <2>3 DEF ReadyInv
  <2>5. CheckInv' /\ OutliveInv' /\ CompletionInv'
    BY <1>0, <1>1, <2>3 DEF CheckInv, OutliveInv, CompletionInv, Has, Prods, Aborted
  <2>6. OrderInv'
    BY <1>0, <1>1, <2>1, <2>2, <2>3 DEF OrderInv, Has, Prods, Aborted
  <2> QED BY <1>0, <1>1, <2>4, <2>5, <2>6 DEF FinishInv
<1> QED BY <1>1, <1>2, <1>3

\* What a call of master m changes of all that.
FinishCall(m) ==
  /\ UNCHANGED <<pc, role, state_flags, createfail>>
  /\ \A n \in Masters : n # m => mpc'[n] = mpc[n] /\ midx'[n] = midx[n]
  /\ mpc'[m] \notin {"idle", "tq_check_init"} => checked
  /\ checked => checked'
  /\ checked' /\ ~checked /\ ~Aborted => \A t \in Threads : Started(t)
  /\ mpc'[m] = "tq_check_init" => \A t \in Threads : t < midx'[m] => Started(t)
  /\ mpc'[m] = "tq_wait_for_completion" => Has("FINISHED") /\ \A t \in Threads : t < midx'[m] => "READY" \notin state_flags[t]
  /\ \A f \in {"FINISHED", "ABORT"} : f \in con_flags => f \in con_flags'
  /\ con_flags # con_flags' => checked
  /\ made' >= made
  /\ made' > made => checked
  /\ qdepth' <= qdepth \/ ~Has("FINISHED")

LEMMA FinishMasterEffect ==
  ASSUME FinishBase, FinishInv, NEW m \in Masters, MasterNext(m)
  PROVE  FinishCall(m)
<1>0. /\ mpc \in [Masters -> OpNames \cup {"idle", "pthread_join"}]
      /\ midx \in [Masters -> Threads]
      /\ con_flags \in SUBSET Flags
      /\ made \in Nat /\ qdepth \in Nat
      /\ ReadyInv /\ CheckInv /\ CheckFirst /\ EnqueueInv
  BY SizeAssumption DEF FinishBase, FinishInv, Inv, TInv, TypeOK, OrderlyStart, EndInv
<1>1. CASE tq_check_init(m)
  <2>1. /\ UNCHANGED <<pc, role, state_flags, createfail, con_flags, made, qdepth>>
        /\ mpc[m] \in {"idle", "tq_check_init"}
    BY <1>1 DEF tq_check_init, Fresh, Again, flagVars, lifeVars, threadVars, workVars, ringVars
  <2>2. \A t \in Threads : ~(t >= FromIdx(m, "tq_check_init")) => Started(t)
    BY <1>0 DEF FromIdx, CheckInv, Threads
  <2>3. CASE \E r : Return(m, r)
    <3>1. checked' /\ (Aborted \/ \A t \in Threads : t >= FromIdx(m, "tq_check_init") => Started(t))
      BY <1>0, <1>1, <2>3 DEF tq_check_init, Sleep, Return, Stops, ReadyInv
    <3> QED BY <1>0, <2>1, <2>2, <2>3, <3>1 DEF FinishCall, Return
  <2>4. CASE ~\E r : Return(m, r)
    <3>1. PICK k \in Threads : /\ IsFirst(k, FromIdx(m, "tq_check_init"), Stops)
                               /\ Sleep(m, "tq_check_init", k, {}) /\ UNCHANGED checked
      BY <1>1, <2>4 DEF tq_check_init
    <3>2. \A t \in Threads : t < k => Started(t)
      BY <1>0, <2>2, <3>1 DEF IsFirst, Stops, ReadyInv
    <3> QED BY <1>0, <2>1, <3>1, <3>2 DEF FinishCall, Sleep
  <2> QED BY <2>3, <2>4
\* any other call starts after tq_check_init()
<1>2. ~tq_check_init(m) => mpc[m] # "tq_check_init" /\ checked
  BY <1>0
     DEF MasterNext, tq_enqueue, tq_dequeue, tq_set_flags, tq_unset_flags, tq_wait_for_pause,
         tq_wait_for_completion, tq_wait_for_flags, tq_next_thread_status, JoinThread, tq_close, Fresh,
         Again, CheckInv
<1>3. CASE tq_wait_for_completion(m)
  <2>1. /\ UNCHANGED <<pc, role, state_flags, createfail, con_flags, made, qdepth, checked>>
        /\ mpc[m] \in {"idle", "tq_wait_for_completion"}
    BY <1>3 DEF tq_wait_for_completion, Fresh, Again, flagVars, lifeVars, threadVars, workVars, ringVars
  <2>2. checked /\ CompletionInv
    BY <1>0, <1>2, <1>3, <2>1 DEF tq_wait_for_completion, Fresh, Again, CheckInv, FinishInv
  <2>3. CASE \E r : Return(m, r)
    BY <1>0, <2>1, <2>2, <2>3 DEF FinishCall, Return
  <2>4. CASE ~\E r : Return(m, r)
    <3>1. PICK k \in Threads : /\ IsFirst(k, FromIdx(m, "tq_wait_for_completion"), NotComplete)
                               /\ Sleep(m, "tq_wait_for_completion", k, {})
                               /\ Has("FINISHED") /\ ~Aborted
      BY <1>3, <2>4 DEF tq_wait_for_completion, Aborted
    <3>2. ASSUME NEW t \in Threads, t < k PROVE "READY" \notin state_flags[t]
      <4>1. CASE t >= FromIdx(m, "tq_wait_for_completion")
        BY <3>1, <3>2, <4>1 DEF IsFirst, NotComplete
      <4>2. CASE ~(t >= FromIdx(m, "tq_wait_for_completion"))
        BY <1>0, <2>2, <3>1, <4>2 DEF FromIdx, CompletionInv, ReadyInv, Threads
      <4> QED BY <4>1, <4>2
    <3> QED BY <1>0, <2>1, <2>2, <3>1, <3>2 DEF FinishCall, Sleep
  <2> QED BY <2>3, <2>4
<1>4. CASE tq_enqueue(m)
  <2>1. /\ UNCHANGED <<pc, role, state_flags, createfail, con_flags, checked>>
        /\ made' >= made
    BY <1>0, <1>4 DEF tq_enqueue, flagVars, lifeVars
  <2>2. qdepth' <= qdepth \/ ~Has("FINISHED")
    <3>1. PICK ign \in IF mpc[m] = "tq_enqueue" THEN {mign[m]} ELSE {{}, {"HALT"}} :
            UNCHANGED qdepth \/ con_flags \subseteq ign
      BY <1>4 DEF tq_enqueue, ringVars
    <3>2. "FINISHED" \notin ign
      BY <1>0 DEF EnqueueInv
    <3> QED BY <1>0, <3>1, <3>2 DEF Has
  <2>3. checked
    BY <1>0, <1>4 DEF tq_enqueue, Fresh, Again, CheckInv
  <2>4. \E x \in {"idle", "tq_enqueue"} : \E i : mpc' = [mpc EXCEPT ![m] = x] /\ midx' = [midx EXCEPT ![m] = i]
    BY <1>4 DEF tq_enqueue, Return, Sleep
  <2> QED BY <1>0, <2>1, <2>2, <2>3, <2>4 DEF FinishCall
<1>5. CASE tq_dequeue(m)
  <2>1. /\ UNCHANGED <<pc, role, state_flags, createfail, con_flags, checked, made>>
        /\ qdepth' <= qdepth
    BY <1>0, <1>5 DEF tq_dequeue, flagVars, lifeVars, threadVars, ringVars, TakeHead
  <2>2. checked
    BY <1>0, <1>5 DEF tq_dequeue, Fresh, Again, CheckInv
  <2>3. \E x \in {"idle", "tq_dequeue"} : \E i : mpc' = [mpc EXCEPT ![m] = x] /\ midx' = [midx EXCEPT ![m] = i]
    BY <1>5 DEF tq_dequeue, Return, Sleep
  <2> QED BY <1>0, <2>1, <2>2, <2>3 DEF FinishCall
<1>6. CASE \/ tq_set_flags(m) \/ tq_unset_flags(m) \/ tq_wait_for_pause(m) \/ tq_wait_for_flags(m)
           \/ tq_next_thread_status(m) \/ JoinThread(m) \/ tq_close(m)
  <2>1. /\ UNCHANGED <<pc, role, state_flags, createfail, checked, made, qdepth>>
        /\ \A f \in {"FINISHED", "ABORT"} : f \in con_flags => f \in con_flags'
    BY <1>6, ClientAssumption
       DEF tq_set_flags, tq_unset_flags, tq_wait_for_pause, tq_wait_for_flags, tq_next_thread_status,
           JoinThread, tq_close, flagVars, lifeVars, threadVars, ringVars, workVars
  <2>2. checked
    BY <1>0, <1>6
       DEF tq_set_flags, tq_unset_flags, tq_wait_for_pause, tq_wait_for_flags, tq_next_thread_status,
           JoinThread, tq_close, Fresh, Again, CheckInv
  <2>3. \E x \in {"idle", "tq_wait_for_pause", "tq_wait_for_flags", "tq_next_thread_status", "pthread_join"} : \E i :
          mpc' = [mpc EXCEPT ![m] = x] /\ midx' = [midx EXCEPT ![m] = i]
    <3>1. CASE tq_wait_for_pause(m)
      BY <3>1 DEF tq_wait_for_pause, Return, Sleep
    <3>2. CASE tq_wait_for_flags(m) \/ tq_next_thread_status(m)
      BY <3>2 DEF tq_wait_for_flags, tq_next_thread_status, Return, Sleep
    <3>3. CASE tq_set_flags(m) \/ tq_unset_flags(m) \/ JoinThread(m) \/ tq_close(m)
      BY <3>3 DEF tq_set_flags, tq_unset_flags, JoinThread, tq_close, Return
    <3> QED BY <1>6, <3>1, <3>2, <3>3
  <2> QED BY <1>0, <2>1, <2>2, <2>3 DEF FinishCall
<1> QED BY <1>1, <1>3, <1>4, <1>5, <1>6 DEF MasterNext

LEMMA FinishMaster ==
  ASSUME FinishBase, FinishInv, NEW m \in Masters, MasterNext(m)
  PROVE  FinishInv'
<1>0. /\ ReadyInv /\ CheckInv /\ OrderInv /\ OutliveInv /\ CompletionInv /\ ~createfail
      /\ made \in Nat /\ qdepth \in Nat /\ made' \in Nat /\ qdepth' \in Nat
  <2>1. Inv'
    BY InvNext DEF FinishBase, Next
  <2> QED BY <2>1, SizeAssumption DEF FinishInv, FinishBase, Inv, TInv, TypeOK
<1>1. FinishCall(m)
  BY FinishMasterEffect
<1>2. /\ \A t \in Threads : (Started(t)' <=> Started(t)) /\ (Over(t)' <=> Over(t))
      /\ Aborted => Aborted'
      /\ Has("FINISHED") => Has("FINISHED")'
  BY <1>1 DEF FinishCall, Started, Over, Aborted, Has
<1>3. ReadyInv'
  BY <1>0, <1>1, <1>2 DEF ReadyInv, FinishCall
<1>4. CheckInv'
  BY <1>0, <1>1, <1>2 DEF CheckInv, FinishCall
<1>5. checked /\ ~Aborted' => \A t \in Prods : Started(t)'
  BY <1>0, <1>2 DEF CheckInv, Prods
<1>6. OrderInv'
  <2>1. Has("FINISHED")' /\ ~Aborted' => \A t \in Prods : Started(t)'
    <3>1. CASE con_flags' = con_flags
      BY <1>0, <1>2, <3>1 DEF OrderInv, Has, Prods
    <3>2. CASE con_flags' # con_flags
      BY <1>1, <1>5, <3>2 DEF FinishCall
    <3> QED BY <3>1, <3>2
  <2>2. NumProd <= 1 /\ made' > 0 /\ ~Aborted' => \A t \in Prods : Started(t)'
    <3>1. CASE made > 0
      BY <1>0, <1>2, <3>1 DEF OrderInv, Prods
    <3>2. CASE made' > made
      BY <1>1, <1>5, <3>2 DEF FinishCall
    <3> QED BY <1>0, <3>1, <3>2
  <2>3. \A t \in Threads : role'[t] = "cons" /\ pc'[t] = "work" => made' > 0
    BY <1>0, <1>1 DEF OrderInv, FinishCall
  <2>4. "HALT" \in InitFlags /\ ~checked' /\ ~Aborted' =>
          Has("HALT")' /\ ~Has("FINISHED")' /\ \A t \in Threads : pc'[t] # "work"
    BY <1>0, <1>1, <1>2 DEF OrderInv, FinishCall, Has
  <2> QED BY <2>1, <2>2, <2>3, <2>4 DEF OrderInv, Prods
<1>7. OutliveInv'
  BY <1>0, <1>1, <1>2 DEF OutliveInv, FinishCall, Prods
<1>8. CompletionInv'
  <2> SUFFICES ASSUME NEW n \in Masters, mpc'[n] = "tq_wait_for_completion", ~Aborted',
                      NEW t \in Threads, t < midx'[n]
               PROVE  Over(t)'
    BY DEF CompletionInv
  <2>1. CASE n = m
    <3>1. "READY" \notin state_flags[t] /\ checked
      BY <1>1, <2>1 DEF FinishCall
    <3> QED BY <1>0, <1>2, <3>1 DEF ReadyInv, CheckInv
  <2>2. CASE n # m
    BY <1>0, <1>1, <1>2, <2>2 DEF CompletionInv, FinishCall
  <2> QED BY <2>1, <2>2
<1> QED BY <1>0, <1>1, <1>3, <1>4, <1>6, <1>7, <1>8 DEF FinishInv, FinishCall

LEMMA FinishInit == OrderlyStart /\ Init => FinishInv
BY DEF Init, OrderlyStart, FinishInv, ReadyInv, CheckInv, OrderInv, OutliveInv, CompletionInv, Started, Over,
   Aborted, Has, Prods

LEMMA FinishNext == FinishBase /\ FinishInv /\ [Next]_vars => FinishInv'
<1> SUFFICES ASSUME FinishBase, FinishInv, [Next]_vars PROVE FinishInv'
  OBVIOUS
<1>1. CASE CreateNext
  BY <1>1, FinishCreate
<1>2. ASSUME NEW t \in Threads, ThreadNext(t) PROVE FinishInv'
  BY <1>2, FinishThread
<1>3. ASSUME NEW m \in Masters, MasterNext(m) PROVE FinishInv'
  BY <1>3, FinishMaster
<1>4. CASE UNCHANGED <<flagVars, ringVars, lifeVars, threadVars, masterVars, workVars>>
  BY <1>4
     DEF FinishInv, ReadyInv, CheckInv, OrderInv, OutliveInv, CompletionInv, Started, Over, Aborted, Has, Prods,
         flagVars, ringVars, lifeVars, threadVars, masterVars, workVars
<1>5. ASSUME NEW p \in Threads \cup Masters, SpuriousWake(p) PROVE FinishInv'
  BY <1>4, <1>5 DEF SpuriousWake
<1>6. CASE UNCHANGED vars
  BY <1>4, <1>6 DEF vars
<1> QED BY <1>1, <1>2, <1>3, <1>5, <1>6 DEF Next

LEMMA FinishSuffices ==
  ASSUME FinishBase, FinishInv
  PROVE  EndIsReached
<1>0. /\ ReadyInv /\ CheckInv /\ OrderInv /\ OutliveInv /\ CompletionInv /\ CheckFirst
      /\ NumProd \in Nat /\ NumCons \in Nat /\ midx \in [Masters -> Threads]
  BY SizeAssumption DEF FinishInv, FinishBase, OrderlyStart, Inv, TInv, TypeOK
<1>1. ConsumersOutliveProducers
  <2>1. NumCons > 0 => NumProd \in Threads \ Prods
    BY <1>0 DEF Threads, NumThreads, Prods
  <2>2. NumProd >= NumProd
    BY <1>0
  <2> QED BY <1>0, <2>1, <2>2 DEF ConsumersOutliveProducers, OutliveInv, Over, Prods, Aborted
<1>2. CompletionIsComplete
  <2> SUFFICES ASSUME NEW m \in Masters, MayProceed(m, "tq_wait_for_completion"), CompletionSucceeds(m)
               PROVE  /\ \A t \in Threads : pc[t] \in {"term", "exited"}
                      /\ NumCons > 0 => qdepth = 0
    BY DEF CompletionIsComplete
  <2>1. checked /\ ~Aborted
    BY <1>0 DEF MayProceed, Fresh, Again, CheckInv, CompletionSucceeds, Aborted
  <2>2. ASSUME NEW t \in Threads PROVE Over(t)
    <3>1. CASE t >= FromIdx(m, "tq_wait_for_completion")
      BY <1>0, <2>1, <3>1 DEF CompletionSucceeds, NotComplete, ReadyInv, CheckInv
    <3>2. CASE ~(t >= FromIdx(m, "tq_wait_for_completion"))
      BY <1>0, <2>1, <3>2 DEF FromIdx, CompletionInv, Threads
    <3> QED BY <3>1, <3>2
  <2> QED BY <1>1, <2>1, <2>2 DEF ConsumersOutliveProducers, Over, Aborted
<1> QED BY <1>1, <1>2 DEF EndIsReached

\* When tq_wait_for_completion() returns zero every thread is past its last
\* package and no package waits for a consumer; and the consumers do not all
\* leave while a producer may still enqueue.
THEOREM EndCorrect == OrderlyStart => (Spec => []EndIsReached)
<1> SUFFICES ASSUME OrderlyStart PROVE Spec => []EndIsReached
  OBVIOUS
<1> DEFINE EInv == OnePlaceInv /\ EndInv /\ CountInv /\ FinishInv
<1>1. EInv => FinishBase
  BY DEF OnePlaceInv, FifoPauseInv, CountInv, FinishInv, FinishBase
<1>2. Init => EInv
  BY OnePlaceInit, EndInit, CountInit, FinishInit
<1>3. EInv /\ [Next]_vars => EInv'
  <2> SUFFICES ASSUME EInv, [Next]_vars PROVE EInv'
    OBVIOUS
  <2>1. OnePlaceInv' /\ EndInv' /\ CountInv'
    BY OnePlaceNext, EndNext, CountNext DEF OnePlaceInv, FifoPauseInv
  <2>2. FinishInv'
    BY <1>1, FinishNext
  <2> QED BY <2>1, <2>2
<1>4. EInv => EndIsReached
  BY <1>1, FinishSuffices
<1> HIDE DEF EInv
<1> QED BY <1>2, <1>3, <1>4, PTL DEF Spec

=============================================================================
