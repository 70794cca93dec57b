---------------------------- MODULE ThreadQueue ----------------------------
(***************************************************************************)
(* The ThreadQueue of src/thread_queue/thread_queue.c: a bounded ring of   *)
(* work packages, a pool of producer threads, a pool of consumer threads   *)
(* and any number of "master" processes calling the tq_*() functions.      *)
(*                                                                         *)
(* One action is one stretch of code between two points where another      *)
(* process can intervene: acquiring qlock, releasing it, and sleeping on a *)
(* condition variable.  Threads carry qlock from step to step exactly      *)
(* where the code carries it; a master needs it across steps only in       *)
(* tq_next_thread_status(), which calls pthread_join() while holding it.   *)
(* The work, init, pause, resume and term callbacks belong to the client:  *)
(* what they may return is a parameter.                                    *)
(***************************************************************************)
EXTENDS Integers, FiniteSets

CONSTANTS
  NumProd,        \* opts->num_prod_threads
  NumCons,        \* opts->num_threads - opts->num_prod_threads
  MaxQDepth,      \* opts->max_qdepth
  InitFlags,      \* opts->init_flags, as a set of control flags
  Masters,        \* the processes that call tq_*()
  Creator,        \* the master that called tq_init()
  Ops,            \* Ops[m]: the tq_*() functions master m calls
  SetFlags,       \* the flags the masters pass to tq_set_flags()
  UnsetFlags,     \* the flags the masters pass to tq_unset_flags()
  CheckFirst,     \* the client calls tq_check_init() once, before the others
  InitRes,        \* results of thread_init_func: a subset of {0, -1}
  PauseRes,       \* results of thread_pause_func and thread_resume_func
  ProdRes,        \* results of thread_producer_func: a subset of {-1, 0, 1, 2}
  ConsRes,        \* results of thread_consumer_func
  CreateMayFail,  \* whether pthread_create() may fail
  Spurious,       \* whether pthread_cond_wait() may wake up spuriously
  UintMod,        \* the modulus of unsigned int arithmetic (2^32 in the build)
  MaxWork,        \* bound on the number of work packages ever made
  NoOne           \* qlock is free

NumThreads == NumProd + NumCons
Threads    == 0 .. (NumThreads - 1)
Pools      == {"prod", "cons"}
NumThrds   == [p \in Pools |-> IF p = "prod" THEN NumProd ELSE NumCons]
Flags      == {"HALT", "FINISHED", "ABORT"}          \* TQ_Control_Flags
StateFlags == {"READY", "ERROR", "HALTED"}           \* TQ_State_Flags
CondVars   == {"producer_resume", "consumer_resume", "state_resume"}
NULL       == 0
Work       == 1 .. MaxWork

ASSUME SizeAssumption ==
  /\ NumProd \in Nat /\ NumCons \in Nat /\ NumProd + NumCons > 0
  /\ MaxQDepth \in Nat \ {0}
  /\ MaxWork \in Nat
  /\ UintMod \in Nat /\ UintMod > NumProd + NumCons
\* HALT is the only flag any caller takes back.  Only one master collects
\* thread states (the comment at the head of tq_next_thread_status() asks for
\* that), and the master that waits for a pause is the one that ends it.
\* Without a consumer pool a failed producer creation runs into a NULL pool,
\* which is not modelled.
ASSUME ClientAssumption ==
  /\ InitFlags \subseteq Flags /\ SetFlags \subseteq Flags /\ UnsetFlags \subseteq {"HALT"}
  /\ InitRes \subseteq {0, -1} /\ PauseRes \subseteq {0, -1}
  /\ ProdRes \subseteq {-1, 0, 1, 2} /\ ConsRes \subseteq {-1, 0, 1, 2}
  /\ \A m, n \in Masters :
       /\ "tq_next_thread_status" \in Ops[m] \cap Ops[n] => m = n
       /\ "tq_wait_for_pause" \in Ops[m] /\ "tq_unset_flags" \in Ops[n] => m = n
  /\ CreateMayFail \in BOOLEAN /\ (CreateMayFail => NumCons > 0)
ASSUME ProcessAssumption ==
  /\ Creator \in Masters
  /\ Masters \cap Threads = {}
  /\ NoOne \notin Masters \cup Threads

VARIABLES
  qlock,        \* the process holding tq->qlock, or NoOne
  con_flags,    \* tq->con_flags
  state_flags,  \* tq->state_flags
  sleeping,     \* the condition variable each process sleeps on, or "none"
  workpkg, head, tail, qdepth,   \* the ring
  act_thrds,    \* act_thrds of each worker pool
  uncoll_thrds, \* tq->uncoll_thrds
  life,         \* "creating" in tq_init(), "live", "aborting" (init failed), "freed"
  newtID,       \* tID of tq_init(): the next thread to create
  createfail,   \* history: some pthread_create() of tq_init() failed
  role,         \* the start routine a thread was created with
  pc,           \* where each thread is
  cur_work,     \* its cur_work; for a master, the workbuff of tq_enqueue()
  mpc,          \* the function each master is in, or "idle"
  midx,         \* the loop index of that function (a tID)
  mign,         \* its ignore_flags argument
  ret,          \* what its last call returned
  checked,      \* history: tq_check_init() has returned
  made,         \* history: number of packages made so far
  done          \* history: packages handed over to the client for good

lockVars   == <<qlock, sleeping>>
flagVars   == <<con_flags, state_flags>>
ringVars   == <<workpkg, head, tail, qdepth>>
lifeVars   == <<uncoll_thrds, life, newtID, createfail, role>>
threadVars == <<pc, cur_work, act_thrds>>
masterVars == <<mpc, midx, mign, ret, checked>>
workVars   == <<made, done>>
vars == <<lockVars, flagVars, ringVars, lifeVars, threadVars, masterVars, workVars>>

-----------------------------------------------------------------------------
(* Condition variables (POSIX threads, external).                          *)

\* pthread_cond_broadcast() on every condition variable of the set C
Broadcast(sl, C) == [p \in DOMAIN sl |-> IF sl[p] \in C THEN "none" ELSE sl[p]]

\* pthread_cond_signal(): some sleeper wakes, if there is one
Signal(sl, c) ==
  LET S == {p \in DOMAIN sl : sl[p] = c}
  IN  IF S = {} THEN {sl} ELSE {[sl EXCEPT ![p] = "none"] : p \in S}

SpuriousWake(p) ==
  /\ Spurious
  /\ sleeping[p] # "none"
  /\ sleeping' = [sleeping EXCEPT ![p] = "none"]
  /\ UNCHANGED <<qlock, flagVars, ringVars, lifeVars, threadVars, masterVars, workVars>>

-----------------------------------------------------------------------------
(* The ring and the counters.                                              *)

\* Mutant: the index is not wrapped.
NextPosNoWrap(i) == i + 1
NextPos(i) == (i + 1) % MaxQDepth

\* Mutant: the tail stays where it is.
PutTailNoAdvance(w) ==
  /\ workpkg' = [workpkg EXCEPT ![tail] = w]
  /\ qdepth' = qdepth + 1
  /\ UNCHANGED <<head, tail>>
\* Mutant: qdepth is not decremented.
TakeHeadNoDec == head' = NextPos(head) /\ UNCHANGED <<tail, qdepth>>

\* store w at the tail / drop the head, as every enqueue and dequeue does
PutTail(w) ==
  /\ workpkg' = [workpkg EXCEPT ![tail] = w]
  /\ tail' = NextPos(tail)
  /\ qdepth' = qdepth + 1
  /\ UNCHANGED head
TakeHead ==
  /\ head' = NextPos(head)
  /\ qdepth' = qdepth - 1
  /\ UNCHANGED tail

\* unsigned increment and decrement of act_thrds
Inc(n) == IF n = UintMod - 1 THEN 0 ELSE n + 1
Dec(n) == IF n = 0 THEN UintMod - 1 ELSE n - 1

\* whom an enqueue wakes: qdepth was d before it
WakeConsumer(sl, d) ==
  IF \/ NumCons > 0 /\ d + 1 > act_thrds["cons"] /\ act_thrds["cons"] < NumCons
     \/ NumCons = 0 /\ d + 1 = 1
  THEN Signal(sl, "consumer_resume") ELSE {sl}

\* whom a dequeue wakes: qdepth was d before it
WakeProducer(sl, d) ==
  IF \/ NumProd > 0 /\ MaxQDepth - (d - 1) > act_thrds["prod"]
                    /\ act_thrds["prod"] < NumProd
     \/ NumProd = 0 /\ d - 1 = MaxQDepth - 1
  THEN Signal(sl, "producer_resume") ELSE {sl}

\* every thread of the pool has dropped READY (or never had it)
tq_threads_terminated(p) ==
  \A t \in Threads : (t < NumProd) = (p = "prod") => "READY" \notin state_flags[t]

Has(f) == f \in con_flags
-----------------------------------------------------------------------------
\* pthread_join() would not block
Exited(t) == pc[t] \in {"exited", "failed"}

(* tq_init(): threads are created one by one and start running at once.    *)

\* opts->init_flags are set before any thread exists
Init ==
  /\ qlock = NoOne
  /\ con_flags = InitFlags
  /\ state_flags = [t \in Threads |-> {}]
  /\ sleeping = [p \in Threads \cup Masters |-> "none"]
  /\ workpkg = [i \in 0 .. (MaxQDepth - 1) |-> NULL]
  /\ head = 0 /\ tail = 0 /\ qdepth = 0
  /\ act_thrds = NumThrds
  /\ uncoll_thrds = 0
  /\ life = "creating" /\ newtID = 0 /\ createfail = FALSE
  /\ role = [t \in Threads |-> "none"]
  /\ pc = [t \in Threads |-> "unborn"]
  /\ cur_work = [p \in Threads \cup Masters |-> NULL]
  /\ mpc = [m \in Masters |-> "idle"]
  /\ midx = [m \in Masters |-> 0]
  /\ mign = [m \in Masters |-> {}]
  /\ ret = [m \in Masters |-> 0]
  /\ checked = FALSE
  /\ made = 0 /\ done = {}

\* pthread_create() succeeds.  A producer whose creation failed leaves the
\* producer loop, and the consumer loop goes on from the same tID.
CreateThread ==
  /\ life = "creating" /\ newtID < NumThreads
  /\ role' = [role EXCEPT ![newtID] =
                IF newtID < NumProd /\ ~createfail THEN "prod" ELSE "cons"]
  /\ pc' = [pc EXCEPT ![newtID] = "init"]
  /\ newtID' = newtID + 1
  /\ uncoll_thrds' = uncoll_thrds + 1
  /\ UNCHANGED <<life, createfail, lockVars, flagVars, ringVars, cur_work,
                 act_thrds, masterVars, workVars>>

\* a failing pthread_create() in the producer loop only ends that loop
CreateProducerFails ==
  /\ CreateMayFail /\ life = "creating"
  /\ newtID < NumProd /\ ~createfail
  /\ createfail' = TRUE
  /\ UNCHANGED <<uncoll_thrds, life, newtID, role, lockVars, flagVars, ringVars,
                 threadVars, masterVars, workVars>>

\* one in the consumer loop ends creation: ABORT, and tq_init() joins all
CreateConsumerFails ==
  /\ CreateMayFail /\ life = "creating"
  /\ newtID < NumThreads /\ (newtID >= NumProd \/ createfail)
  /\ qlock = NoOne
  /\ createfail' = TRUE
  /\ con_flags' = con_flags \cup {"ABORT"}
  /\ sleeping' = Broadcast(sleeping, {"consumer_resume", "producer_resume"})
  /\ life' = "aborting"
  /\ UNCHANGED <<qlock, state_flags, uncoll_thrds, newtID, role, ringVars,
                 threadVars, masterVars, workVars>>

\* tq_init() returns the queue
InitReturns ==
  /\ life = "creating" /\ newtID = NumThreads
  /\ qlock = NoOne
  /\ life' = "live"
  /\ UNCHANGED <<uncoll_thrds, newtID, createfail, role, lockVars, flagVars,
                 ringVars, threadVars, masterVars, workVars>>

\* tq_init() has joined every created thread, frees the queue, returns NULL
InitAborts ==
  /\ life = "aborting"
  /\ \A t \in 0 .. (uncoll_thrds - 1) : Exited(t)
  /\ life' = "freed"
  /\ UNCHANGED <<uncoll_thrds, newtID, createfail, role, lockVars, flagVars,
                 ringVars, threadVars, masterVars, workVars>>

-----------------------------------------------------------------------------
(* The behaviour shared by producers and consumers.  pc values: "init"     *)
(* (in thread_init_func), "initloop"/"loop" (at the head of a holding      *)
(* pattern, qlock held), "initwait"/"wait" (asleep in it), "work" (in the  *)
(* work function, qlock not held), "term" (in thread_term_func), "exited"  *)
(* (after pthread_exit()) or "failed" (likewise, initialisation failed).   *)

CondVar(t) == IF role[t] = "prod" THEN "producer_resume" ELSE "consumer_resume"

\* state_resume is signalled, not broadcast, when a thread initialises
WakeMaster(sl)     == Signal(sl, "state_resume")

\* general_thread_init_behavior()
ThreadInit(t) ==
  /\ pc[t] = "init" /\ qlock = NoOne
  /\ \/ /\ 0 \in InitRes
        /\ state_flags' = [state_flags EXCEPT ![t] = @ \cup {"READY"}]
        /\ sleeping' \in WakeMaster(sleeping)
        /\ qlock' = t
        /\ pc' = [pc EXCEPT ![t] = IF role[t] = "prod" THEN "initloop" ELSE "loop"]
        /\ UNCHANGED con_flags
     \/ /\ -1 \in InitRes
        /\ state_flags' = [state_flags EXCEPT ![t] = @ \cup {"ERROR"}]
        /\ con_flags' = con_flags \cup {"ABORT"}
        /\ sleeping' \in WakeMaster(Broadcast(sleeping, {"producer_resume", "consumer_resume"}))
        /\ pc' = [pc EXCEPT ![t] = "failed"]
        /\ UNCHANGED qlock
  /\ UNCHANGED <<ringVars, lifeVars, cur_work, act_thrds, masterVars, workVars>>

\* a failing pause or resume function: ABORT, and the caller leaves its loop
CallbackAborts(t) ==
  /\ con_flags' = con_flags \cup {"ABORT"}
  /\ sleeping' = Broadcast(sleeping, CondVars)

\* a thread that halts wakes the masters
HaltWakes      == IF Has("HALT") THEN {"state_resume"} ELSE {}

\* general_thread_pause_behavior(), then the sleep; Nudge is the set of
\* condition variables the holding pattern broadcasts in between
ThreadPause(t, from, to, Nudge) ==
  /\ pc[t] = from /\ qlock = t
  /\ \/ /\ Has("HALT") /\ -1 \in PauseRes
        /\ CallbackAborts(t)
        /\ state_flags' = [state_flags EXCEPT ![t] = @ \cup {"ERROR"}]
        /\ UNCHANGED <<qlock, pc, act_thrds>>
     \/ /\ Has("HALT") => 0 \in PauseRes
        /\ state_flags' = [state_flags EXCEPT ![t] =
                             IF Has("HALT") THEN @ \cup {"HALTED"} ELSE @]
        /\ sleeping' = [Broadcast(sleeping, Nudge \cup HaltWakes) EXCEPT ![t] = CondVar(t)]
        /\ act_thrds' = [act_thrds EXCEPT ![role[t]] = Dec(@)]
        /\ qlock' = NoOne
        /\ pc' = [pc EXCEPT ![t] = to]
        /\ UNCHANGED con_flags
  /\ UNCHANGED <<ringVars, lifeVars, cur_work, masterVars, workVars>>

\* pthread_cond_wait() returns, then general_thread_resume_behavior(); the
\* resume function may take over and clear an unqueued work package
ThreadResume(t, from, to) ==
  /\ pc[t] = from /\ sleeping[t] = "none" /\ qlock = NoOne
  /\ qlock' = t
  /\ pc' = [pc EXCEPT ![t] = to]
  /\ act_thrds' = [act_thrds EXCEPT ![role[t]] = Inc(@)]
  /\ IF "HALTED" \in state_flags[t] /\ ~Has("HALT")
     THEN \/ /\ 0 \in PauseRes
             /\ state_flags' = [state_flags EXCEPT ![t] = @ \ {"HALTED"}]
             /\ \/ UNCHANGED <<cur_work, done>>
                \/ /\ cur_work[t] # NULL
                   /\ done' = done \cup {cur_work[t]}
                   /\ cur_work' = [cur_work EXCEPT ![t] = NULL]
             /\ UNCHANGED <<con_flags, sleeping>>
          \/ /\ -1 \in PauseRes
             /\ CallbackAborts(t)
             /\ state_flags' = [state_flags EXCEPT ![t] = (@ \ {"HALTED"}) \cup {"ERROR"}]
             /\ UNCHANGED <<cur_work, done>>
     ELSE UNCHANGED <<flagVars, sleeping, cur_work, done>>
  /\ UNCHANGED <<ringVars, lifeVars, masterVars, made>>

\* general_thread_post_work_behavior(): the flag a work result asks for
ResultFlag(res) ==
  IF res < 0 THEN {"ABORT"}
  ELSE IF res = 1 THEN (IF Has("ABORT") THEN {} ELSE {"FINISHED"})
  ELSE IF res > 1 THEN (IF Has("ABORT") \/ Has("FINISHED") THEN {} ELSE {"HALT"})
  ELSE {}

\* Mutant: flags are set and no one is told.
PostWorkQuiet(t, res) ==
  /\ qlock = NoOne /\ qlock' = t
  /\ con_flags' = con_flags \cup ResultFlag(res)
  /\ state_flags' = [state_flags EXCEPT ![t] = IF res < 0 THEN @ \cup {"ERROR"} ELSE @]
  /\ UNCHANGED sleeping
  /\ pc' = [pc EXCEPT ![t] = "loop"]

PostWork(t, res) ==
  /\ qlock = NoOne /\ qlock' = t
  /\ con_flags' = con_flags \cup ResultFlag(res)
  /\ state_flags' = [state_flags EXCEPT ![t] = IF res < 0 THEN @ \cup {"ERROR"} ELSE @]
  /\ sleeping' = IF ResultFlag(res) # {} THEN Broadcast(sleeping, CondVars) ELSE sleeping
  /\ pc' = [pc EXCEPT ![t] = "loop"]

\* whom a terminating thread wakes: the masters, and the consumers if it is
\* a producer
TermWakes(t) ==
  {"state_resume"} \cup (IF NumCons > 0 /\ role[t] = "prod" THEN {"consumer_resume"} ELSE {})

\* Mutant: act_thrds keeps counting the thread.
ThreadTermNoDec(t, SL) ==
  /\ state_flags' = [state_flags EXCEPT ![t] = @ \ {"READY"}]
  /\ sleeping' \in {Broadcast(sl, TermWakes(t)) : sl \in SL}
  /\ qlock' = NoOne
  /\ pc' = [pc EXCEPT ![t] = "term"]
  /\ UNCHANGED act_thrds

\* general_thread_term_behavior() up to the unlock; SL: what sleeping may be
\* by then
ThreadTerm(t, SL) ==
  /\ state_flags' = [state_flags EXCEPT ![t] = @ \ {"READY"}]
  /\ act_thrds' = [act_thrds EXCEPT ![role[t]] = Dec(@)]
  /\ sleeping' \in {Broadcast(sl, TermWakes(t)) : sl \in SL}
  /\ qlock' = NoOne
  /\ pc' = [pc EXCEPT ![t] = "term"]

\* thread_term_func() disposes of an unused package; pthread_exit()
ThreadExit(t) ==
  /\ pc[t] = "term"
  /\ pc' = [pc EXCEPT ![t] = "exited"]
  /\ done' = done \cup ({cur_work[t]} \ {NULL})
  /\ cur_work' = [cur_work EXCEPT ![t] = NULL]
  /\ UNCHANGED <<lockVars, flagVars, ringVars, lifeVars, act_thrds, masterVars, made>>

-----------------------------------------------------------------------------
(* consumer_thread()                                                       *)

\* Mutant: HALT is not looked at.
ConsumerHoldsNoHalt ==
  qdepth = 0 /\ ~Has("ABORT") /\ ~(Has("FINISHED") /\ tq_threads_terminated("prod"))

ConsumerHolds ==
  /\ qdepth = 0 \/ Has("HALT")
  /\ ~Has("ABORT")
  /\ ~(Has("FINISHED") /\ tq_threads_terminated("prod"))

ConsumerQuits ==
  \/ Has("ABORT")
  \/ qdepth = 0 /\ Has("FINISHED") /\ tq_threads_terminated("prod")

ConsumerPause(t) ==
  /\ role[t] = "cons" /\ ConsumerHolds
  /\ ThreadPause(t, "loop", "wait", IF qdepth = 0 THEN {"producer_resume"} ELSE {})

ConsumerQuit(t) ==
  /\ role[t] = "cons" /\ pc[t] = "loop" /\ qlock = t
  /\ ~ConsumerHolds /\ ConsumerQuits
  /\ ThreadTerm(t, {sleeping})
  /\ UNCHANGED <<con_flags, ringVars, lifeVars, cur_work, masterVars, workVars>>

ConsumerTake(t) ==
  /\ role[t] = "cons" /\ pc[t] = "loop" /\ qlock = t
  /\ ~ConsumerHolds /\ ~ConsumerQuits
  /\ cur_work' = [cur_work EXCEPT ![t] = workpkg[head]]
  /\ workpkg' = [workpkg EXCEPT ![head] = NULL]
  /\ TakeHead
  /\ sleeping' \in WakeProducer(sleeping, qdepth)
  /\ qlock' = NoOne
  /\ pc' = [pc EXCEPT ![t] = "work"]
  /\ UNCHANGED <<flagVars, lifeVars, act_thrds, masterVars, workVars>>

\* thread_consumer_func() returns
ConsumerWork(t) ==
  /\ role[t] = "cons" /\ pc[t] = "work"
  /\ \E res \in ConsRes : PostWork(t, res)
  /\ done' = done \cup ({cur_work[t]} \ {NULL})
  /\ cur_work' = [cur_work EXCEPT ![t] = NULL]
  /\ UNCHANGED <<ringVars, lifeVars, act_thrds, masterVars, made>>

-----------------------------------------------------------------------------
(* producer_thread()                                                       *)

\* the check for HALT before the first package
ProducerInitHolds == Has("HALT") /\ ~Has("ABORT") /\ ~Has("FINISHED")

ProducerInitPause(t) ==
  /\ role[t] = "prod" /\ ProducerInitHolds
  /\ ThreadPause(t, "initloop", "initwait", {})

\* leaving that check, whatever the reason, leads to the work function
ProducerStart(t) ==
  /\ role[t] = "prod" /\ pc[t] = "initloop" /\ qlock = t
  /\ ~ProducerInitHolds
  /\ qlock' = NoOne
  /\ pc' = [pc EXCEPT ![t] = "work"]
  /\ UNCHANGED <<sleeping, flagVars, ringVars, lifeVars, cur_work, act_thrds,
                 masterVars, workVars>>

\* thread_producer_func() returns with a new package or with none; one that
\* returns zero and no package is simply called again
ProducerWork(t) ==
  /\ role[t] = "prod" /\ pc[t] = "work"
  /\ \E res \in ProdRes :
       /\ PostWork(t, res)
       /\ \/ /\ made < MaxWork
             /\ made' = made + 1
             /\ cur_work' = [cur_work EXCEPT ![t] = made + 1]
          \/ /\ res # 0
             /\ UNCHANGED <<made, cur_work>>
  /\ UNCHANGED <<ringVars, lifeVars, act_thrds, masterVars, done>>

ProducerHolds ==
  /\ qdepth = MaxQDepth \/ (Has("HALT") /\ ~Has("FINISHED"))
  /\ ~Has("ABORT")

ProducerPause(t) ==
  /\ role[t] = "prod" /\ ProducerHolds
  /\ ThreadPause(t, "loop", "wait", IF qdepth = MaxQDepth THEN {"consumer_resume"} ELSE {})

ProducerAbort(t) ==
  /\ role[t] = "prod" /\ pc[t] = "loop" /\ qlock = t
  /\ Has("ABORT")
  /\ ThreadTerm(t, {sleeping})
  /\ UNCHANGED <<con_flags, ringVars, lifeVars, cur_work, masterVars, workVars>>

\* enqueue the package, if there is one, then quit if FINISHED
ProducerPut(t) ==
  /\ role[t] = "prod" /\ pc[t] = "loop" /\ qlock = t
  /\ ~ProducerHolds /\ ~Has("ABORT")
  /\ LET SL == IF cur_work[t] = NULL THEN {sleeping} ELSE WakeConsumer(sleeping, qdepth)
     IN  IF Has("FINISHED")
         THEN ThreadTerm(t, SL)
         ELSE /\ sleeping' \in SL
              /\ qlock' = NoOne
              /\ pc' = [pc EXCEPT ![t] = "work"]
              /\ UNCHANGED <<state_flags, act_thrds>>
  /\ IF cur_work[t] = NULL THEN UNCHANGED ringVars ELSE PutTail(cur_work[t])
  /\ cur_work' = [cur_work EXCEPT ![t] = NULL]
  /\ UNCHANGED <<con_flags, lifeVars, masterVars, workVars>>

-----------------------------------------------------------------------------
(* The functions of the masters.  A master enters a function (Fresh) or is *)
(* awake again inside it (Again); either way it takes qlock, and either    *)
(* goes to sleep or returns.                                               *)

Fresh(m, op) ==
  /\ mpc[m] = "idle" /\ op \in Ops[m] /\ life = "live"
  /\ CheckFirst => (checked <=> op # "tq_check_init")
Again(m, op) == mpc[m] = op /\ sleeping[m] = "none"

Return(m, r) ==
  /\ mpc' = [mpc EXCEPT ![m] = "idle"]
  /\ ret' = [ret EXCEPT ![m] = r]
  /\ midx' = [midx EXCEPT ![m] = 0]
  /\ mign' = [mign EXCEPT ![m] = {}]

\* go to sleep inside op, with the loop index at i and the argument ign
Sleep(m, op, i, ign) ==
  /\ mpc' = [mpc EXCEPT ![m] = op]
  /\ midx' = [midx EXCEPT ![m] = i]
  /\ mign' = [mign EXCEPT ![m] = ign]
  /\ UNCHANGED ret

\* the first thread, from the index where the function stands, for which P
\* holds; a fresh call starts from thread 0
FromIdx(m, op) == IF mpc[m] = op THEN midx[m] ELSE 0
IsFirst(k, i, P(_)) == k >= i /\ P(k) /\ \A j \in Threads : j >= i /\ j < k => ~P(j)

\* where the loop of tq_check_init() stops: a thread that failed, or one to
\* wait for
Stops(t) == "ERROR" \in state_flags[t] \/ "READY" \notin state_flags[t]

tq_check_init(m) ==
  LET op == "tq_check_init" IN
  /\ Fresh(m, op) \/ Again(m, op)
  /\ qlock = NoOne
  /\ \/ /\ \A t \in Threads : t >= FromIdx(m, op) => ~Stops(t)
        /\ Return(m, 0)
        /\ checked' = TRUE
        /\ UNCHANGED sleeping
     \/ \E k \in Threads :
          /\ IsFirst(k, FromIdx(m, op), Stops)
          /\ IF "ERROR" \in state_flags[k]
             THEN /\ Return(m, -1)
                  /\ checked' = TRUE
                  /\ UNCHANGED sleeping
             ELSE /\ Sleep(m, op, k, {})
                  /\ sleeping' = [sleeping EXCEPT ![m] = "state_resume"]
                  /\ UNCHANGED checked
  /\ UNCHANGED <<qlock, flagVars, ringVars, lifeVars, threadVars, workVars>>

\* workbuff, made by the client for this call, stays with the client if the
\* call fails
tq_enqueue(m) ==
  LET op == "tq_enqueue"
      workbuff == IF mpc[m] = op THEN cur_work[m] ELSE made + 1
  IN
  \E ign \in IF mpc[m] = op THEN {mign[m]} ELSE {{}, {"HALT"}} :
    /\ (Fresh(m, op) /\ made < MaxWork) \/ Again(m, op)
    /\ qlock = NoOne
    /\ made' = IF mpc[m] = op THEN made ELSE made + 1
    /\ \/ /\ qdepth = MaxQDepth /\ con_flags \subseteq ign
          /\ Sleep(m, op, 0, ign)
          /\ cur_work' = [cur_work EXCEPT ![m] = workbuff]
          /\ sleeping' = [Broadcast(sleeping, {"consumer_resume"})
                            EXCEPT ![m] = "producer_resume"]
          /\ UNCHANGED <<ringVars, done>>
       \/ /\ ~(con_flags \subseteq ign)
          /\ Return(m, -1)
          /\ done' = done \cup {workbuff}
          /\ cur_work' = [cur_work EXCEPT ![m] = NULL]
          /\ UNCHANGED <<sleeping, ringVars>>
       \/ /\ qdepth # MaxQDepth /\ con_flags \subseteq ign
          /\ PutTail(workbuff)
          /\ cur_work' = [cur_work EXCEPT ![m] = NULL]
          /\ sleeping' \in WakeConsumer(sleeping, qdepth)
          /\ Return(m, 0)
          /\ UNCHANGED done
    /\ UNCHANGED <<qlock, flagVars, lifeVars, pc, act_thrds, checked>>

tq_dequeue(m) ==
  LET op == "tq_dequeue" IN
  \E ign \in IF mpc[m] = op THEN {mign[m]} ELSE {{}, {"HALT"}, {"HALT", "ABORT"}} :
    /\ Fresh(m, op) \/ Again(m, op)
    /\ qlock = NoOne
    /\ \/ /\ qdepth = 0 /\ con_flags = {}
          /\ Sleep(m, op, 0, ign)
          /\ sleeping' = [Broadcast(sleeping, {"producer_resume"})
                            EXCEPT ![m] = "consumer_resume"]
          /\ UNCHANGED <<ringVars, done>>
       \/ /\ \/ qdepth = 0 /\ con_flags # {}
             \/ ~(con_flags \subseteq ign \cup {"FINISHED"})
          /\ Return(m, IF con_flags \subseteq ign \cup {"FINISHED"} THEN 0 ELSE -1)
          /\ UNCHANGED <<sleeping, ringVars, done>>
       \/ /\ qdepth > 0 /\ con_flags \subseteq ign \cup {"FINISHED"}
          /\ done' = done \cup {workpkg[head]}
          /\ TakeHead /\ UNCHANGED workpkg
          /\ sleeping' \in IF con_flags = {} THEN WakeProducer(sleeping, qdepth) ELSE {sleeping}
          /\ Return(m, qdepth)
    /\ UNCHANGED <<qlock, flagVars, lifeVars, threadVars, checked, made>>

tq_set_flags(m) ==
  /\ Fresh(m, "tq_set_flags") /\ qlock = NoOne
  /\ \E f \in SetFlags : con_flags' = con_flags \cup {f}
  /\ sleeping' = Broadcast(sleeping, CondVars)
  /\ Return(m, 0)
  /\ UNCHANGED <<qlock, state_flags, ringVars, lifeVars, threadVars, checked, workVars>>

tq_unset_flags(m) ==
  /\ Fresh(m, "tq_unset_flags") /\ qlock = NoOne
  /\ \E f \in UnsetFlags : con_flags' = con_flags \ {f}
  /\ sleeping' = Broadcast(sleeping, CondVars)
  /\ Return(m, 0)
  /\ UNCHANGED <<qlock, state_flags, ringVars, lifeVars, threadVars, checked, workVars>>

\* what tq_wait_for_pause() waits out
NotHaltedProd(t) == t < NumProd /\ "HALTED" \notin state_flags[t]      \* Mutant.
NotHalted(t) == "HALTED" \notin state_flags[t]

\* where it stands, m finds every other thread HALTED
PauseSucceeds(m) ==
  con_flags = {"HALT"} /\ \A t \in Threads : t >= FromIdx(m, "tq_wait_for_pause") => ~NotHalted(t)

tq_wait_for_pause(m) ==
  LET op == "tq_wait_for_pause" IN
  /\ Fresh(m, op) \/ Again(m, op)
  /\ qlock = NoOne
  /\ \/ /\ ~Has("HALT") \/ Has("FINISHED") \/ Has("ABORT")
        /\ Return(m, -1)
        /\ UNCHANGED sleeping
     \/ /\ PauseSucceeds(m)
        /\ Return(m, 0)
        /\ UNCHANGED sleeping
     \/ /\ con_flags = {"HALT"}
        /\ \E k \in Threads :
             /\ IsFirst(k, FromIdx(m, op), NotHalted)
             /\ Sleep(m, op, k, {})
        /\ sleeping' = [sleeping EXCEPT ![m] = "state_resume"]
  /\ UNCHANGED <<qlock, flagVars, ringVars, lifeVars, threadVars, checked, workVars>>

\* what tq_wait_for_completion() waits out
NotCompleteProd(t) == t < NumProd /\ "READY" \in state_flags[t]        \* Mutant.
NotComplete(t) == "READY" \in state_flags[t]

CompletionSucceeds(m) ==
  /\ Has("FINISHED") /\ ~Has("ABORT")
  /\ \A t \in Threads : t >= FromIdx(m, "tq_wait_for_completion") => ~NotComplete(t)

tq_wait_for_completion(m) ==
  LET op == "tq_wait_for_completion" IN
  /\ Fresh(m, op) \/ Again(m, op)
  /\ qlock = NoOne
  /\ \/ /\ ~Has("FINISHED") \/ Has("ABORT")
        /\ Return(m, -1)
        /\ UNCHANGED sleeping
     \/ /\ CompletionSucceeds(m)
        /\ Return(m, 0)
        /\ UNCHANGED sleeping
     \/ /\ Has("FINISHED") /\ ~Has("ABORT")
        /\ \E k \in Threads :
             /\ IsFirst(k, FromIdx(m, op), NotComplete)
             /\ IF k < NumProd /\ NumCons = 0 /\ qdepth > 0
                THEN Return(m, 1) /\ UNCHANGED sleeping
                ELSE /\ Sleep(m, op, k, {})
                     /\ sleeping' = [sleeping EXCEPT ![m] = "state_resume"]
  /\ UNCHANGED <<qlock, flagVars, ringVars, lifeVars, threadVars, checked, workVars>>

tq_wait_for_flags(m) ==
  LET op == "tq_wait_for_flags" IN
  \E ign \in IF mpc[m] = op THEN {mign[m]} ELSE {{}, {"HALT"}} :
    /\ Fresh(m, op) \/ Again(m, op)
    /\ qlock = NoOne
    /\ IF con_flags \subseteq ign
       THEN /\ Sleep(m, op, 0, ign)
            /\ sleeping' = [sleeping EXCEPT ![m] = "state_resume"]
       ELSE Return(m, 0) /\ UNCHANGED sleeping
    /\ UNCHANGED <<qlock, flagVars, ringVars, lifeVars, threadVars, checked, workVars>>

\* up to pthread_join(), which is called with qlock held; the flags and the
\* tID are looked at once, before any sleep
tq_next_thread_status(m) ==
  LET op  == "tq_next_thread_status"
      tID == IF mpc[m] = op THEN midx[m] ELSE NumThreads - uncoll_thrds
  IN
  /\ Fresh(m, op) \/ Again(m, op)
  /\ qlock = NoOne
  /\ IF mpc[m] # op /\ (~(Has("FINISHED") \/ Has("ABORT")) \/ uncoll_thrds = 0)
     THEN /\ Return(m, IF Has("FINISHED") \/ Has("ABORT") THEN 0 ELSE -1)
          /\ UNCHANGED lockVars
     ELSE IF "READY" \in state_flags[tID]
     THEN /\ Sleep(m, op, tID, {})
          /\ sleeping' = [sleeping EXCEPT ![m] = "state_resume"]
          /\ UNCHANGED qlock
     ELSE /\ Sleep(m, "pthread_join", tID, {})
          /\ qlock' = m
          /\ UNCHANGED sleeping
  /\ UNCHANGED <<flagVars, ringVars, lifeVars, threadVars, checked, workVars>>

\* pthread_join() returns once the thread has exited
JoinThread(m) ==
  /\ mpc[m] = "pthread_join" /\ Exited(midx[m])
  /\ uncoll_thrds' = uncoll_thrds - 1
  /\ qlock' = NoOne
  /\ Return(m, uncoll_thrds)
  /\ UNCHANGED <<sleeping, flagVars, ringVars, life, newtID, createfail, role,
                 threadVars, checked, workVars>>

\* tq_close() takes a FINISHED or ABORTed queue whose threads are collected
NotClosable == ~(Has("FINISHED") \/ Has("ABORT")) \/ uncoll_thrds # 0

\* the queue is freed only when nothing is left in it
tq_close(m) ==
  /\ Fresh(m, "tq_close") /\ qlock = NoOne
  /\ IF NotClosable
     THEN Return(m, -1) /\ UNCHANGED life
     ELSE /\ Return(m, qdepth)
          /\ life' = IF qdepth = 0 THEN "freed" ELSE life
  /\ UNCHANGED <<lockVars, flagVars, ringVars, uncoll_thrds, newtID, createfail,
                 role, threadVars, checked, workVars>>

-----------------------------------------------------------------------------
CreateNext == CreateThread \/ CreateProducerFails \/ CreateConsumerFails
              \/ InitReturns \/ InitAborts

ThreadNext(t) ==
  \/ ThreadInit(t)
  \/ ThreadResume(t, "initwait", "initloop") \/ ThreadResume(t, "wait", "loop")
  \/ ConsumerPause(t) \/ ConsumerQuit(t) \/ ConsumerTake(t) \/ ConsumerWork(t)
  \/ ProducerInitPause(t) \/ ProducerStart(t) \/ ProducerWork(t)
  \/ ProducerPause(t) \/ ProducerAbort(t) \/ ProducerPut(t)
  \/ ThreadExit(t)

MasterNext(m) ==
  \/ tq_check_init(m) \/ tq_enqueue(m) \/ tq_dequeue(m)
  \/ tq_set_flags(m) \/ tq_unset_flags(m)
  \/ tq_wait_for_pause(m) \/ tq_wait_for_completion(m) \/ tq_wait_for_flags(m)
  \/ tq_next_thread_status(m) \/ JoinThread(m) \/ tq_close(m)

Next ==
  \/ CreateNext
  \/ \E t \in Threads : ThreadNext(t)
  \/ \E m \in Masters : MasterNext(m)
  \/ \E p \in Threads \cup Masters : SpuriousWake(p)

Spec == Init /\ [][Next]_vars

\* tq_init(), a thread and a master inside a function go on if they can, and
\* the mutex starves no one who keeps asking for it, hence strong fairness.
\* Nothing obliges a master to call another function.
InCall(m) == mpc[m] # "idle" /\ MasterNext(m)
Fairness ==
  /\ SF_vars(CreateNext)
  /\ \A t \in Threads : SF_vars(ThreadNext(t))
  /\ \A m \in Masters : SF_vars(InCall(m))
FairSpec == Spec /\ Fairness

-----------------------------------------------------------------------------
(* Properties.                                                             *)

ThreadPCs == {"unborn", "init", "initloop", "initwait", "loop", "wait", "work",
              "term", "exited", "failed"}
OpNames   == {"tq_check_init", "tq_enqueue", "tq_dequeue", "tq_set_flags",
              "tq_unset_flags", "tq_wait_for_pause", "tq_wait_for_completion",
              "tq_wait_for_flags", "tq_next_thread_status", "tq_close"}

\* Every variable stays within the type its C counterpart can take.
TypeOK ==
  /\ qlock \in Threads \cup Masters \cup {NoOne}
  /\ con_flags \in SUBSET Flags
  /\ state_flags \in [Threads -> SUBSET StateFlags]
  /\ sleeping \in [Threads \cup Masters -> CondVars \cup {"none"}]
  /\ workpkg \in [0 .. (MaxQDepth - 1) -> Work \cup {NULL}]
  /\ head \in 0 .. (MaxQDepth - 1) /\ tail \in 0 .. (MaxQDepth - 1)
  /\ qdepth \in 0 .. MaxQDepth
  /\ act_thrds \in [Pools -> 0 .. (UintMod - 1)]
  /\ uncoll_thrds \in 0 .. NumThreads
  /\ life \in {"creating", "live", "aborting", "freed"}
  /\ newtID \in 0 .. NumThreads /\ createfail \in BOOLEAN
  /\ role \in [Threads -> Pools \cup {"none"}]
  /\ pc \in [Threads -> ThreadPCs]
  /\ cur_work \in [Threads \cup Masters -> Work \cup {NULL}]
  /\ mpc \in [Masters -> OpNames \cup {"idle", "pthread_join"}]
  /\ midx \in [Masters -> Threads]
  /\ mign \in [Masters -> SUBSET Flags]
  /\ ret \in [Masters -> Int]
  /\ checked \in BOOLEAN
  /\ made \in 0 .. MaxWork /\ done \in SUBSET Work

\* The i-th ring slot from h on; the slots that hold a package.
Slot(h, i) == IF h + i < MaxQDepth THEN h + i ELSE h + i - MaxQDepth
Live       == {Slot(head, i) : i \in 0 .. (qdepth - 1)}

\* Where package w is.
Places(w) ==
  {<<"held", p>> : p \in {p \in Threads \cup Masters : cur_work[p] = w}}
    \cup {<<"ring", i>> : i \in {i \in Live : workpkg[i] = w}}
    \cup (IF w \in done THEN {<<"client", 0>>} ELSE {})

\* Every package ever made is in exactly one place: with one thread, with a
\* master asleep in tq_enqueue(), in one live slot of the ring, or handed
\* back to the client.  No interleaving of producers, consumers, masters,
\* HALT and ABORT loses a package or delivers it twice.
NoWorkLostOrDuplicated == \A w \in 1 .. made : \E x \in Places(w) : Places(w) = {x}

\* The ring as the sequence of its packages.
Queue == [i \in 1 .. qdepth |-> workpkg[Slot(head, i - 1)]]
Fifo  == INSTANCE WorkFifo WITH
           Procs <- Threads \cup Masters, Depth <- MaxQDepth,
           q <- Queue, held <- cur_work

\* ThreadQueue implements WorkFifo: packages are delivered in the order they
\* were enqueued, none is lost, duplicated or invented, and no more than
\* max_qdepth of them wait.
ImplementsFifo == Fifo!Spec

\* Parked threads: asleep in a holding pattern, or past their last work.
Parked == {"initwait", "wait", "term", "exited"}

\* act_thrds, by which the wake-up decisions are made, always counts the
\* threads of the pool that are neither asleep nor terminated; one whose
\* initialisation failed exits without being taken off the count.
ActThrdsExact ==
  ~createfail => \A p \in Pools :
    act_thrds[p] = Cardinality({t \in Threads : (t < NumProd) = (p = "prod") /\ pc[t] \notin Parked})

\* A thread that has reported HALTED is not in its work function while HALT
\* stands alone: what tq_wait_for_pause() concludes from HALTED stays true.
HaltedThreadsStayPut ==
  con_flags = {"HALT"} => \A t \in Threads : "HALTED" \in state_flags[t] => pc[t] # "work"

\* m can take the lock at the start of op or inside it.
MayProceed(m, op) == qlock = NoOne /\ (Fresh(m, op) \/ Again(m, op))

\* tq_wait_for_pause() returns zero only when no thread is at work.
PauseIsQuiescent ==
  \A m \in Masters :
    MayProceed(m, "tq_wait_for_pause") /\ PauseSucceeds(m)
      => \A t \in Threads : pc[t] \in {"initwait", "wait"}

\* tq_wait_for_completion() returns zero only when every thread is past its
\* last work package and, if there are consumers, none is left in the ring.
CompletionIsComplete ==
  \A m \in Masters :
    MayProceed(m, "tq_wait_for_completion") /\ CompletionSucceeds(m)
      => /\ \A t \in Threads : pc[t] \in {"term", "exited"}
         /\ NumCons > 0 => qdepth = 0

\* Once the queue is freed, by tq_close() or by a failing tq_init(), no
\* thread will touch it again; and tq_close() frees it only when every
\* package is back with the client, be it in a call that has yet to fail.
FreedIsQuiet ==
  life = "freed" => /\ \A t \in Threads : Exited(t) \/ pc[t] = "unborn"
                    /\ createfail \/ done \cup ({cur_work[m] : m \in Masters} \ {NULL}) = 1 .. made

\* No package is lost or delivered twice, from the first call to the last.
WorkIsSafe == NoWorkLostOrDuplicated /\ FreedIsQuiet

\* A FINISHED queue is consumed to the end: consumers do not all leave while
\* a producer may still enqueue.
ConsumersOutliveProducers ==
  /\ NumCons > 0 /\ ~Has("ABORT")
  /\ \A t \in Threads : t >= NumProd => pc[t] \in {"term", "exited"}
  => qdepth = 0 /\ \A t \in Threads : t < NumProd => pc[t] \in {"term", "exited"}

AllExited == \A t \in Threads : pc[t] = "unborn" \/ Exited(t)

\* ABORT gets every thread out, wherever it was.
AbortDrains == Has("ABORT") ~> (AllExited \/ ~Has("ABORT"))

\* So does FINISHED, HALT or no HALT, once the last packages are through.
FinishDrains == Has("FINISHED") ~> (AllExited \/ ~Has("FINISHED"))

\* A call of op by some master comes back.
Returns(op) == \A m \in Masters : (mpc[m] = op) ~> (mpc[m] # op)

EnqueueReturns    == Returns("tq_enqueue")

\* FINISHED and ABORT get every thread out, and a blocked enqueue comes back.
Drains == AbortDrains /\ FinishDrains /\ EnqueueReturns

\* A queue is finished when it says so, and its consumers stay until then.
EndIsReached == CompletionIsComplete /\ ConsumersOutliveProducers
=============================================================================
