--------------------------- MODULE ResourceManager ---------------------------
(***************************************************************************)
(* One iteration of the resource manager: rank 0 (managerbehavior) hands   *)
(* out ranges of the reference directories of the namespaces to the other  *)
(* ranks (workerbehavior), each of which runs producer threads that take   *)
(* one directory after the other from a shared RESOURCEINPUT and reports   *)
(* what they found when a namespace is completed.  From the reports the    *)
(* manager sets the usage of the namespaces.  Any thread may meet a fatal  *)
(* error.                                                                  *)
(*                                                                         *)
(* Threads that wait on a condition variable sleep until it is signalled,  *)
(* so that a signal that is missing, or comes too early, is seen.          *)
(***************************************************************************)
EXTENDS Integers, FiniteSets

CONSTANTS
  Ranks,      \* the working ranks
  Producers,  \* the producer threads of a rank
  NSCount,    \* number of namespaces
  RefNodes,   \* the number of reference directories of each
  Absent,     \* the directories that do not exist, as <<namespace, index>>
  MaxFatal    \* bound: how many threads meet a fatal error

ASSUME RManAssumption ==
  /\ IsFiniteSet(Ranks) /\ Ranks # {} /\ IsFiniteSet(Producers) /\ Producers # {}
  /\ NSCount \in Nat /\ RefNodes \in [0 .. NSCount - 1 -> Nat] /\ MaxFatal \in Nat

VARIABLES
  mgr,       \* the state of the manager
  req, resp, \* the message to a rank, and from it
  rank,      \* the main thread of a rank
  rin,       \* its RESOURCEINPUT
  prod,      \* its producer threads
  failures

vars == <<mgr, req, resp, rank, rin, prod, failures>>

NS == 0 .. NSCount - 1
Refs == UNION {0 .. RefNodes[ns] - 1 : ns \in NS}
workingranks == Cardinality(Ranks)
Nothing == [type |-> "none"]
Zero == [i \in Refs |-> 0]
\* the least element of a set that is not empty
Least(S) == CHOOSE i \in S : \A j \in S : i <= j

-----------------------------------------------------------------------------
(* Ranges of reference directories *)

\* getNSrange(): the first ranks get one more when the directories cannot be shared evenly.
\* Mutant: they do not start later for it.
RangeMinShort(ns, d) == d * (RefNodes[ns] \div workingranks)
RangeMin(ns, d) ==
  LET remainder == RefNodes[ns] % workingranks
  IN  d * (RefNodes[ns] \div workingranks) + (IF d > remainder THEN remainder ELSE d)
RangeMax(ns, d) ==
  RangeMin(ns, d) + RefNodes[ns] \div workingranks + (IF d < RefNodes[ns] % workingranks THEN 1 ELSE 0)

-----------------------------------------------------------------------------
(* RESOURCEINPUT: refindex .. refmax - 1 are yet to be handed out.         *)
(* updated and complete are the threads that sleep on its conditions.      *)

NewInput == [refindex |-> 0, refmax |-> 0, prepterm |-> 0, clientcount |-> Cardinality(Producers),
             orig |-> 0, updated |-> {}, complete |-> FALSE]
Empty(i) == i.refindex = i.refmax
SignalComplete(i)   == [i EXCEPT !.complete = FALSE]
BroadcastUpdated(i) == [i EXCEPT !.updated = {}]

\* resourceinput_setrange() refuses when directories are left, the end is near, or there are
\* not that many.
RefusesRange(i, ns, d) == ~Empty(i) \/ i.prepterm # 0 \/ RangeMax(ns, d) > RefNodes[ns]
SetRange(i, ns, d) ==
  BroadcastUpdated([i EXCEPT !.refindex = RangeMin(ns, d), !.refmax = RangeMax(ns, d)])
\* resourceinput_purge(): nothing is left, and everybody gets to know
Purge(i) == SignalComplete(BroadcastUpdated([i EXCEPT !.refindex = i.refmax, !.prepterm = 3]))

\* rthread_producer_func() has dealt with all of its directory, counted what it found, and
\* calls resourceinput_getnext(): directories that do not exist are passed over
Candidates(ns, i) == {n \in i.refindex .. i.refmax - 1 : <<ns, n>> \notin Absent}
GetNext(r, p) ==
  LET i    == rin[r]
      cand == Candidates(rank[r].ns, i)
      next == IF cand = {} THEN i.refmax ELSE Least(cand) + 1
      j    == [i EXCEPT !.refindex = next]
  IN  /\ prod[r][p].at \in {"get", "busy"}
      /\ rin' = [rin EXCEPT ![r] = IF next = i.refmax /\ ~Empty(i) THEN SignalComplete(j) ELSE j]
      /\ prod' = [prod EXCEPT ![r][p] =
           IF cand # {} THEN [@ EXCEPT !.at = "busy", !.ref = Least(cand)]
           ELSE [@ EXCEPT !.at = IF i.prepterm # 0 THEN "term" ELSE "update", !.ref = 0]]
      /\ rank' = IF prod[r][p].at = "get" THEN rank
                 ELSE [rank EXCEPT ![r].report[prod[r][p].ref] = @ + 1]
      /\ UNCHANGED <<mgr, req, resp, failures>>
Awake(r, p) == p \notin rin[r].updated
Sleep(i, p) == [i EXCEPT !.updated = @ \cup {p}]
\* resourceinput_waitforupdate()
WaitForUpdate(r, p) ==
  /\ prod[r][p].at = "update" /\ Awake(r, p)
  /\ IF Empty(rin[r]) /\ rin[r].prepterm = 0
     THEN rin' = [rin EXCEPT ![r] = Sleep(rin[r], p)] /\ UNCHANGED prod
     ELSE prod' = [prod EXCEPT ![r][p].at = "get"] /\ UNCHANGED rin
  /\ UNCHANGED <<mgr, req, resp, rank, failures>>
\* resourceinput_waitforterm(): a client says once that it has come to the end, and again
\* that it leaves; then its thread ends
SaysSo(i) == SignalComplete([i EXCEPT !.clientcount = @ - 1])
Leaves(i) == SignalComplete([i EXCEPT !.clientcount = IF i.prepterm = 2 THEN @ + 1 ELSE @])
WaitForTerm(r, p) ==
  LET says == ~prod[r][p].dec /\ rin[r].prepterm = 1
  IN  /\ prod[r][p].at = "term" /\ Awake(r, p)
      /\ IF rin[r].prepterm < 2
         THEN /\ rin' = [rin EXCEPT ![r] =
                   IF says THEN Sleep(SaysSo(rin[r]), p) ELSE Sleep(rin[r], p)]
              /\ prod' = [prod EXCEPT ![r][p].dec = @ \/ says]
         ELSE /\ rin' = [rin EXCEPT ![r] = Leaves(rin[r])]
              /\ prod' = [prod EXCEPT ![r][p].at = "end"]
      /\ UNCHANGED <<mgr, req, resp, rank, failures>>

-----------------------------------------------------------------------------
(* The threads of a rank *)

\* rthread_init_func(): a thread starts at once.  Mutant: it is started halted, as for a pause.
NoProducer  == [at |-> "none", ref |-> 0, dec |-> FALSE, fatal |-> FALSE]
NewProducerHalted == NoProducer
NewProducer == [NoProducer EXCEPT !.at = "get"]

Fail(r) == /\ failures < MaxFatal /\ failures' = failures + 1
           /\ rin' = [rin EXCEPT ![r] = Purge(rin[r])]
\* rthread_producer_func() met a fatal error in its directory
ProducerFails(r, p) ==
  /\ prod[r][p].at = "busy" /\ Fail(r)
  /\ prod' = [prod EXCEPT ![r][p].at = "end", ![r][p].fatal = TRUE]
  /\ UNCHANGED <<mgr, req, resp, rank>>
\* rthread_consumer_func() met one
ConsumerFails(r) ==
  /\ rank[r].rlog /\ rank[r].at # "exit" /\ Fail(r)
  /\ rank' = [rank EXCEPT ![r].consfatal = TRUE]
  /\ UNCHANGED <<mgr, req, resp, prod>>

-----------------------------------------------------------------------------
(* The main thread of a rank: handlerequest() *)

NewRank == [at |-> "recv", ns |-> 0, rlog |-> FALSE, report |-> Zero, consfatal |-> FALSE]
Respond(r, fatal, info) ==
  resp' = [resp EXCEPT ![r] = [type |-> req[r].type, ns |-> req[r].ns, fatal |-> fatal, info |-> info,
                               report |-> rank[r].report]]
Answered(r) == req' = [req EXCEPT ![r] = Nothing]
\* an answer, after which the rank waits for the next request, or leaves workerbehavior()
Next_(r)  == rank' = [rank EXCEPT ![r].at = "recv"]
Leave(r)  == rank' = [rank EXCEPT ![r].at = "exit"]
Requested(r, type) == rank[r].at = "recv" /\ req[r].type = type

\* NS_WORK: the first one in a namespace sets up the rank for it (setranktgt)
NSWork(r) ==
  LET first == ~rank[r].rlog
      i     == IF first THEN NewInput ELSE rin[r]
      d     == req[r].refdist
      none  == RangeMin(req[r].ns, d) = RangeMax(req[r].ns, d)
      bad   == ~none /\ RefusesRange(i, req[r].ns, d)
      base  == IF first THEN [NewRank EXCEPT !.ns = req[r].ns, !.rlog = TRUE] ELSE rank[r]
  IN  /\ Requested(r, "NS")
      /\ prod' = IF first THEN [prod EXCEPT ![r] = [p \in Producers |-> NewProducer]] ELSE prod
      /\ rin' = [rin EXCEPT ![r] = IF none \/ bad THEN i ELSE SetRange(i, req[r].ns, d)]
      /\ rank' = [rank EXCEPT ![r] =
                    [base EXCEPT !.at = IF bad THEN "exit" ELSE IF none THEN "recv" ELSE "comp"]]
      /\ IF bad \/ none THEN Respond(r, bad, FALSE) /\ Answered(r) ELSE UNCHANGED <<req, resp>>
      /\ UNCHANGED <<mgr, failures>>
\* resourceinput_waitforcomp()
WaitForComp(r) ==
  /\ rank[r].at = "comp" /\ ~rin[r].complete
  /\ IF Empty(rin[r]) THEN Respond(r, FALSE, FALSE) /\ Answered(r) /\ Next_(r) /\ UNCHANGED rin
     ELSE rin' = [rin EXCEPT ![r].complete = TRUE] /\ UNCHANGED <<req, resp, rank>>
  /\ UNCHANGED <<mgr, prod, failures>>

\* COMPLETE_WORK: resourceinput_term() asks the clients to come to the end, waits for them,
\* lets them leave, and waits for that, too.  When it refuses, the error is only logged.
AsksToEnd(i) ==
  BroadcastUpdated([i EXCEPT !.orig = i.clientcount, !.prepterm = IF @ < 1 THEN 1 ELSE @])
CompleteWork(r) ==
  /\ Requested(r, "COMPLETE")
  /\ IF ~rank[r].rlog
     THEN Respond(r, TRUE, FALSE) /\ Answered(r) /\ Leave(r) /\ UNCHANGED rin
     ELSE /\ UNCHANGED <<req, resp>>
          /\ IF ~Empty(rin[r]) \/ rin[r].prepterm > 2
             THEN rank' = [rank EXCEPT ![r].at = "status"] /\ UNCHANGED rin
             ELSE /\ rank' = [rank EXCEPT ![r].at = "term"]
                  /\ rin' = [rin EXCEPT ![r] = AsksToEnd(rin[r])]
  /\ UNCHANGED <<mgr, prod, failures>>
StillComing(i) == i.prepterm < 2 /\ i.clientcount > 0
LetsGo(i) == BroadcastUpdated([i EXCEPT !.prepterm = IF @ < 2 THEN 2 ELSE @])
Term(r) ==
  /\ rank[r].at = "term" /\ ~rin[r].complete
  /\ IF StillComing(rin[r])
     THEN rin' = [rin EXCEPT ![r].complete = TRUE] /\ UNCHANGED rank
     ELSE /\ rin' = [rin EXCEPT ![r] = LetsGo(rin[r])]
          /\ rank' = [rank EXCEPT ![r].at = "leaving"]
  /\ UNCHANGED <<mgr, req, resp, prod, failures>>
StillThere(i) == i.prepterm < 3 /\ i.clientcount < i.orig
TermLeaving(r) ==
  /\ rank[r].at = "leaving" /\ ~rin[r].complete
  /\ IF StillThere(rin[r])
     THEN rin' = [rin EXCEPT ![r].complete = TRUE] /\ UNCHANGED rank
     ELSE rin' = [rin EXCEPT ![r].prepterm = 3] /\ rank' = [rank EXCEPT ![r].at = "status"]
  /\ UNCHANGED <<mgr, req, resp, prod, failures>>
\* the threads are joined and their reports collected; one that met a fatal error is fatal.
\* Mutant: the consumers are not asked.
ProducersFatal(r) == \E p \in Producers : prod[r][p].fatal
AnyFatal(r) == rank[r].consfatal \/ \E p \in Producers : prod[r][p].fatal
Collect(r) ==
  /\ rank[r].at = "status" /\ \A p \in Producers : prod[r][p].at = "end"
  /\ Respond(r, AnyFatal(r), ~AnyFatal(r)) /\ Answered(r)
  /\ IF AnyFatal(r) THEN Leave(r) /\ UNCHANGED <<rin, prod>>
     ELSE /\ rank' = [rank EXCEPT ![r] = NewRank]
          /\ prod' = [prod EXCEPT ![r] = [p \in Producers |-> NoProducer]]
          /\ rin' = [rin EXCEPT ![r] = NewInput]
  /\ UNCHANGED <<mgr, failures>>
\* TERMINATE_WORK and ABORT_WORK: the rank answers and leaves
LeaveWork(r) ==
  /\ Requested(r, "TERMINATE") \/ Requested(r, "ABORT")
  /\ Respond(r, FALSE, FALSE) /\ Answered(r) /\ Leave(r)
  /\ UNCHANGED <<mgr, rin, prod, failures>>

-----------------------------------------------------------------------------
(* The manager: handleresponse() *)

Work(ns)  == [type |-> "NS", ns |-> ns, refdist |-> mgr.distributed[ns]]
Order(type, ns) == [type |-> type, ns |-> ns, refdist |-> 0]
Send(r, m) == req' = [req EXCEPT ![r] = m]
HandOut(r, ns) ==
  Send(r, Work(ns)) /\ mgr' = [mgr EXCEPT !.distributed[ns] = @ + 1]
Untouched  == {ns \in NS : mgr.distributed[ns] = 0}
Unfinished == {ns \in NS : mgr.distributed[ns] < workingranks}

\* what a rank found is added up; the first message of a rank is a COMPLETE of no namespace
AfterComplete(r) ==
  LET m == resp[r]
      u == IF ~m.info THEN mgr ELSE [mgr EXCEPT !.usage[m.ns] = [i \in Refs |-> @[i] + m.report[i]]]
      \* a namespace nobody has begun, or help with another one
      ns == Least(IF Untouched # {} THEN Untouched ELSE Unfinished)
  IN  IF Unfinished = {} THEN Send(r, Order("TERMINATE", 0)) /\ mgr' = u
      ELSE Send(r, Work(ns)) /\ mgr' = [u EXCEPT !.distributed[ns] = @ + 1]
AfterNS(r) ==
  IF resp[r].ns \in Unfinished THEN HandOut(r, resp[r].ns)
  ELSE Send(r, Order("COMPLETE", resp[r].ns)) /\ UNCHANGED mgr
Gone(r) == [mgr EXCEPT !.terminated = @ \cup {r}]
HandleResponse(r) ==
  LET m == resp[r]
  IN  /\ m.type # "none" /\ ~mgr.done
      /\ resp' = [resp EXCEPT ![r] = Nothing]
      /\ IF m.fatal THEN mgr' = [Gone(r) EXCEPT !.fatal = TRUE] /\ UNCHANGED req
         ELSE IF mgr.fatal /\ m.type # "ABORT" THEN Send(r, Order("ABORT", 0)) /\ UNCHANGED mgr
         ELSE IF m.type \in {"TERMINATE", "ABORT"} THEN mgr' = Gone(r) /\ UNCHANGED req
         ELSE IF m.type = "COMPLETE" THEN AfterComplete(r)
         ELSE AfterNS(r)
      /\ UNCHANGED <<rank, rin, prod, failures>>
\* managerbehavior(): all ranks are gone, the usage of the namespaces is set
Finish ==
  /\ ~mgr.done /\ mgr.terminated = Ranks
  /\ mgr' = [mgr EXCEPT !.done = TRUE]
  /\ UNCHANGED <<req, resp, rank, rin, prod, failures>>

-----------------------------------------------------------------------------
Init ==
  /\ mgr = [distributed |-> [ns \in NS |-> 0], usage |-> [ns \in NS |-> Zero], fatal |-> FALSE,
            terminated |-> {}, done |-> FALSE]
  /\ req = [r \in Ranks |-> Nothing]
  /\ resp = [r \in Ranks |-> [type |-> "COMPLETE", ns |-> NSCount, fatal |-> FALSE, info |-> FALSE,
                              report |-> Zero]]
  /\ rank = [r \in Ranks |-> NewRank] /\ rin = [r \in Ranks |-> NewInput]
  /\ prod = [r \in Ranks |-> [p \in Producers |-> NoProducer]] /\ failures = 0

Main(r) == \/ NSWork(r) \/ WaitForComp(r) \/ CompleteWork(r) \/ Term(r) \/ TermLeaving(r)
           \/ Collect(r) \/ LeaveWork(r)
Thread(r, p) == GetNext(r, p) \/ WaitForUpdate(r, p) \/ WaitForTerm(r, p)
Step ==
  \/ \E r \in Ranks : Main(r) \/ HandleResponse(r)
  \/ \E r \in Ranks, p \in Producers : Thread(r, p)
  \/ Finish
Next ==
  \/ Step
  \/ \E r \in Ranks : ConsumerFails(r)
  \/ \E r \in Ranks, p \in Producers : ProducerFails(r, p)

\* as long as some thread can go on, one does: no fairness among them is asked for
Fairness == WF_vars(Step)
Spec == Init /\ [][Next]_vars /\ Fairness

-----------------------------------------------------------------------------
(* Properties *)

\* Without a fatal error the usage that is set counts every directory of every namespace, and
\* none twice, however the ranges were shared among ranks and threads (managerbehavior).
UsageIsComplete ==
  mgr.done /\ ~mgr.fatal =>
    \A ns \in NS, i \in Refs :
      mgr.usage[ns][i] = IF i < RefNodes[ns] /\ <<ns, i>> \notin Absent THEN 1 ELSE 0
\* No directory is ever in the hands of two threads, or handed out again: its streams would be
\* walked, repacked and collected twice at the same time (resourceinput_getnext).
Work_(r, p) == <<rank[r].ns, prod[r][p].ref>>
EachRefOnce ==
  /\ \A r, s \in Ranks, p, q \in Producers :
       prod[r][p].at = "busy" /\ prod[s][q].at = "busy" /\ Work_(r, p) = Work_(s, q) => r = s /\ p = q
  /\ \A r \in Ranks, p \in Producers :
       prod[r][p].at = "busy" /\ prod[r][p].ref \in Refs =>
         mgr.usage[rank[r].ns][prod[r][p].ref] + rank[r].report[prod[r][p].ref] = 0
\* An iteration is an error exactly when some thread met one: an error is not lost in the
\* handshake of the threads, in a response or in the sum, and none is made up by a rank that
\* is asked for what it cannot do (handlerequest, handleresponse).
FatalIsReported == mgr.done => (mgr.fatal <=> failures > 0)
\* A rank tears down the input of its threads only when they have left it
\* (resourceinput_term, resourceinput_destroy).
InputOutlivesThreads ==
  \A r \in Ranks : rank[r].at = "status" /\ failures = 0 =>
    /\ rin[r].clientcount = Cardinality(Producers)
    /\ \A p \in Producers : prod[r][p].at = "end"
\* The iteration comes to an end, errors or not, except when an error is reported after
\* another rank was told to terminate and before its answer was read.
TooLate == mgr.fatal /\ \E r \in Ranks : resp[r].type = "TERMINATE"
IterationEnds == <>(mgr.done \/ TooLate)

\* Every reference directory is scanned by one thread, once, and counted in what is reported.
ScannedOnce == UsageIsComplete /\ EachRefOnce

\* No thread and no error is forgotten when a rank is through with its range.
NoneForgotten == FatalIsReported /\ InputOutlivesThreads
=============================================================================
