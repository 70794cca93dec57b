------------------------ MODULE ResourceManagerProofs ------------------------
(***************************************************************************)
(* Proofs about ResourceManager: every reference directory is scanned      *)
(* once, and no thread and no error is forgotten, for any number of ranks, *)
(* producers, namespaces, directories and fatal errors.                    *)
(***************************************************************************)
EXTENDS ResourceManager, FiniteSetTheorems, WellFoundedInduction, TLAPS

-----------------------------------------------------------------------------
(* The inductive invariant *)

Counts   == [Refs -> Nat]
Managers == [distributed : [NS -> Nat], usage : [NS -> Counts], fatal : BOOLEAN, terminated : SUBSET Ranks,
             done : BOOLEAN]
Types    == {"NS", "COMPLETE", "TERMINATE", "ABORT"}
Requests == [type : Types, ns : Nat, refdist : Nat]
Answers  == [type : Types, ns : Nat, fatal : BOOLEAN, info : BOOLEAN, report : Counts]
MainThreads == [at : {"recv", "comp", "term", "leaving", "status", "exit"}, ns : Nat, rlog : BOOLEAN,
                report : Counts, consfatal : BOOLEAN]
Inputs   == [refindex : Nat, refmax : Nat, prepterm : 0 .. 3, clientcount : Int, orig : Int,
             updated : SUBSET Producers, complete : BOOLEAN]
ProducerThreads == [at : {"none", "get", "busy", "update", "term", "end"}, ref : Nat, dec : BOOLEAN,
                    fatal : BOOLEAN]

RManTypeOK ==
  /\ mgr \in Managers
  /\ req \in [Ranks -> Requests \cup {Nothing}]
  /\ resp \in [Ranks -> Answers \cup {Nothing}]
  /\ rank \in [Ranks -> MainThreads]
  /\ rin \in [Ranks -> Inputs]
  /\ prod \in [Ranks -> [Producers -> ProducerThreads]]
  /\ failures \in Nat

Asked(r)        == req[r].type # "none"
Answered_(r)    == resp[r].type # "none"
Refused(r)      == Answered_(r) /\ resp[r].fatal
Accepted(r, type) == resp[r].type = type /\ ~resp[r].fatal

\* A rank has a message, or the manager has one from it, or it is gone.
MessageOK(r) ==
  /\ Answered_(r) => ~Asked(r) /\ rank[r].at \in {"recv", "exit"}
  /\ Answered_(r) => (rank[r].at = "exit" <=> resp[r].fatal \/ resp[r].type \in {"TERMINATE", "ABORT"})
  /\ Asked(r) /\ rank[r].at = "exit" => req[r].type = "ABORT"
  /\ rank[r].at = "comp" => req[r].type = "NS"
  /\ rank[r].at \in {"term", "leaving", "status"} => req[r].type = "COMPLETE"
  /\ req[r].type = "ABORT" \/ resp[r].type = "ABORT" => mgr.fatal
  /\ r \in mgr.terminated => ~Asked(r) /\ ~Answered_(r)
  /\ ~Asked(r) /\ ~Answered_(r) => rank[r].at = "exit"
\* It is set up for a namespace from its first range of it until it reported about it.
Within(r) ==
  /\ rank[r].rlog => rank[r].ns \in NS
  /\ req[r].type = "NS" =>
       /\ req[r].ns \in NS /\ req[r].refdist < mgr.distributed[req[r].ns]
       /\ rank[r].rlog => rank[r].ns = req[r].ns
  /\ req[r].type = "COMPLETE" => rank[r].rlog /\ rank[r].ns = req[r].ns
  /\ Accepted(r, "NS") => rank[r].rlog /\ rank[r].ns = resp[r].ns
  /\ req[r].type = "TERMINATE" \/ resp[r].type = "TERMINATE" \/ Accepted(r, "COMPLETE") => ~rank[r].rlog
  /\ rank[r].at \in {"comp", "term", "leaving", "status"} => rank[r].rlog
  /\ r \in mgr.terminated => mgr.fatal \/ ~rank[r].rlog
  /\ Answered_(r) /\ resp[r].info => resp[r].ns \in NS /\ Accepted(r, "COMPLETE")
\* One that is not set up has nothing, and one that does not scan has no range.
Unset(r) ==
  ~rank[r].rlog =>
    /\ rank[r].report = Zero /\ ~rank[r].consfatal /\ rin[r] = NewInput
    /\ prod[r] = [p \in Producers |-> NoProducer]
EmptyUnlessScanning(r) == rank[r].at # "comp" => Empty(rin[r])
\* Its ranges are within the namespace.
Bounded(r) ==
  /\ rank[r].rlog => rin[r].refmax <= RefNodes[rank[r].ns]
  /\ \A p \in Producers : prod[r][p].at = "busy" => prod[r][p].ref < RefNodes[rank[r].ns]

\* The handshake of a rank with its threads, where none met an error
Said(r)  == {p \in Producers : prod[r][p].dec}
Left(r)  == {p \in Producers : prod[r][p].at = "end"}
Scanners == {"get", "busy", "update"}
Handshake(r) ==
  /\ rank[r].at \in {"recv", "comp"} /\ rank[r].rlog =>
       /\ rin[r].prepterm = 0 /\ rin[r].clientcount = Cardinality(Producers)
       /\ \A p \in Producers : prod[r][p].at \in Scanners /\ ~prod[r][p].dec
  /\ rank[r].at = "term" =>
       /\ rin[r].prepterm = 1 /\ rin[r].orig = Cardinality(Producers)
       /\ rin[r].clientcount = Cardinality(Producers) - Cardinality(Said(r))
       /\ \A p \in Producers :
            prod[r][p].at \in Scanners \cup {"term"} /\ (prod[r][p].dec => prod[r][p].at = "term")
  /\ rank[r].at = "leaving" =>
       /\ rin[r].prepterm = 2 /\ rin[r].orig = Cardinality(Producers)
       /\ rin[r].clientcount = Cardinality(Left(r))
       /\ \A p \in Producers : prod[r][p].at \in {"term", "end"}
  /\ rank[r].at = "status" =>
       rin[r].clientcount = Cardinality(Producers) /\ \A p \in Producers : prod[r][p].at = "end"
  /\ rank[r].at = "exit" => ~rank[r].rlog

RankInv(r) ==
  /\ MessageOK(r) /\ Within(r) /\ Unset(r) /\ EmptyUnlessScanning(r) /\ Bounded(r)
  /\ Refused(r) \/ AnyFatal(r) => failures > 0
  /\ failures = 0 => Handshake(r)

\* Ranks are let go when all is handed out.
Dismissed(r) == r \in mgr.terminated \/ req[r].type = "TERMINATE" \/ resp[r].type = "TERMINATE"
\* An error is on its way to the manager.
Underway(r)  == Refused(r) \/ (rank[r].rlog /\ AnyFatal(r))
MgrInv ==
  /\ \A ns \in NS : mgr.distributed[ns] <= workingranks
  /\ \A r \in Ranks : Dismissed(r) => mgr.fatal \/ Unfinished = {}
  /\ mgr.fatal => failures > 0
  /\ mgr.done => mgr.terminated = Ranks
  /\ failures > 0 => mgr.fatal \/ \E r \in Ranks : Underway(r)

\* Where directory i of namespace ns may be
ToDo(ns, i)       == i >= RangeMin(ns, mgr.distributed[ns])
InUsage(ns, i)    == mgr.usage[ns][i] # 0
InRequest(r, ns, i) ==
  /\ req[r].type = "NS" /\ rank[r].at = "recv" /\ req[r].ns = ns
  /\ RangeMin(ns, req[r].refdist) <= i /\ i < RangeMax(ns, req[r].refdist)
InRange(r, ns, i)   == rank[r].ns = ns /\ rin[r].refindex <= i /\ i < rin[r].refmax
InHand(r, p, ns, i) == rank[r].ns = ns /\ prod[r][p].at = "busy" /\ prod[r][p].ref = i
InReport(r, ns, i)  == rank[r].ns = ns /\ rank[r].report[i] # 0
InAnswer(r, ns, i)  == Answered_(r) /\ resp[r].info /\ resp[r].ns = ns /\ resp[r].report[i] # 0
Has(r, ns, i) ==
  \/ InRequest(r, ns, i) \/ InRange(r, ns, i) \/ InReport(r, ns, i) \/ InAnswer(r, ns, i)
  \/ \E p \in Producers : InHand(r, p, ns, i)

Exists(ns, i) == i < RefNodes[ns] /\ <<ns, i>> \notin Absent
\* A rank has it in one place; what it found exists, and is counted once.
OnceIn(r, ns, i) ==
  /\ InRequest(r, ns, i) => ~InRange(r, ns, i) /\ ~InReport(r, ns, i) /\ ~InAnswer(r, ns, i)
  /\ InRange(r, ns, i) => ~InReport(r, ns, i) /\ ~InAnswer(r, ns, i) /\ i < RefNodes[ns]
  /\ InReport(r, ns, i) => ~InAnswer(r, ns, i) /\ Exists(ns, i) /\ rank[r].report[i] = 1
  /\ InAnswer(r, ns, i) => Exists(ns, i) /\ resp[r].report[i] = 1
  /\ \A p \in Producers : InHand(r, p, ns, i) =>
       /\ ~InRequest(r, ns, i) /\ ~InRange(r, ns, i) /\ ~InReport(r, ns, i) /\ ~InAnswer(r, ns, i)
       /\ Exists(ns, i)
       /\ \A q \in Producers : InHand(r, q, ns, i) => p = q
\* One rank has it, or the manager has it to hand out, or has counted it; without an error it
\* is somewhere.
Once(ns, i) ==
  /\ \A r, s \in Ranks : Has(r, ns, i) /\ Has(s, ns, i) => r = s
  /\ \A r \in Ranks : Has(r, ns, i) => ~ToDo(ns, i) /\ ~InUsage(ns, i)
  /\ InUsage(ns, i) => ~ToDo(ns, i) /\ Exists(ns, i) /\ mgr.usage[ns][i] = 1
  /\ failures = 0 /\ Exists(ns, i) => ToDo(ns, i) \/ InUsage(ns, i) \/ \E r \in Ranks : Has(r, ns, i)
PlaceInv ==
  \A ns \in NS, i \in Refs : Once(ns, i) /\ \A r \in Ranks : OnceIn(r, ns, i)

RManInv == RManTypeOK /\ (\A r \in Ranks : RankInv(r)) /\ MgrInv /\ PlaceInv

-----------------------------------------------------------------------------
(* Arithmetic, least elements, messages *)

Before == {ss \in Nat \X Nat : ss[1] < ss[2]}
LEMMA BeforeWellFounded == IsWellFoundedOn(Before, Nat)
BY NatLessThanWellFounded DEF OpToRel, Before

LEMMA LeastIsLeast ==
  ASSUME NEW S \in SUBSET Nat, S # {}
  PROVE  Least(S) \in S /\ \A j \in S : Least(S) <= j
<1>1. PICK x \in S : \A y \in S : ~ (<<y, x>> \in Before)
  BY BeforeWellFounded, WFMin
<1>2. \A y \in S : x <= y
  <2> TAKE y \in S
  <2>1. <<y, x>> \in Nat \X Nat
    OBVIOUS
  <2>2. ~(y < x)
    BY <1>1, <2>1 DEF Before
  <2> QED BY <2>2
<1> QED BY <1>2 DEF Least

LEMMA WorkingRanks == workingranks \in Nat \ {0}
BY RManAssumption, FS_CardinalityType, FS_EmptySet DEF workingranks

\* The ranges of a namespace lie one behind the other and make up all of it.
LEMMA Ranges ==
  ASSUME NEW ns \in NS
  PROVE  /\ RefNodes[ns] \in Nat
         /\ RangeMin(ns, 0) = 0 /\ RangeMin(ns, workingranks) = RefNodes[ns]
         /\ \A d \in Nat : d < workingranks =>
              /\ RangeMin(ns, d) \in Nat /\ RangeMax(ns, d) \in Nat
              /\ RangeMin(ns, d) <= RangeMax(ns, d)
              /\ RangeMax(ns, d) = RangeMin(ns, d + 1)
              /\ RangeMax(ns, d) <= RefNodes[ns]
<1> DEFINE n == RefNodes[ns]
           w == workingranks
           q == n \div w
           m == n % w
<1>1. n \in Nat /\ w \in Nat /\ w > 0
  BY RManAssumption, WorkingRanks DEF NS
<1> HIDE DEF n, w
<1>2. q \in Nat /\ m \in Nat /\ m < w /\ n = w * q + m
  BY <1>1
<1> HIDE DEF q, m
<1>3. \A d : RangeMin(ns, d) = d * q + (IF d > m THEN m ELSE d)
  BY DEF RangeMin, n, w, q, m
<1>4. \A d : RangeMax(ns, d) = RangeMin(ns, d) + q + (IF d < m THEN 1 ELSE 0)
  BY DEF RangeMax, n, w, q, m
<1>5. RangeMin(ns, 0) = 0 /\ RangeMin(ns, w) = n
  <2>1. 0 * q = 0
    BY <1>2
  <2>2. w * q \in Nat
    BY <1>1, <1>2
  <2> QED BY <1>1, <1>2, <1>3, <2>1, <2>2
<1>6. ASSUME NEW d \in Nat, d < w
      PROVE  /\ RangeMin(ns, d) \in Nat /\ RangeMax(ns, d) \in Nat
             /\ RangeMin(ns, d) <= RangeMax(ns, d)
             /\ RangeMax(ns, d) = RangeMin(ns, d + 1)
             /\ RangeMax(ns, d) <= n
  <2>1. d * q \in Nat /\ (d + 1) * q = d * q + q
    BY <1>2
  <2>2. (d + 1) * q <= w * q
    <3>1. w - (d + 1) \in Nat /\ w = (d + 1) + (w - (d + 1))
      BY <1>1, <1>6
    <3>2. (w - (d + 1)) * q \in Nat
      BY <1>2, <3>1
    <3>3. w * q = (d + 1) * q + (w - (d + 1)) * q
      BY <1>1, <1>2
    <3> QED BY <1>2, <2>1, <3>2, <3>3
  <2>3. w * q \in Nat
    BY <1>1, <1>2
  <2>4. RangeMin(ns, d) \in Nat /\ RangeMax(ns, d) \in Nat /\ RangeMin(ns, d) <= RangeMax(ns, d)
    BY <1>2, <1>3, <1>4, <2>1
  <2>5. RangeMax(ns, d) = RangeMin(ns, d + 1)
    <3>1. RangeMin(ns, d + 1) = (d + 1) * q + (IF d + 1 > m THEN m ELSE d + 1)
      BY <1>3
    <3> QED BY <1>2, <1>3, <1>4, <2>1, <3>1
  <2>6. RangeMax(ns, d) <= n
    <3>1. RangeMax(ns, d) = (d + 1) * q + (IF d + 1 > m THEN m ELSE d + 1)
      BY <1>3, <2>5
    <3> QED BY <1>2, <2>1, <2>2, <2>3, <3>1
  <2> QED BY <2>4, <2>5, <2>6
<1> QED BY <1>1, <1>5, <1>6 DEF n, w

LEMMA RefsFacts ==
  /\ Refs \subseteq Nat
  /\ \A ns \in NS, i \in Nat : i < RefNodes[ns] => i \in Refs
<1>1. \A ns \in NS : RefNodes[ns] \in Nat
  BY RManAssumption DEF NS
<1> QED BY <1>1 DEF Refs

LEMMA Messages ==
  ASSUME RManTypeOK, NEW r \in Ranks
  PROVE  /\ Asked(r) => req[r] \in Requests
         /\ Answered_(r) => resp[r] \in Answers
         /\ ~Asked(r) => req[r] = Nothing
         /\ ~Answered_(r) => resp[r] = Nothing
BY DEF RManTypeOK, Asked, Answered_, Nothing, Requests, Answers, Types

-----------------------------------------------------------------------------
(* Initial states, and steps of a rank *)

LEMMA NewThreads ==
  /\ NewRank \in MainThreads /\ NewInput \in Inputs
  /\ NoProducer \in ProducerThreads /\ NewProducer \in ProducerThreads
  /\ Zero \in Counts
  /\ NewRank.at = "recv" /\ ~NewRank.rlog /\ ~NewRank.consfatal /\ NewRank.report = Zero
  /\ NewInput.refindex = NewInput.refmax /\ NewInput.prepterm = 0
  /\ NewInput.clientcount = Cardinality(Producers)
  /\ NoProducer.at = "none" /\ ~NoProducer.dec /\ ~NoProducer.fatal
  /\ NewProducer.at = "get" /\ ~NewProducer.dec /\ ~NewProducer.fatal
<1>1. Zero \in Counts
  BY DEF Zero, Counts
<1>2. Cardinality(Producers) \in Int
  BY RManAssumption, FS_CardinalityType
<1>3. NewRank \in MainThreads
  BY <1>1 DEF NewRank, MainThreads
<1>4. NewInput \in Inputs
  BY <1>2 DEF NewInput, Inputs
<1>5. NoProducer \in ProducerThreads /\ NewProducer \in ProducerThreads
  BY DEF NoProducer, NewProducer, ProducerThreads
<1> QED BY <1>1, <1>3, <1>4, <1>5 DEF NewRank, NewInput, NoProducer, NewProducer

LEMMA RManInit == Init => RManInv
<1> SUFFICES ASSUME Init PROVE RManInv
  OBVIOUS
<1> DEFINE first == [type |-> "COMPLETE", ns |-> NSCount, fatal |-> FALSE, info |-> FALSE, report |-> Zero]
<1>1. /\ \A r \in Ranks : /\ req[r] = Nothing /\ resp[r] = first /\ rank[r] = NewRank
                          /\ rin[r] = NewInput /\ prod[r] = [p \in Producers |-> NoProducer]
      /\ failures = 0 /\ mgr.terminated = {} /\ ~mgr.fatal /\ ~mgr.done
      /\ \A ns \in NS : mgr.distributed[ns] = 0 /\ \A i \in Refs : mgr.usage[ns][i] = 0
  BY DEF Init, Zero
<1>2. first.type = "COMPLETE" /\ ~first.fatal /\ ~first.info /\ Nothing.type = "none"
  BY DEF Nothing
<1>3. RManTypeOK
  <2>1. first \in Answers
    BY NewThreads, RManAssumption DEF Answers, Types
  <2>2. mgr \in Managers
    BY NewThreads DEF Init, Managers
  <2> QED BY <2>1, <2>2, NewThreads DEF Init, RManTypeOK
<1> HIDE DEF first
<1>4. ASSUME NEW r \in Ranks PROVE RankInv(r)
  <2>1. MessageOK(r)
    BY <1>1, <1>2, NewThreads DEF MessageOK, Asked, Answered_
  <2>2. Within(r)
    BY <1>1, <1>2, NewThreads DEF Within, Accepted, Answered_
  <2>3. Unset(r) /\ EmptyUnlessScanning(r)
    BY <1>1, NewThreads DEF Unset, EmptyUnlessScanning, Empty
  <2>6. Bounded(r)
    BY <1>1, NewThreads DEF Bounded
  <2>4. ~Refused(r) /\ ~AnyFatal(r)
    BY <1>1, <1>2, NewThreads DEF Refused, AnyFatal
  <2>5. Handshake(r)
    BY <1>1, NewThreads DEF Handshake
  <2> QED BY <2>1, <2>2, <2>3, <2>4, <2>5, <2>6 DEF RankInv
<1>5. MgrInv
  <2>1. \A r \in Ranks : ~Dismissed(r)
    BY <1>1, <1>2 DEF Dismissed
  <2> QED BY <1>1, <2>1, WorkingRanks DEF MgrInv
<1>6. PlaceInv
  <2> SUFFICES ASSUME NEW ns \in NS, NEW i \in Refs
               PROVE  Once(ns, i) /\ \A r \in Ranks : OnceIn(r, ns, i)
    BY DEF PlaceInv
  <2>1. ASSUME NEW r \in Ranks
        PROVE  /\ ~InRequest(r, ns, i) /\ ~InRange(r, ns, i) /\ ~InReport(r, ns, i) /\ ~InAnswer(r, ns, i)
               /\ \A p \in Producers : ~InHand(r, p, ns, i)
    <3>1. Zero[i] = 0
      BY DEF Zero
    <3> QED BY <1>1, <1>2, <3>1, NewThreads, RefsFacts
            DEF InRequest, InRange, InReport, InAnswer, InHand, NewInput
  <2>2. ToDo(ns, i) /\ ~InUsage(ns, i)
    BY <1>1, Ranges, RefsFacts DEF ToDo, InUsage
  <2> QED BY <2>1, <2>2 DEF Once, OnceIn, Has
<1> QED BY <1>3, <1>4, <1>5, <1>6 DEF RManInv

\* What a step of rank r has to keep
Others(r) ==
  \A s \in Ranks : s # r =>
    /\ req'[s] = req[s] /\ resp'[s] = resp[s] /\ rank'[s] = rank[s] /\ rin'[s] = rin[s] /\ prod'[s] = prod[s]
PlacesKept(r) ==
  \A ns \in NS, i \in Refs :
    /\ OnceIn(r, ns, i)'
    /\ Has(r, ns, i)' => Has(r, ns, i)
    /\ failures' = 0 /\ Exists(ns, i) /\ Has(r, ns, i) => Has(r, ns, i)'

LEMMA OtherRankSame ==
  ASSUME RManInv, NEW r \in Ranks, NEW s \in Ranks, s # r, Others(r), mgr' = mgr,
         failures' \in Nat, failures' >= failures
  PROVE  /\ RankInv(s)'
         /\ Dismissed(s)' = Dismissed(s) /\ Underway(s)' = Underway(s)
         /\ \A ns, i : Has(s, ns, i)' = Has(s, ns, i) /\ OnceIn(s, ns, i)' = OnceIn(s, ns, i)
<1>1. /\ req'[s] = req[s] /\ resp'[s] = resp[s] /\ rank'[s] = rank[s] /\ rin'[s] = rin[s] /\ prod'[s] = prod[s]
      /\ mgr' = mgr
  BY DEF Others
<1>2. MessageOK(s)' = MessageOK(s) /\ Within(s)' = Within(s)
  BY <1>1 DEF MessageOK, Within, Asked, Answered_, Accepted
<1>3. Unset(s)' = Unset(s) /\ EmptyUnlessScanning(s)' = EmptyUnlessScanning(s) /\ Bounded(s)' = Bounded(s)
  BY <1>1 DEF Unset, EmptyUnlessScanning, Empty, Bounded
<1>4. Refused(s)' = Refused(s) /\ AnyFatal(s)' = AnyFatal(s)
  BY <1>1 DEF Refused, AnyFatal, Answered_
<1>5. Handshake(s)' = Handshake(s)
  BY <1>1 DEF Handshake, Said, Left
<1>6. failures \in Nat /\ RankInv(s)
  BY DEF RManInv, RManTypeOK
<1>7. RankInv(s)'
  BY <1>2, <1>3, <1>4, <1>5, <1>6 DEF RankInv
<1>8. Dismissed(s)' = Dismissed(s) /\ Underway(s)' = Underway(s)
  BY <1>1, <1>4 DEF Dismissed, Underway
<1>9. ASSUME NEW ns, NEW i
      PROVE  Has(s, ns, i)' = Has(s, ns, i) /\ OnceIn(s, ns, i)' = OnceIn(s, ns, i)
  <2>1. /\ InRequest(s, ns, i)' = InRequest(s, ns, i) /\ InRange(s, ns, i)' = InRange(s, ns, i)
        /\ InReport(s, ns, i)' = InReport(s, ns, i) /\ InAnswer(s, ns, i)' = InAnswer(s, ns, i)
        /\ \A p : InHand(s, p, ns, i)' = InHand(s, p, ns, i)
    BY <1>1 DEF InRequest, InRange, InReport, InAnswer, InHand, Answered_
  <2> QED BY <1>1, <2>1 DEF Has, OnceIn
<1> QED BY <1>7, <1>8, <1>9

LEMMA RankStep ==
  ASSUME RManInv, NEW r \in Ranks, RManTypeOK', mgr' = mgr, Others(r), failures' >= failures,
         RankInv(r)', PlacesKept(r), Dismissed(r)' => Dismissed(r), Underway(r) => Underway(r)',
         failures' > failures => Underway(r)'
  PROVE  RManInv'
<1>0. failures \in Nat /\ failures' \in Nat
  BY DEF RManInv, RManTypeOK
<1>1. \A s \in Ranks : RankInv(s)'
  BY <1>0, OtherRankSame
<1>2. MgrInv'
  <2>1. \A s \in Ranks : Dismissed(s)' => Dismissed(s)
    BY <1>0, OtherRankSame
  <2>2. \A s \in Ranks : Underway(s) => Underway(s)'
    BY <1>0, OtherRankSame
  <2>3. MgrInv
    BY DEF RManInv
  <2>4. Unfinished' = Unfinished
    BY DEF Unfinished
  <2> QED BY <1>0, <2>1, <2>2, <2>3, <2>4 DEF MgrInv
<1>3. PlaceInv'
  <2> SUFFICES ASSUME NEW ns \in NS, NEW i \in Refs
               PROVE  Once(ns, i)' /\ \A s \in Ranks : OnceIn(s, ns, i)'
    BY DEF PlaceInv
  <2>1. Once(ns, i) /\ \A s \in Ranks : OnceIn(s, ns, i)
    BY DEF RManInv, PlaceInv
  <2>2. \A s \in Ranks : s # r => Has(s, ns, i)' = Has(s, ns, i) /\ OnceIn(s, ns, i)' = OnceIn(s, ns, i)
    BY <1>0, OtherRankSame
  <2>3. OnceIn(r, ns, i)' /\ (Has(r, ns, i)' => Has(r, ns, i))
        /\ (failures' = 0 /\ Exists(ns, i) /\ Has(r, ns, i) => Has(r, ns, i)')
    BY DEF PlacesKept
  <2>4. ToDo(ns, i)' = ToDo(ns, i) /\ InUsage(ns, i)' = InUsage(ns, i)
    BY DEF ToDo, InUsage
  <2>5. failures' = 0 => failures = 0
    BY <1>0
  <2> QED BY <2>1, <2>2, <2>3, <2>4, <2>5 DEF Once
<1> QED BY <1>1, <1>2, <1>3 DEF RManInv

\* Most steps leave everything where it is.
LEMMA SamePlaces ==
  ASSUME RManInv, NEW r \in Ranks,
         \A ns, i : InRequest(r, ns, i)' = InRequest(r, ns, i) /\ InAnswer(r, ns, i)' = InAnswer(r, ns, i),
         \A ns, i : InAnswer(r, ns, i) => resp'[r].report = resp[r].report,
         rank'[r].ns = rank[r].ns, rank'[r].report = rank[r].report,
         rin'[r].refindex = rin[r].refindex, rin'[r].refmax = rin[r].refmax,
         \A p \in Producers : /\ prod'[r][p].at = "busy" <=> prod[r][p].at = "busy"
                              /\ prod[r][p].at = "busy" => prod'[r][p].ref = prod[r][p].ref
  PROVE  PlacesKept(r)
<1> SUFFICES ASSUME NEW ns \in NS, NEW i \in Refs
             PROVE  OnceIn(r, ns, i)' /\ Has(r, ns, i)' = Has(r, ns, i)
  BY DEF PlacesKept
<1>1. InRange(r, ns, i)' = InRange(r, ns, i) /\ InReport(r, ns, i)' = InReport(r, ns, i)
  BY DEF InRange, InReport
<1>2. \A p \in Producers : InHand(r, p, ns, i)' = InHand(r, p, ns, i)
  BY DEF InHand
<1>3. OnceIn(r, ns, i)
  BY DEF RManInv, PlaceInv
<1> QED BY <1>1, <1>2, <1>3 DEF Has, OnceIn

-----------------------------------------------------------------------------
(* What the operations on a RESOURCEINPUT and on a thread leave *)

SameRange(i, j)  == i.refindex = j.refindex /\ i.refmax = j.refmax
SameCounts(i, j) == i.clientcount = j.clientcount /\ i.orig = j.orig /\ i.prepterm = j.prepterm

LEMMA InputType ==
  ASSUME NEW i \in Inputs
  PROVE  /\ i.refindex \in Nat /\ i.refmax \in Nat /\ i.prepterm \in 0 .. 3
         /\ i.clientcount \in Int /\ i.orig \in Int
BY DEF Inputs

LEMMA InputChange ==
  ASSUME NEW i \in Inputs, NEW c \in Int, NEW o \in Int, NEW t \in 0 .. 3
  PROVE  [i EXCEPT !.clientcount = c, !.orig = o, !.prepterm = t] \in Inputs
BY DEF Inputs

LEMMA SleepEffect ==
  ASSUME NEW i \in Inputs, NEW p \in Producers
  PROVE  Sleep(i, p) \in Inputs /\ SameRange(Sleep(i, p), i) /\ SameCounts(Sleep(i, p), i)
BY DEF Sleep, SameRange, SameCounts, Inputs

LEMMA WakeUps ==
  ASSUME NEW i \in Inputs
  PROVE  /\ SignalComplete(i) \in Inputs /\ SameRange(SignalComplete(i), i) /\ SameCounts(SignalComplete(i), i)
         /\ BroadcastUpdated(i) \in Inputs /\ SameRange(BroadcastUpdated(i), i)
         /\ SameCounts(BroadcastUpdated(i), i)
BY DEF SignalComplete, BroadcastUpdated, SameRange, SameCounts, Inputs

LEMMA SaysSoEffect ==
  ASSUME NEW i \in Inputs
  PROVE  /\ SaysSo(i) \in Inputs /\ SameRange(SaysSo(i), i) /\ SaysSo(i).clientcount = i.clientcount - 1
         /\ SaysSo(i).orig = i.orig /\ SaysSo(i).prepterm = i.prepterm
<1> DEFINE j == [i EXCEPT !.clientcount = i.clientcount - 1]
<1>1. j \in Inputs
  BY DEF Inputs
<1>2. SameRange(j, i) /\ j.clientcount = i.clientcount - 1 /\ j.orig = i.orig /\ j.prepterm = i.prepterm
  BY DEF SameRange, Inputs
<1>3. SaysSo(i) = SignalComplete(j)
  BY DEF SaysSo
<1> HIDE DEF j
<1> QED BY <1>1, <1>2, <1>3, WakeUps DEF SameRange, SameCounts

LEMMA LeavesEffect ==
  ASSUME NEW i \in Inputs
  PROVE  /\ Leaves(i) \in Inputs /\ SameRange(Leaves(i), i)
         /\ i.prepterm = 2 => Leaves(i).clientcount = i.clientcount + 1
         /\ Leaves(i).orig = i.orig /\ Leaves(i).prepterm = i.prepterm
<1> DEFINE c == IF i.prepterm = 2 THEN i.clientcount + 1 ELSE i.clientcount
           j == [i EXCEPT !.clientcount = c]
<1>3. Leaves(i) = SignalComplete(j)
  BY DEF Leaves
<1>0. c \in Int
  BY InputType
<1>4. i.prepterm = 2 => c = i.clientcount + 1
  OBVIOUS
<1> HIDE DEF c
<1>1. j \in Inputs
  BY <1>0 DEF Inputs
<1>2. SameRange(j, i) /\ j.clientcount = c /\ j.orig = i.orig /\ j.prepterm = i.prepterm
  BY DEF SameRange, Inputs
<1> HIDE DEF j
<1> QED BY <1>1, <1>2, <1>3, <1>4, WakeUps DEF SameRange, SameCounts

LEMMA AsksToEndEffect ==
  ASSUME NEW i \in Inputs
  PROVE  /\ AsksToEnd(i) \in Inputs /\ SameRange(AsksToEnd(i), i)
         /\ AsksToEnd(i).clientcount = i.clientcount /\ AsksToEnd(i).orig = i.clientcount
         /\ i.prepterm = 0 => AsksToEnd(i).prepterm = 1
<1> DEFINE t == IF i.prepterm < 1 THEN 1 ELSE i.prepterm
           j == [i EXCEPT !.orig = i.clientcount, !.prepterm = t]
<1>3. AsksToEnd(i) = BroadcastUpdated(j)
  BY DEF AsksToEnd
<1>0. t \in 0 .. 3
  BY InputType
<1>4. i.prepterm = 0 => t = 1
  OBVIOUS
<1> HIDE DEF t
<1>1. j \in Inputs
  BY <1>0 DEF Inputs
<1>2. SameRange(j, i) /\ j.clientcount = i.clientcount /\ j.orig = i.clientcount /\ j.prepterm = t
  BY DEF SameRange, Inputs
<1> HIDE DEF j
<1> QED BY <1>1, <1>2, <1>3, <1>4, WakeUps DEF SameRange, SameCounts

LEMMA LetsGoEffect ==
  ASSUME NEW i \in Inputs
  PROVE  /\ LetsGo(i) \in Inputs /\ SameRange(LetsGo(i), i)
         /\ LetsGo(i).clientcount = i.clientcount /\ LetsGo(i).orig = i.orig
         /\ i.prepterm = 1 => LetsGo(i).prepterm = 2
<1> DEFINE t == IF i.prepterm < 2 THEN 2 ELSE i.prepterm
           j == [i EXCEPT !.prepterm = t]
<1>3. LetsGo(i) = BroadcastUpdated(j)
  BY DEF LetsGo
<1>0. t \in 0 .. 3
  BY InputType
<1>4. i.prepterm = 1 => t = 2
  OBVIOUS
<1> HIDE DEF t
<1>1. j \in Inputs
  BY <1>0 DEF Inputs
<1>2. SameRange(j, i) /\ j.clientcount = i.clientcount /\ j.orig = i.orig /\ j.prepterm = t
  BY DEF SameRange, Inputs
<1> HIDE DEF j
<1> QED BY <1>1, <1>2, <1>3, <1>4, WakeUps DEF SameRange, SameCounts

LEMMA PurgeEffect ==
  ASSUME NEW i \in Inputs
  PROVE  Purge(i) \in Inputs /\ Empty(Purge(i))
<1> DEFINE j == [i EXCEPT !.refindex = i.refmax, !.prepterm = 3]
<1>0. i.refmax \in Nat /\ 3 \in 0 .. 3
  BY DEF Inputs
<1>1. j \in Inputs /\ j.refindex = j.refmax
  BY <1>0 DEF Inputs
<1>2. Purge(i) = SignalComplete(BroadcastUpdated(j))
  BY DEF Purge
<1> HIDE DEF j
<1> QED BY <1>1, <1>2, WakeUps DEF SameRange, Empty

LEMMA SetRangeEffect ==
  ASSUME NEW i \in Inputs, NEW ns \in NS, NEW d \in Nat, d < workingranks
  PROVE  /\ SetRange(i, ns, d) \in Inputs /\ SameCounts(SetRange(i, ns, d), i)
         /\ SetRange(i, ns, d).refindex = RangeMin(ns, d) /\ SetRange(i, ns, d).refmax = RangeMax(ns, d)
<1> DEFINE j == [i EXCEPT !.refindex = RangeMin(ns, d), !.refmax = RangeMax(ns, d)]
<1>1. RangeMin(ns, d) \in Nat /\ RangeMax(ns, d) \in Nat
  BY Ranges
<1>2. j \in Inputs
  BY <1>1 DEF Inputs
<1>3. SameCounts(j, i) /\ j.refindex = RangeMin(ns, d) /\ j.refmax = RangeMax(ns, d)
  BY DEF SameCounts, Inputs
<1>4. SetRange(i, ns, d) = BroadcastUpdated(j)
  BY DEF SetRange
<1> HIDE DEF j
<1> QED BY <1>2, <1>3, <1>4, WakeUps DEF SameRange, SameCounts

LEMMA OneThread ==
  ASSUME RManTypeOK, NEW r \in Ranks, NEW p \in Producers, NEW t \in ProducerThreads,
         prod' = [prod EXCEPT ![r][p] = t]
  PROVE  /\ prod' \in [Ranks -> [Producers -> ProducerThreads]] /\ prod'[r][p] = t
         /\ \A q \in Producers : q # p => prod'[r][q] = prod[r][q]
         /\ \A s \in Ranks : s # r => prod'[s] = prod[s]
<1>1. prod \in [Ranks -> [Producers -> ProducerThreads]]
  BY DEF RManTypeOK
<1>2. [prod[r] EXCEPT ![p] = t] \in [Producers -> ProducerThreads]
  BY <1>1
<1>3. prod' = [prod EXCEPT ![r] = [prod[r] EXCEPT ![p] = t]]
  BY <1>1
<1> QED BY <1>1, <1>2, <1>3

LEMMA OneInput ==
  ASSUME RManTypeOK, NEW r \in Ranks, NEW i \in Inputs, rin' = [rin EXCEPT ![r] = i]
  PROVE  /\ rin' \in [Ranks -> Inputs] /\ rin'[r] = i
         /\ \A s \in Ranks : s # r => rin'[s] = rin[s]
BY DEF RManTypeOK

LEMMA OneRank ==
  ASSUME RManTypeOK, NEW r \in Ranks, NEW m \in MainThreads, rank' = [rank EXCEPT ![r] = m]
  PROVE  /\ rank' \in [Ranks -> MainThreads] /\ rank'[r] = m
         /\ \A s \in Ranks : s # r => rank'[s] = rank[s]
BY DEF RManTypeOK

LEMMA ThreadFields ==
  ASSUME NEW t \in ProducerThreads
  PROVE  /\ t.at \in {"none", "get", "busy", "update", "term", "end"} /\ t.ref \in Nat
         /\ t.dec \in BOOLEAN /\ t.fatal \in BOOLEAN
         /\ \A x \in {"get", "update", "end"} :
              /\ [t EXCEPT !.at = x] \in ProducerThreads /\ [t EXCEPT !.at = x].at = x
              /\ [t EXCEPT !.at = x].ref = t.ref /\ [t EXCEPT !.at = x].dec = t.dec
              /\ [t EXCEPT !.at = x].fatal = t.fatal
         /\ [t EXCEPT !.dec = TRUE] \in ProducerThreads /\ [t EXCEPT !.dec = TRUE].dec
         /\ [t EXCEPT !.dec = TRUE].at = t.at /\ [t EXCEPT !.dec = TRUE].ref = t.ref
         /\ [t EXCEPT !.dec = TRUE].fatal = t.fatal
         /\ [t EXCEPT !.dec = t.dec] = t
BY DEF ProducerThreads

-----------------------------------------------------------------------------
(* Steps between a request and its answer *)

\* Steps of threads, and of a main thread that is asked to complete its namespace
LEMMA QuietStep ==
  ASSUME RManInv, NEW r \in Ranks, RManTypeOK', Others(r),
         mgr' = mgr, req' = req, resp' = resp, failures' >= failures,
         rank[r].rlog, rank'[r].rlog, rank'[r].ns = rank[r].ns,
         \/ rank'[r].at = rank[r].at
         \/ req[r].type = "COMPLETE" /\ rank'[r].at \in {"term", "leaving", "status"},
         EmptyUnlessScanning(r)', Bounded(r)', AnyFatal(r) => AnyFatal(r)', AnyFatal(r)' => failures' > 0,
         failures' > failures => AnyFatal(r)', failures' = 0 => Handshake(r)', PlacesKept(r)
  PROVE  RManInv'
<1>1. RankInv(r) /\ failures \in Nat /\ failures' \in Nat
  BY DEF RManInv, RManTypeOK
<1>2. req'[r] = req[r] /\ resp'[r] = resp[r]
  OBVIOUS
<1>3. MessageOK(r)'
  BY <1>1, <1>2 DEF RankInv, MessageOK, Asked, Answered_
<1>4. Within(r)'
  BY <1>1, <1>2 DEF RankInv, Within, Asked, Answered_, Accepted
<1>5. Unset(r)'
  BY DEF Unset
<1>6. Refused(r)' = Refused(r)
  BY <1>2 DEF Refused, Answered_
<1>7. RankInv(r)'
  BY <1>1, <1>3, <1>4, <1>5, <1>6 DEF RankInv
<1>8. Dismissed(r)' = Dismissed(r)
  BY <1>2 DEF Dismissed
<1>9. Underway(r) => Underway(r)'
  BY <1>6 DEF Underway
<1>10. failures' > failures => Underway(r)'
  BY DEF Underway
<1> QED BY <1>7, <1>8, <1>9, <1>10, RankStep

\* A thread that does anything belongs to a rank that is set up.
LEMMA ThreadsBelong ==
  ASSUME RManInv, NEW r \in Ranks, NEW p \in Producers, prod[r][p].at # "none"
  PROVE  rank[r].rlog /\ rank[r].ns \in NS
<1>1. Unset(r) /\ Within(r)
  BY DEF RManInv, RankInv
<1>2. rank[r].rlog
  BY <1>1, NewThreads DEF Unset
<1> QED BY <1>1, <1>2 DEF Within

\* The requests and answers of a rank with which nothing happens
LEMMA SameMessages ==
  ASSUME RManInv, NEW r \in Ranks, req' = req, resp' = resp, rank'[r].at = rank[r].at
  PROVE  \A ns, i : InRequest(r, ns, i)' = InRequest(r, ns, i) /\ InAnswer(r, ns, i)' = InAnswer(r, ns, i)
BY DEF InRequest, InAnswer, Answered_

LEMMA WaitForUpdateSafe ==
  ASSUME RManInv, NEW r \in Ranks, NEW p \in Producers, WaitForUpdate(r, p)
  PROVE  RManInv'
<1>1. /\ prod[r][p].at = "update" /\ mgr' = mgr /\ req' = req /\ resp' = resp /\ rank' = rank
      /\ failures' = failures
  BY DEF WaitForUpdate
<1>2. rank[r].rlog /\ RManTypeOK /\ RankInv(r)
  BY <1>1, ThreadsBelong DEF RManInv
<1>a. rin[r] \in Inputs /\ prod[r][p] \in ProducerThreads
  BY <1>2 DEF RManTypeOK
<1>3. PICK i \in Inputs : rin' = [rin EXCEPT ![r] = i] /\ SameRange(i, rin[r]) /\ SameCounts(i, rin[r])
  <2>1. rin' = [rin EXCEPT ![r] = Sleep(rin[r], p)] \/ rin' = [rin EXCEPT ![r] = rin[r]]
    BY <1>2 DEF WaitForUpdate, RManTypeOK
  <2> QED BY <1>a, <2>1, SleepEffect DEF SameRange, SameCounts
<1>4. PICK t \in ProducerThreads :
        /\ prod' = [prod EXCEPT ![r][p] = t] /\ t.fatal = prod[r][p].fatal /\ t.dec = prod[r][p].dec
        /\ t.ref = prod[r][p].ref /\ t.at \in {"get", "update"}
  <2>1. prod' = [prod EXCEPT ![r][p] = [prod[r][p] EXCEPT !.at = "get"]] \/ prod' = [prod EXCEPT ![r][p] = prod[r][p]]
    BY <1>2 DEF WaitForUpdate, RManTypeOK
  <2>2. /\ [prod[r][p] EXCEPT !.at = "get"] \in ProducerThreads
        /\ [prod[r][p] EXCEPT !.at = "get"].fatal = prod[r][p].fatal
        /\ [prod[r][p] EXCEPT !.at = "get"].dec = prod[r][p].dec
        /\ [prod[r][p] EXCEPT !.at = "get"].ref = prod[r][p].ref
        /\ [prod[r][p] EXCEPT !.at = "get"].at = "get"
    BY <1>a, ThreadFields
  <2> QED BY <1>1, <1>a, <2>1, <2>2
<1>6. RManTypeOK'
  BY <1>1, <1>2, <1>3, <1>4, OneInput, OneThread DEF RManTypeOK
<1>7. Others(r)
  BY <1>1, <1>2, <1>3, <1>4, OneInput, OneThread DEF Others
<1>8. /\ rin'[r].refindex = rin[r].refindex /\ rin'[r].refmax = rin[r].refmax
      /\ rin'[r].prepterm = rin[r].prepterm /\ rin'[r].clientcount = rin[r].clientcount
      /\ rin'[r].orig = rin[r].orig
  BY <1>2, <1>3, OneInput DEF SameRange, SameCounts
<1>9. \A q \in Producers :
        /\ prod'[r][q].fatal = prod[r][q].fatal /\ prod'[r][q].dec = prod[r][q].dec
        /\ prod'[r][q].ref = prod[r][q].ref
        /\ q # p => prod'[r][q].at = prod[r][q].at
  BY <1>2, <1>4, OneThread
<1>10. prod'[r][p].at \in {"get", "update"}
  BY <1>2, <1>4, OneThread
<1>11. AnyFatal(r)' = AnyFatal(r)
  BY <1>1, <1>9 DEF AnyFatal
<1>12. Said(r)' = Said(r) /\ Left(r)' = Left(r)
  BY <1>1, <1>9, <1>10 DEF Said, Left
<1>13. Handshake(r) => Handshake(r)'
  BY <1>1, <1>8, <1>9, <1>10, <1>12 DEF Handshake, Scanners
<1>14. EmptyUnlessScanning(r)' /\ Bounded(r)'
  BY <1>1, <1>2, <1>8, <1>9, <1>10 DEF RankInv, EmptyUnlessScanning, Empty, Bounded
<1>15. PlacesKept(r)
  BY <1>1, <1>8, <1>9, <1>10, SameMessages, SamePlaces
<1> QED BY <1>1, <1>2, <1>6, <1>7, <1>11, <1>13, <1>14, <1>15, QuietStep DEF RankInv, RManTypeOK

LEMMA WaitForTermSafe ==
  ASSUME RManInv, NEW r \in Ranks, NEW p \in Producers, WaitForTerm(r, p)
  PROVE  RManInv'
<1> DEFINE says == ~prod[r][p].dec /\ rin[r].prepterm = 1
<1>1. /\ prod[r][p].at = "term" /\ mgr' = mgr /\ req' = req /\ resp' = resp /\ rank' = rank
      /\ failures' = failures
  BY DEF WaitForTerm
<1>2. rank[r].rlog /\ RManTypeOK /\ RankInv(r)
  BY <1>1, ThreadsBelong DEF RManInv
<1>a. rin[r] \in Inputs /\ prod[r][p] \in ProducerThreads
  BY <1>2 DEF RManTypeOK
<1>3. PICK i \in Inputs, t \in ProducerThreads :
        /\ rin' = [rin EXCEPT ![r] = i] /\ prod' = [prod EXCEPT ![r][p] = t]
        /\ i.refindex = rin[r].refindex /\ i.refmax = rin[r].refmax
        /\ i.prepterm = rin[r].prepterm /\ i.orig = rin[r].orig
        /\ t.fatal = prod[r][p].fatal /\ t.ref = prod[r][p].ref
        /\ \/ /\ rin[r].prepterm < 2 /\ ~says /\ t = prod[r][p]
              /\ i.clientcount = rin[r].clientcount
           \/ /\ says /\ t.at = "term" /\ t.dec
              /\ i.clientcount = rin[r].clientcount - 1
           \/ /\ rin[r].prepterm = 2 /\ t.at = "end" /\ t.dec = prod[r][p].dec
              /\ i.clientcount = rin[r].clientcount + 1
           \/ rin[r].prepterm = 3 /\ t.at = "end" /\ t.dec = prod[r][p].dec
  <2>0. /\ rin[r].prepterm \in 0 .. 3 /\ rin[r].clientcount \in Int
        /\ prod[r][p].dec \in BOOLEAN
    BY <1>a DEF Inputs, ProducerThreads
  <2>1. CASE rin[r].prepterm < 2 /\ ~says
    <3>1. rin' = [rin EXCEPT ![r] = Sleep(rin[r], p)]
      BY <2>1 DEF WaitForTerm
    <3>2. prod' = [prod EXCEPT ![r][p] = prod[r][p]]
      <4>1. prod' = [prod EXCEPT ![r][p].dec = prod[r][p].dec \/ says]
        BY <2>1 DEF WaitForTerm
      <4>2. (prod[r][p].dec \/ says) = prod[r][p].dec
        BY <2>0, <2>1
      <4>3. prod' = [prod EXCEPT ![r][p] = [prod[r][p] EXCEPT !.dec = prod[r][p].dec]]
        BY <4>1, <4>2
      <4>4. [prod[r][p] EXCEPT !.dec = prod[r][p].dec] = prod[r][p]
        BY <1>a, ThreadFields
      <4> QED BY <4>3, <4>4
    <3> QED BY <1>a, <2>1, <3>1, <3>2, SleepEffect DEF SameRange, SameCounts
  <2>2. CASE says
    <3>1. rin' = [rin EXCEPT ![r] = Sleep(SaysSo(rin[r]), p)]
      BY <2>2 DEF WaitForTerm
    <3>2. prod' = [prod EXCEPT ![r][p] = [prod[r][p] EXCEPT !.dec = TRUE]]
      <4>1. prod' = [prod EXCEPT ![r][p].dec = prod[r][p].dec \/ says]
        BY <2>2 DEF WaitForTerm
      <4>2. (prod[r][p].dec \/ says) = TRUE
        BY <2>2
      <4> QED BY <4>1, <4>2
    <3>3. /\ Sleep(SaysSo(rin[r]), p) \in Inputs /\ SameRange(Sleep(SaysSo(rin[r]), p), rin[r])
          /\ Sleep(SaysSo(rin[r]), p).clientcount = rin[r].clientcount - 1
          /\ Sleep(SaysSo(rin[r]), p).orig = rin[r].orig /\ Sleep(SaysSo(rin[r]), p).prepterm = rin[r].prepterm
      <4>1. SaysSo(rin[r]) \in Inputs
        BY <1>a, SaysSoEffect
      <4>2. /\ Sleep(SaysSo(rin[r]), p) \in Inputs /\ SameRange(Sleep(SaysSo(rin[r]), p), SaysSo(rin[r]))
            /\ SameCounts(Sleep(SaysSo(rin[r]), p), SaysSo(rin[r]))
        BY <4>1, SleepEffect
      <4> QED BY <1>a, <4>2, SaysSoEffect DEF SameRange, SameCounts
    <3> QED BY <1>1, <1>a, <2>2, <3>1, <3>2, <3>3, ThreadFields DEF SameRange
  <2>3. CASE rin[r].prepterm >= 2
    <3>1. rin' = [rin EXCEPT ![r] = Leaves(rin[r])]
      BY <2>0, <2>3 DEF WaitForTerm
    <3>2. prod' = [prod EXCEPT ![r][p] = [prod[r][p] EXCEPT !.at = "end"]]
      BY <2>0, <2>3 DEF WaitForTerm
    <3>3. rin[r].prepterm = 2 \/ rin[r].prepterm = 3
      BY <2>0, <2>3
    <3>4. /\ [prod[r][p] EXCEPT !.at = "end"] \in ProducerThreads /\ [prod[r][p] EXCEPT !.at = "end"].at = "end"
          /\ [prod[r][p] EXCEPT !.at = "end"].ref = prod[r][p].ref
          /\ [prod[r][p] EXCEPT !.at = "end"].dec = prod[r][p].dec
          /\ [prod[r][p] EXCEPT !.at = "end"].fatal = prod[r][p].fatal
      BY <1>a, ThreadFields
    <3> QED BY <1>a, <3>1, <3>2, <3>3, <3>4, LeavesEffect DEF SameRange
  <2> QED BY <2>0, <2>1, <2>2, <2>3
<1>b. i \in Inputs /\ t \in ProducerThreads /\ rin' = [rin EXCEPT ![r] = i] /\ prod' = [prod EXCEPT ![r][p] = t]
  BY <1>3
<1>4. rin'[r] = i /\ prod'[r][p] = t /\ \A q \in Producers : q # p => prod'[r][q] = prod[r][q]
  <2>1. rin'[r] = i
    BY <1>2, <1>b, OneInput
  <2>2. prod'[r][p] = t /\ \A q \in Producers : q # p => prod'[r][q] = prod[r][q]
    BY <1>2, <1>b, OneThread
  <2> QED BY <2>1, <2>2
<1>5. RManTypeOK'
  BY <1>1, <1>2, <1>b, OneInput, OneThread DEF RManTypeOK
<1>6. Others(r)
  BY <1>1, <1>2, <1>b, OneInput, OneThread DEF Others
<1>7. AnyFatal(r)' = AnyFatal(r)
  BY <1>1, <1>3, <1>4 DEF AnyFatal
<1>8. t.at # "busy"
  BY <1>1, <1>3
<1>9. PlacesKept(r)
  BY <1>1, <1>3, <1>4, <1>8, SameMessages, SamePlaces
<1>10. EmptyUnlessScanning(r)' /\ Bounded(r)'
  BY <1>1, <1>2, <1>3, <1>4, <1>8 DEF RankInv, EmptyUnlessScanning, Empty, Bounded
<1>11. ASSUME Handshake(r) PROVE Handshake(r)'
  <2>1. rank[r].at \in {"term", "leaving"}
    BY <1>1, <1>2, <1>11 DEF Handshake, Scanners, RManTypeOK, MainThreads
  <2>2. CASE rank[r].at = "term"
    <3>1. rin[r].prepterm = 1 /\ (prod[r][p].dec <=> ~says)
      BY <1>11, <2>2, <1>a DEF Handshake, ProducerThreads
    <3>2. CASE says
      <4>1. Said(r)' = Said(r) \cup {p} /\ p \notin Said(r)
        BY <1>3, <1>4, <3>1, <3>2 DEF Said
      <4>2. IsFiniteSet(Said(r))
        BY RManAssumption, FS_Subset DEF Said
      <4>3. Cardinality(Said(r)') = Cardinality(Said(r)) + 1
        BY <4>1, <4>2, FS_AddElement
      <4>4. i.clientcount = rin[r].clientcount - 1 /\ t.at = "term"
        BY <1>3, <3>1, <3>2
      <4>5. Cardinality(Said(r)) \in Int /\ Cardinality(Producers) \in Int
        BY <4>2, RManAssumption, FS_CardinalityType
      <4>6. i.clientcount = Cardinality(Producers) - Cardinality(Said(r)')
        BY <1>11, <2>2, <4>3, <4>4, <4>5 DEF Handshake
      <4> QED BY <1>1, <1>3, <1>4, <1>11, <2>2, <4>4, <4>6 DEF Handshake
    <3>3. CASE ~says
      <4>1. t = prod[r][p] /\ i.clientcount = rin[r].clientcount
        BY <1>3, <3>1, <3>3
      <4>2. Said(r)' = Said(r)
        BY <1>4, <4>1 DEF Said
      <4> QED BY <1>1, <1>3, <1>4, <1>11, <2>2, <4>1, <4>2 DEF Handshake
    <3> QED BY <3>2, <3>3
  <2>3. CASE rank[r].at = "leaving"
    <3>1. rin[r].prepterm = 2
      BY <1>11, <2>3 DEF Handshake
    <3>2. t.at = "end" /\ i.clientcount = rin[r].clientcount + 1
      BY <1>3, <3>1
    <3>3. Left(r)' = Left(r) \cup {p} /\ p \notin Left(r)
      BY <1>1, <1>4, <3>2 DEF Left
    <3>4. IsFiniteSet(Left(r))
      BY RManAssumption, FS_Subset DEF Left
    <3>5. Cardinality(Left(r)') = Cardinality(Left(r)) + 1
      BY <3>3, <3>4, FS_AddElement
    <3> QED BY <1>1, <1>3, <1>4, <1>11, <2>3, <3>2, <3>5 DEF Handshake
  <2> QED BY <2>1, <2>2, <2>3
<1> QED BY <1>1, <1>2, <1>5, <1>6, <1>7, <1>9, <1>10, <1>11, QuietStep DEF RankInv, RManTypeOK

\* A thread has dealt with its directory, and gets the next one.
LEMMA GetNextSafe ==
  ASSUME RManInv, NEW r \in Ranks, NEW p \in Producers, GetNext(r, p)
  PROVE  RManInv'
<1> DEFINE ns   == rank[r].ns
           cand == Candidates(ns, rin[r])
           next == IF cand = {} THEN rin[r].refmax ELSE Least(cand) + 1
           old  == prod[r][p].ref
           was  == prod[r][p].at = "busy"
<1>1. /\ prod[r][p].at \in {"get", "busy"} /\ mgr' = mgr /\ req' = req /\ resp' = resp
      /\ failures' = failures
  BY DEF GetNext
<1>2. rank[r].rlog /\ ns \in NS /\ RManTypeOK /\ RankInv(r)
  BY <1>1, ThreadsBelong DEF RManInv
<1>3. rin[r] \in Inputs /\ prod[r][p] \in ProducerThreads /\ rank[r] \in MainThreads
  BY <1>2 DEF RManTypeOK
<1>4. /\ \A n : n \in cand <=> /\ n \in Nat /\ rin[r].refindex <= n /\ n < rin[r].refmax
                               /\ <<ns, n>> \notin Absent
      /\ cand # {} => /\ Least(cand) \in cand /\ \A n \in cand : Least(cand) <= n
      /\ cand \in SUBSET Nat
  <2>1. rin[r].refindex \in Nat /\ rin[r].refmax \in Nat
    BY <1>3, InputType
  <2>2. \A n : n \in cand <=> /\ n \in Nat /\ rin[r].refindex <= n /\ n < rin[r].refmax
                              /\ <<ns, n>> \notin Absent
    BY <2>1 DEF Candidates
  <2>3. cand \in SUBSET Nat
    BY <2>2
  <2> QED BY <2>2, <2>3, LeastIsLeast
<1>5. next \in Nat /\ (cand # {} => Least(cand) \in Nat)
  BY <1>3, <1>4, InputType
<1>6. PICK i \in Inputs : /\ rin' = [rin EXCEPT ![r] = i] /\ SameCounts(i, rin[r])
                          /\ i.refindex = next /\ i.refmax = rin[r].refmax
  <2> DEFINE j == [rin[r] EXCEPT !.refindex = next]
  <2>1. rin' = [rin EXCEPT ![r] = SignalComplete(j)] \/ rin' = [rin EXCEPT ![r] = j]
    BY DEF GetNext
  <2>2. j \in Inputs /\ SameCounts(j, rin[r]) /\ j.refindex = next /\ j.refmax = rin[r].refmax
    BY <1>3, <1>5 DEF Inputs, SameCounts
  <2> HIDE DEF j
  <2> QED BY <2>1, <2>2, WakeUps DEF SameRange, SameCounts
<1>7. PICK t \in ProducerThreads :
        /\ prod' = [prod EXCEPT ![r][p] = t] /\ t.fatal = prod[r][p].fatal /\ t.dec = prod[r][p].dec
        /\ cand # {} => t.at = "busy" /\ t.ref = Least(cand)
        /\ cand = {} => t.at = IF rin[r].prepterm # 0 THEN "term" ELSE "update"
  <2>1. CASE cand # {}
    <3> DEFINE t == [prod[r][p] EXCEPT !.at = "busy", !.ref = Least(cand)]
    <3>1. prod' = [prod EXCEPT ![r][p] = t]
      BY <2>1 DEF GetNext
    <3>2. /\ t \in ProducerThreads /\ t.fatal = prod[r][p].fatal /\ t.dec = prod[r][p].dec
          /\ t.at = "busy" /\ t.ref = Least(cand)
      BY <1>3, <1>5, <2>1 DEF ProducerThreads
    <3> QED BY <2>1, <3>1, <3>2
  <2>2. CASE cand = {}
    <3> DEFINE x == IF rin[r].prepterm # 0 THEN "term" ELSE "update"
               t == [prod[r][p] EXCEPT !.at = x, !.ref = 0]
    <3>1. prod' = [prod EXCEPT ![r][p] = t]
      BY <2>2 DEF GetNext
    <3>2. /\ t \in ProducerThreads /\ t.fatal = prod[r][p].fatal /\ t.dec = prod[r][p].dec /\ t.at = x
      BY <1>3 DEF ProducerThreads
    <3> QED BY <2>2, <3>1, <3>2
  <2> QED BY <2>1, <2>2
<1>8. was => old \in Nat /\ InHand(r, p, ns, old) /\ old \in Refs /\ Exists(ns, old) /\ rank[r].report[old] = 0
  <2> SUFFICES ASSUME was PROVE old \in Nat /\ InHand(r, p, ns, old) /\ old \in Refs /\ Exists(ns, old)
                                /\ rank[r].report[old] = 0
    OBVIOUS
  <2>1. old \in Nat /\ InHand(r, p, ns, old)
    BY <1>3 DEF InHand, ProducerThreads
  <2>2. old \in Refs
    BY <1>2, <2>1, RefsFacts DEF RankInv, Bounded, InHand
  <2>3. OnceIn(r, ns, old)
    BY <1>2, <2>2 DEF RManInv, PlaceInv
  <2> QED BY <2>1, <2>2, <2>3 DEF OnceIn, InReport
<1>9. PICK m \in MainThreads :
        /\ rank' = [rank EXCEPT ![r] = m] /\ m.at = rank[r].at /\ m.ns = ns /\ m.rlog = rank[r].rlog
        /\ m.consfatal = rank[r].consfatal
        /\ \A n \in Refs : m.report[n] = IF was /\ n = old THEN 1 ELSE rank[r].report[n]
  <2>1. CASE ~was
    <3>1. rank' = [rank EXCEPT ![r] = rank[r]]
      BY <1>1, <1>2, <2>1 DEF GetNext, RManTypeOK
    <3> QED BY <1>3, <2>1, <3>1
  <2>2. CASE was
    <3> DEFINE rep == [rank[r].report EXCEPT ![old] = 1]
               m   == [rank[r] EXCEPT !.report = rep]
    <3>1. rank' = [rank EXCEPT ![r].report[old] = rank[r].report[old] + 1]
      BY <2>2 DEF GetNext
    <3>2. rank' = [rank EXCEPT ![r].report[old] = 1]
      <4>1. rank[r].report[old] + 1 = 1
        BY <1>8, <2>2
      <4> QED BY <3>1, <4>1
    <3>3. rank' = [rank EXCEPT ![r] = m]
      BY <3>2
    <3>4. rank[r].report \in Counts
      BY <1>3 DEF MainThreads
    <3>5. rep \in Counts /\ \A n \in Refs : rep[n] = IF n = old THEN 1 ELSE rank[r].report[n]
      BY <1>8, <2>2, <3>4 DEF Counts
    <3> HIDE DEF rep
    <3>6. /\ m \in MainThreads /\ m.at = rank[r].at /\ m.ns = ns /\ m.rlog = rank[r].rlog
          /\ m.consfatal = rank[r].consfatal /\ m.report = rep
      BY <1>3, <3>5 DEF MainThreads
    <3> HIDE DEF m
    <3>7. \A n \in Refs : m.report[n] = IF was /\ n = old THEN 1 ELSE rank[r].report[n]
      BY <2>2, <3>5, <3>6
    <3> QED BY <3>3, <3>6, <3>7
  <2> QED BY <2>1, <2>2
<1> HIDE DEF cand, next, old, was
<1>10. /\ rin'[r] = i /\ rank'[r] = m /\ prod'[r][p] = t
       /\ \A q \in Producers : q # p => prod'[r][q] = prod[r][q]
  <2>1. rin'[r] = i
    BY <1>2, <1>6, OneInput
  <2>2. rank'[r] = m
    BY <1>2, <1>9, OneRank
  <2>3. prod'[r][p] = t /\ \A q \in Producers : q # p => prod'[r][q] = prod[r][q]
    BY <1>2, <1>7, OneThread
  <2> QED BY <2>1, <2>2, <2>3
<1>11. RManTypeOK' /\ Others(r)
  <2>1. rin' \in [Ranks -> Inputs] /\ \A s \in Ranks : s # r => rin'[s] = rin[s]
    BY <1>2, <1>6, OneInput
  <2>2. rank' \in [Ranks -> MainThreads] /\ \A s \in Ranks : s # r => rank'[s] = rank[s]
    BY <1>2, <1>9, OneRank
  <2>3. prod' \in [Ranks -> [Producers -> ProducerThreads]] /\ \A s \in Ranks : s # r => prod'[s] = prod[s]
    BY <1>2, <1>7, OneThread
  <2> QED BY <1>1, <1>2, <2>1, <2>2, <2>3 DEF RManTypeOK, Others
<1>12. AnyFatal(r)' = AnyFatal(r)
  BY <1>7, <1>9, <1>10 DEF AnyFatal
<1>13. EmptyUnlessScanning(r)' /\ Bounded(r)'
  <2>2. Bounded(r)'
    <3>1. cand # {} => t.ref < rin[r].refmax
      BY <1>4, <1>7
    <3>2. cand = {} => t.at # "busy"
      BY <1>7
    <3>3. /\ Bounded(r) /\ RefNodes[ns] \in Nat /\ rin[r].refmax \in Nat /\ t.ref \in Nat
      BY <1>2, <1>3, <1>7, Ranges, InputType, ThreadFields DEF RankInv
    <3> QED BY <1>2, <1>6, <1>9, <1>10, <3>1, <3>2, <3>3 DEF Bounded
  <2>1. Empty(rin[r]) => next = rin[r].refmax
    <3>1. rin[r].refindex \in Nat /\ rin[r].refmax \in Nat
      BY <1>3, InputType
    <3>2. Empty(rin[r]) => \A n \in Nat : ~(rin[r].refindex <= n /\ n < rin[r].refmax)
      BY <3>1 DEF Empty
    <3>3. Empty(rin[r]) => cand = {}
      BY <1>4, <3>2
    <3> QED BY <3>3 DEF next
  <2> QED BY <1>2, <1>6, <1>9, <1>10, <2>1, <2>2 DEF RankInv, EmptyUnlessScanning, Empty
<1>14. ASSUME Handshake(r) PROVE Handshake(r)'
  <2>1. t.at \in Scanners \cup {"term"} /\ (rin[r].prepterm = 0 => t.at \in Scanners)
    BY <1>7 DEF Scanners
  <2>2. prod[r][p].at \in Scanners /\ rank[r].at \notin {"leaving", "status"} /\ rank[r].at # "exit"
    BY <1>1, <1>2, <1>14 DEF Handshake, Scanners
  <2>3. Said(r)' = Said(r)
    BY <1>7, <1>10 DEF Said
  <2>4. SameCounts(i, rin[r])
    BY <1>6
  <2>5. rank[r].at = "term" => ~t.dec
    BY <1>1, <1>7, <1>14 DEF Handshake
  <2>6. ~t.dec \/ rank[r].at \notin {"recv", "comp"}
    BY <1>2, <1>7, <1>14 DEF Handshake
  <2> QED BY <1>9, <1>10, <1>14, <2>1, <2>2, <2>3, <2>4, <2>5, <2>6 DEF Handshake, SameCounts
<1>15. PlacesKept(r)
  <2> SUFFICES ASSUME NEW n2 \in NS, NEW k \in Refs
               PROVE  /\ OnceIn(r, n2, k)'
                      /\ Has(r, n2, k)' => Has(r, n2, k)
                      /\ Exists(n2, k) /\ Has(r, n2, k) => Has(r, n2, k)'
    BY DEF PlacesKept
  <2>1. OnceIn(r, n2, k) /\ k \in Nat
    BY RefsFacts DEF RManInv, PlaceInv
  <2>2. InRequest(r, n2, k)' = InRequest(r, n2, k) /\ InAnswer(r, n2, k)' = InAnswer(r, n2, k)
    BY <1>1, <1>9, <1>10 DEF InRequest, InAnswer, Answered_
  <2>3. \A q \in Producers : q # p => InHand(r, q, n2, k)' = InHand(r, q, n2, k)
    BY <1>9, <1>10 DEF InHand
  <2>4. CASE n2 # ns
    <3>1. /\ ~InRange(r, n2, k)' /\ ~InReport(r, n2, k)' /\ \A q \in Producers : ~InHand(r, q, n2, k)'
          /\ ~InRange(r, n2, k) /\ ~InReport(r, n2, k) /\ \A q \in Producers : ~InHand(r, q, n2, k)
      BY <1>9, <1>10, <2>4 DEF InRange, InReport, InHand
    <3>2. InAnswer(r, n2, k) => resp'[r].report = resp[r].report
      BY <1>1
    <3> QED BY <2>1, <2>2, <3>1, <3>2 DEF OnceIn, Has
  <2>5. CASE n2 = ns
    <3>1. InHand(r, p, n2, k)' <=> cand # {} /\ k = Least(cand)
      BY <1>7, <1>9, <1>10, <2>5 DEF InHand
    <3>2. InHand(r, p, n2, k) <=> was /\ k = old
      BY <2>5 DEF InHand, was, old
    <3>3. InReport(r, n2, k)' <=> InReport(r, n2, k) \/ InHand(r, p, n2, k)
      BY <1>8, <1>9, <1>10, <2>5, <3>2 DEF InReport
    <3>4. InReport(r, n2, k)' => rank'[r].report[k] = 1
      BY <1>9, <1>10, <2>1, <2>5, <3>2, <3>3 DEF OnceIn, InReport
    <3>5. /\ InRange(r, n2, k)' => InRange(r, n2, k) /\ ~InHand(r, p, n2, k)'
          /\ InHand(r, p, n2, k)' => InRange(r, n2, k) /\ <<n2, k>> \notin Absent
          /\ InRange(r, n2, k) /\ <<n2, k>> \notin Absent => InRange(r, n2, k)' \/ InHand(r, p, n2, k)'
      <4>1. /\ InRange(r, n2, k) <=> rin[r].refindex <= k /\ k < rin[r].refmax
            /\ InRange(r, n2, k)' <=> next <= k /\ k < rin[r].refmax
        BY <1>6, <1>9, <1>10, <2>5 DEF InRange
      <4>2. rin[r].refindex \in Nat /\ rin[r].refmax \in Nat
        BY <1>3, InputType
      <4>3. CASE cand = {}
        <5>1. next = rin[r].refmax
          BY <4>3 DEF next
        <5> QED BY <1>4, <2>1, <2>5, <3>1, <4>1, <4>2, <4>3, <5>1
      <4>4. CASE cand # {}
        <5>1. next = Least(cand) + 1 /\ Least(cand) \in Nat
          BY <1>5, <4>4 DEF next
        <5>2. rin[r].refindex <= Least(cand) /\ Least(cand) < rin[r].refmax /\ <<ns, Least(cand)>> \notin Absent
          BY <1>4, <4>4
        <5>3. InRange(r, n2, k)' => InRange(r, n2, k) /\ k # Least(cand)
          BY <2>1, <4>1, <4>2, <5>1, <5>2
        <5>4. k \in cand => k = Least(cand) \/ next <= k
          BY <1>4, <2>1, <4>4, <5>1
        <5>5. InRange(r, n2, k) /\ <<n2, k>> \notin Absent => k \in cand
          BY <1>4, <2>1, <2>5, <4>1
        <5>6. k \in cand /\ next <= k => InRange(r, n2, k)'
          BY <1>4, <4>1
        <5> QED BY <2>5, <3>1, <4>1, <4>4, <5>2, <5>3, <5>4, <5>5, <5>6
      <4> QED BY <4>3, <4>4
    <3>6. InAnswer(r, n2, k) => resp'[r].report = resp[r].report
      BY <1>1
    <3>7. InRange(r, n2, k) => k < RefNodes[n2]
      BY <2>1 DEF OnceIn
    <3>8. OnceIn(r, n2, k)'
      BY <2>1, <2>2, <2>3, <3>3, <3>4, <3>5, <3>6, <3>7 DEF OnceIn, Exists
    <3>9. Has(r, n2, k)' => Has(r, n2, k)
      BY <2>2, <2>3, <3>3, <3>5 DEF Has
    <3>10. Exists(n2, k) /\ Has(r, n2, k) => Has(r, n2, k)'
      BY <2>2, <2>3, <3>3, <3>5 DEF Has, Exists
    <3> QED BY <3>8, <3>9, <3>10
  <2> QED BY <2>4, <2>5
<1>16. AnyFatal(r)' => failures' > 0
  BY <1>1, <1>2, <1>12 DEF RankInv
<1>17. failures' = 0 => Handshake(r)'
  BY <1>1, <1>2, <1>14 DEF RankInv
<1>18. rank'[r].rlog /\ rank'[r].ns = rank[r].ns /\ rank'[r].at = rank[r].at
  BY <1>2, <1>9, <1>10
<1>19. failures' >= failures /\ ~(failures' > failures)
  BY <1>1, <1>2 DEF RManTypeOK
<1> QED BY <1>1, <1>2, <1>11, <1>12, <1>13, <1>15, <1>16, <1>17, <1>18, <1>19, QuietStep

\* After a fatal error nothing is left of the range, and nothing else moves.
LEMMA PurgedPlaces ==
  ASSUME RManInv, NEW r \in Ranks, failures' # 0, Empty(rin'[r]), rin'[r] \in Inputs,
         req' = req, resp' = resp, rank'[r].at = rank[r].at, rank'[r].ns = rank[r].ns,
         rank'[r].report = rank[r].report,
         \A p \in Producers : prod'[r][p].at = "busy" => prod'[r][p] = prod[r][p]
  PROVE  PlacesKept(r)
<1> SUFFICES ASSUME NEW ns \in NS, NEW i \in Refs
             PROVE  OnceIn(r, ns, i)' /\ (Has(r, ns, i)' => Has(r, ns, i))
  BY DEF PlacesKept
<1>1. InRequest(r, ns, i)' = InRequest(r, ns, i) /\ InAnswer(r, ns, i)' = InAnswer(r, ns, i)
  BY SameMessages
<1>2. ~InRange(r, ns, i)'
  BY RefsFacts, InputType DEF InRange, Empty
<1>3. InReport(r, ns, i)' = InReport(r, ns, i)
  BY DEF InReport
<1>4. \A p \in Producers : InHand(r, p, ns, i)' => InHand(r, p, ns, i)
  BY DEF InHand
<1>5. OnceIn(r, ns, i) /\ (InAnswer(r, ns, i) => resp'[r].report = resp[r].report)
  BY DEF RManInv, PlaceInv
<1> QED BY <1>1, <1>2, <1>3, <1>4, <1>5 DEF OnceIn, Has

LEMMA ProducerFailsSafe ==
  ASSUME RManInv, NEW r \in Ranks, NEW p \in Producers, ProducerFails(r, p)
  PROVE  RManInv'
<1>1. /\ prod[r][p].at = "busy" /\ mgr' = mgr /\ req' = req /\ resp' = resp /\ rank' = rank
      /\ failures' = failures + 1 /\ rin' = [rin EXCEPT ![r] = Purge(rin[r])]
      /\ prod' = [prod EXCEPT ![r][p].at = "end", ![r][p].fatal = TRUE]
  BY DEF ProducerFails, Fail
<1>2. rank[r].rlog /\ rank[r].ns \in NS /\ RManTypeOK /\ RankInv(r)
  BY <1>1, ThreadsBelong DEF RManInv
<1>3. rin[r] \in Inputs /\ prod[r][p] \in ProducerThreads
  BY <1>2 DEF RManTypeOK
<1> DEFINE t == [prod[r][p] EXCEPT !.at = "end", !.fatal = TRUE]
<1>4. prod' = [prod EXCEPT ![r][p] = t]
  BY <1>1, <1>2 DEF RManTypeOK
<1>5. t \in ProducerThreads /\ t.at = "end" /\ t.fatal
  BY <1>3 DEF ProducerThreads
<1> HIDE DEF t
<1>6. Purge(rin[r]) \in Inputs /\ Empty(Purge(rin[r]))
  BY <1>3, PurgeEffect
<1>7. /\ rin' \in [Ranks -> Inputs] /\ rin'[r] = Purge(rin[r])
      /\ \A s \in Ranks : s # r => rin'[s] = rin[s]
  BY <1>1, <1>2, <1>6, OneInput
<1>8. /\ prod' \in [Ranks -> [Producers -> ProducerThreads]] /\ prod'[r][p] = t
      /\ \A q \in Producers : q # p => prod'[r][q] = prod[r][q]
      /\ \A s \in Ranks : s # r => prod'[s] = prod[s]
  BY <1>2, <1>4, <1>5, OneThread
<1>9. failures \in Nat /\ failures' \in Nat /\ failures' > failures /\ failures' > 0
  BY <1>1, <1>2 DEF RManTypeOK
<1>10. RManTypeOK' /\ Others(r)
  BY <1>1, <1>2, <1>7, <1>8, <1>9 DEF RManTypeOK, Others
<1>11. AnyFatal(r)'
  BY <1>5, <1>8 DEF AnyFatal
<1>12. EmptyUnlessScanning(r)'
  BY <1>6, <1>7 DEF EmptyUnlessScanning
<1>13. Bounded(r)'
  <2>1. Purge(rin[r]).refmax = rin[r].refmax
    BY <1>3 DEF Purge, SignalComplete, BroadcastUpdated, Inputs
  <2> QED BY <1>1, <1>2, <1>5, <1>7, <1>8, <2>1 DEF RankInv, Bounded
<1>14. PlacesKept(r)
  BY <1>1, <1>5, <1>6, <1>7, <1>8, <1>9, PurgedPlaces
<1>15. rank'[r].rlog /\ rank'[r].ns = rank[r].ns /\ rank'[r].at = rank[r].at
  BY <1>1, <1>2
<1>16. ~(failures' = 0) /\ failures' >= failures
  BY <1>9
<1> QED BY <1>1, <1>2, <1>9, <1>10, <1>11, <1>12, <1>13, <1>14, <1>15, <1>16, QuietStep

LEMMA ConsumerFailsSafe ==
  ASSUME RManInv, NEW r \in Ranks, ConsumerFails(r)
  PROVE  RManInv'
<1>1. /\ rank[r].rlog /\ mgr' = mgr /\ req' = req /\ resp' = resp /\ prod' = prod
      /\ failures' = failures + 1 /\ rin' = [rin EXCEPT ![r] = Purge(rin[r])]
      /\ rank' = [rank EXCEPT ![r] = [rank[r] EXCEPT !.consfatal = TRUE]]
  BY DEF ConsumerFails, Fail
<1>2. RManTypeOK /\ RankInv(r)
  BY DEF RManInv
<1>3. rin[r] \in Inputs /\ rank[r] \in MainThreads
  BY <1>2 DEF RManTypeOK
<1> DEFINE m == [rank[r] EXCEPT !.consfatal = TRUE]
<1>5. /\ m \in MainThreads /\ m.at = rank[r].at /\ m.ns = rank[r].ns /\ m.rlog = rank[r].rlog
      /\ m.report = rank[r].report /\ m.consfatal
  BY <1>3 DEF MainThreads
<1>4. rank' = [rank EXCEPT ![r] = m]
  BY <1>1
<1> HIDE DEF m
<1>6. Purge(rin[r]) \in Inputs /\ Empty(Purge(rin[r]))
  BY <1>3, PurgeEffect
<1>7. /\ rin' \in [Ranks -> Inputs] /\ rin'[r] = Purge(rin[r])
      /\ \A s \in Ranks : s # r => rin'[s] = rin[s]
  BY <1>1, <1>2, <1>6, OneInput
<1>8. /\ rank' \in [Ranks -> MainThreads] /\ rank'[r] = m
      /\ \A s \in Ranks : s # r => rank'[s] = rank[s]
  BY <1>2, <1>4, <1>5, OneRank
<1>9. failures \in Nat /\ failures' \in Nat /\ failures' > failures /\ failures' > 0
  BY <1>1, <1>2 DEF RManTypeOK
<1>10. RManTypeOK' /\ Others(r)
  BY <1>1, <1>2, <1>7, <1>8, <1>9 DEF RManTypeOK, Others
<1>11. AnyFatal(r)'
  BY <1>5, <1>8 DEF AnyFatal
<1>12. EmptyUnlessScanning(r)'
  BY <1>6, <1>7 DEF EmptyUnlessScanning
<1>13. Bounded(r)'
  <2>1. Purge(rin[r]).refmax = rin[r].refmax
    BY <1>3 DEF Purge, SignalComplete, BroadcastUpdated, Inputs
  <2> QED BY <1>1, <1>2, <1>5, <1>7, <1>8, <2>1 DEF RankInv, Bounded
<1>14. PlacesKept(r)
  <2>1. \A p \in Producers : prod'[r][p] = prod[r][p]
    BY <1>1
  <2>2. rin'[r] \in Inputs /\ Empty(rin'[r])
    BY <1>6, <1>7
  <2>3. rank'[r].at = rank[r].at /\ rank'[r].ns = rank[r].ns /\ rank'[r].report = rank[r].report
    BY <1>5, <1>8
  <2> QED BY <1>1, <1>9, <2>1, <2>2, <2>3, PurgedPlaces
<1>15. rank'[r].rlog /\ rank'[r].ns = rank[r].ns /\ rank'[r].at = rank[r].at
  BY <1>1, <1>5, <1>8
<1>16. ~(failures' = 0) /\ failures' >= failures
  BY <1>9
<1> QED BY <1>1, <1>2, <1>9, <1>10, <1>11, <1>12, <1>13, <1>14, <1>15, <1>16, QuietStep

\* A main thread that completes its namespace goes on: only where it is, and its counts, change.
LEMMA CompletingStep ==
  ASSUME RManInv, NEW r \in Ranks, NEW i \in Inputs, NEW at \in {"term", "leaving", "status"},
         req[r].type = "COMPLETE", SameRange(i, rin[r]),
         rin' = [rin EXCEPT ![r] = i], rank' = [rank EXCEPT ![r].at = at],
         UNCHANGED <<mgr, req, resp, prod, failures>>,
         failures = 0 => Handshake(r)', Empty(rin[r])
  PROVE  RManInv'
<1>1. RManTypeOK /\ RankInv(r)
  BY DEF RManInv
<1>2. rank[r] \in MainThreads /\ rank[r].rlog
  BY <1>1 DEF RManTypeOK, RankInv, Within
<1> DEFINE m == [rank[r] EXCEPT !.at = at]
<1>3. rank' = [rank EXCEPT ![r] = m]
  OBVIOUS
<1>4. /\ m \in MainThreads /\ m.at = at /\ m.ns = rank[r].ns /\ m.rlog = rank[r].rlog
      /\ m.report = rank[r].report /\ m.consfatal = rank[r].consfatal
  BY <1>2 DEF MainThreads
<1> HIDE DEF m
<1>5. rin' \in [Ranks -> Inputs] /\ rin'[r] = i /\ \A s \in Ranks : s # r => rin'[s] = rin[s]
  BY <1>1, OneInput
<1>6. rank' \in [Ranks -> MainThreads] /\ rank'[r] = m /\ \A s \in Ranks : s # r => rank'[s] = rank[s]
  BY <1>1, <1>3, <1>4, OneRank
<1>7. RManTypeOK' /\ Others(r)
  BY <1>1, <1>5, <1>6 DEF RManTypeOK, Others
<1>8. AnyFatal(r)' = AnyFatal(r)
  BY <1>4, <1>6 DEF AnyFatal
<1>9. EmptyUnlessScanning(r)' /\ Bounded(r)'
  BY <1>1, <1>4, <1>5, <1>6 DEF RankInv, EmptyUnlessScanning, Bounded, Empty, SameRange
<1>10. PlacesKept(r)
  <2>1. \A ns, k : InRequest(r, ns, k)' = InRequest(r, ns, k) /\ InAnswer(r, ns, k)' = InAnswer(r, ns, k)
    BY DEF InRequest, InAnswer, Answered_
  <2> QED BY <1>4, <1>5, <1>6, <2>1, SamePlaces DEF SameRange
<1>11. failures' >= failures /\ ~(failures' > failures)
  BY <1>1 DEF RManTypeOK
<1>12. AnyFatal(r)' => failures' > 0
  BY <1>1, <1>8 DEF RankInv
<1>13. rank'[r].rlog /\ rank'[r].ns = rank[r].ns /\ rank'[r].at = at
  BY <1>2, <1>4, <1>6
<1> QED BY <1>2, <1>7, <1>8, <1>9, <1>10, <1>11, <1>12, <1>13, QuietStep

LEMMA CompleteWorkSafe ==
  ASSUME RManInv, NEW r \in Ranks, CompleteWork(r)
  PROVE  RManInv'
<1>1. RManTypeOK /\ RankInv(r) /\ rin[r] \in Inputs /\ rank[r] \in MainThreads
  BY DEF RManInv, RManTypeOK
<1>2. req[r].type = "COMPLETE" /\ rank[r].at = "recv" /\ rank[r].rlog /\ Empty(rin[r])
  BY <1>1 DEF CompleteWork, Requested, RankInv, Within, EmptyUnlessScanning
<1>3. UNCHANGED <<mgr, req, resp, prod, failures>>
  BY <1>2 DEF CompleteWork
<1>4. failures = 0 => /\ rin[r].prepterm = 0 /\ rin[r].clientcount = Cardinality(Producers)
                      /\ \A p \in Producers : prod[r][p].at \in Scanners /\ ~prod[r][p].dec
  BY <1>1, <1>2 DEF RankInv, Handshake
<1>5. CASE rin[r].prepterm > 2
  <2>1. rank' = [rank EXCEPT ![r].at = "status"] /\ rin' = [rin EXCEPT ![r] = rin[r]]
    BY <1>1, <1>2, <1>5 DEF CompleteWork, RManTypeOK
  <2>2. failures # 0
    BY <1>4, <1>5
  <2>3. SameRange(rin[r], rin[r])
    BY DEF SameRange
  <2> QED BY <1>1, <1>2, <1>3, <2>1, <2>2, <2>3, CompletingStep
<1>6. CASE ~(rin[r].prepterm > 2)
  <2> DEFINE i == AsksToEnd(rin[r])
  <2>1. rank' = [rank EXCEPT ![r].at = "term"] /\ rin' = [rin EXCEPT ![r] = i]
    BY <1>2, <1>6 DEF CompleteWork
  <2>2. /\ i \in Inputs /\ SameRange(i, rin[r])
        /\ i.clientcount = rin[r].clientcount /\ i.orig = rin[r].clientcount
        /\ rin[r].prepterm = 0 => i.prepterm = 1
    BY <1>1, AsksToEndEffect
  <2> HIDE DEF i
  <2>3. ASSUME failures = 0 PROVE Handshake(r)'
    <3>1. rin'[r] = i /\ rank'[r].at = "term"
      BY <1>1, <2>1 DEF RManTypeOK, MainThreads
    <3>2. Said(r)' = {}
      BY <1>3, <1>4, <2>3 DEF Said
    <3>3. Cardinality(Said(r)') = 0 /\ Cardinality(Producers) \in Int
      BY <3>2, FS_EmptySet, FS_CardinalityType, RManAssumption
    <3> QED BY <1>3, <1>4, <2>2, <2>3, <3>1, <3>3 DEF Handshake
  <2> QED BY <1>2, <1>3, <2>1, <2>2, <2>3, CompletingStep
<1> QED BY <1>5, <1>6

LEMMA TermSafe ==
  ASSUME RManInv, NEW r \in Ranks, Term(r)
  PROVE  RManInv'
<1>1. RManTypeOK /\ RankInv(r) /\ rin[r] \in Inputs /\ rank[r] \in MainThreads
  BY DEF RManInv, RManTypeOK
<1>2. rank[r].at = "term" /\ req[r].type = "COMPLETE" /\ Empty(rin[r])
  BY <1>1 DEF Term, RankInv, MessageOK, EmptyUnlessScanning
<1>3. UNCHANGED <<mgr, req, resp, prod, failures>>
  BY DEF Term
<1>4. failures = 0 => Handshake(r)
  BY <1>1 DEF RankInv
<1>5. CASE StillComing(rin[r])
  <2> DEFINE i == [rin[r] EXCEPT !.complete = TRUE]
  <2>1. rin' = [rin EXCEPT ![r] = i] /\ rank' = [rank EXCEPT ![r].at = "term"]
    <3>1. rank' = rank /\ [rank[r] EXCEPT !.at = "term"] = rank[r]
      BY <1>1, <1>2, <1>5 DEF Term, MainThreads
    <3> QED BY <1>1, <1>5, <3>1 DEF Term, RManTypeOK
  <2>2. i \in Inputs /\ SameRange(i, rin[r]) /\ SameCounts(i, rin[r])
    BY <1>1 DEF Inputs, SameRange, SameCounts
  <2> HIDE DEF i
  <2>3. ASSUME failures = 0 PROVE Handshake(r)'
    <3>1. rin'[r] = i /\ rank'[r].at = "term"
      BY <1>1, <2>1 DEF RManTypeOK, MainThreads
    <3>2. Said(r)' = Said(r)
      BY <1>3 DEF Said
    <3> QED BY <1>2, <1>3, <1>4, <2>2, <2>3, <3>1, <3>2 DEF Handshake, SameCounts
  <2> QED BY <1>2, <1>3, <2>1, <2>2, <2>3, CompletingStep
<1>6. CASE ~StillComing(rin[r])
  <2> DEFINE i == LetsGo(rin[r])
  <2>1. rin' = [rin EXCEPT ![r] = i] /\ rank' = [rank EXCEPT ![r].at = "leaving"]
    BY <1>6 DEF Term
  <2>2. /\ i \in Inputs /\ SameRange(i, rin[r]) /\ i.clientcount = rin[r].clientcount /\ i.orig = rin[r].orig
        /\ rin[r].prepterm = 1 => i.prepterm = 2
    BY <1>1, LetsGoEffect
  <2> HIDE DEF i
  <2>3. ASSUME failures = 0 PROVE Handshake(r)'
    <3>1. rin'[r] = i /\ rank'[r].at = "leaving"
      BY <1>1, <2>1 DEF RManTypeOK, MainThreads
    <3>2. /\ rin[r].prepterm = 1 /\ rin[r].orig = Cardinality(Producers)
          /\ rin[r].clientcount = Cardinality(Producers) - Cardinality(Said(r))
          /\ \A p \in Producers : prod[r][p].dec => prod[r][p].at = "term"
      BY <1>2, <1>4, <2>3 DEF Handshake
    <3>3. IsFiniteSet(Said(r)) /\ Said(r) \subseteq Producers
          /\ Cardinality(Said(r)) <= Cardinality(Producers)
          /\ (Cardinality(Said(r)) = Cardinality(Producers) => Said(r) = Producers)
      <4>1. Said(r) \subseteq Producers
        BY DEF Said
      <4> QED BY <4>1, RManAssumption, FS_Subset
    <3>4. Cardinality(Said(r)) \in Nat /\ Cardinality(Producers) \in Nat
      BY <3>3, RManAssumption, FS_CardinalityType
    <3>5. rin[r].clientcount = 0
      <4>1. ~(rin[r].clientcount > 0)
        BY <1>6, <3>2 DEF StillComing
      <4> QED BY <3>2, <3>3, <3>4, <4>1
    <3>6. Said(r) = Producers
      BY <3>2, <3>3, <3>4, <3>5
    <3>7. \A p \in Producers : prod[r][p].at = "term"
      BY <3>2, <3>6 DEF Said
    <3>8. Left(r)' = {}
      BY <1>3, <3>7 DEF Left
    <3>9. Cardinality(Left(r)') = 0
      BY <3>8, FS_EmptySet
    <3> QED BY <1>3, <2>2, <3>1, <3>2, <3>5, <3>7, <3>9 DEF Handshake
  <2> QED BY <1>2, <1>3, <2>1, <2>2, <2>3, CompletingStep
<1> QED BY <1>5, <1>6

LEMMA TermLeavingSafe ==
  ASSUME RManInv, NEW r \in Ranks, TermLeaving(r)
  PROVE  RManInv'
<1>1. RManTypeOK /\ RankInv(r) /\ rin[r] \in Inputs /\ rank[r] \in MainThreads
  BY DEF RManInv, RManTypeOK
<1>2. rank[r].at = "leaving" /\ req[r].type = "COMPLETE" /\ Empty(rin[r])
  BY <1>1 DEF TermLeaving, RankInv, MessageOK, EmptyUnlessScanning
<1>3. UNCHANGED <<mgr, req, resp, prod, failures>>
  BY DEF TermLeaving
<1>4. failures = 0 => Handshake(r)
  BY <1>1 DEF RankInv
<1>5. CASE StillThere(rin[r])
  <2> DEFINE i == [rin[r] EXCEPT !.complete = TRUE]
  <2>1. rin' = [rin EXCEPT ![r] = i] /\ rank' = [rank EXCEPT ![r].at = "leaving"]
    <3>1. rank' = rank /\ [rank[r] EXCEPT !.at = "leaving"] = rank[r]
      BY <1>1, <1>2, <1>5 DEF TermLeaving, MainThreads
    <3> QED BY <1>1, <1>5, <3>1 DEF TermLeaving, RManTypeOK
  <2>2. i \in Inputs /\ SameRange(i, rin[r]) /\ SameCounts(i, rin[r])
    BY <1>1 DEF Inputs, SameRange, SameCounts
  <2> HIDE DEF i
  <2>3. ASSUME failures = 0 PROVE Handshake(r)'
    <3>1. rin'[r] = i /\ rank'[r].at = "leaving"
      BY <1>1, <2>1 DEF RManTypeOK, MainThreads
    <3>2. Left(r)' = Left(r)
      BY <1>3 DEF Left
    <3> QED BY <1>2, <1>3, <1>4, <2>2, <2>3, <3>1, <3>2 DEF Handshake, SameCounts
  <2> QED BY <1>2, <1>3, <2>1, <2>2, <2>3, CompletingStep
<1>6. CASE ~StillThere(rin[r])
  <2> DEFINE i == [rin[r] EXCEPT !.prepterm = 3]
  <2>1. rin' = [rin EXCEPT ![r] = i] /\ rank' = [rank EXCEPT ![r].at = "status"]
    BY <1>6 DEF TermLeaving
  <2>2. i \in Inputs /\ SameRange(i, rin[r]) /\ i.clientcount = rin[r].clientcount
    <3>1. 3 \in 0 .. 3
      OBVIOUS
    <3> QED BY <1>1, <3>1 DEF Inputs, SameRange
  <2> HIDE DEF i
  <2>3. ASSUME failures = 0 PROVE Handshake(r)'
    <3>1. rin'[r] = i /\ rank'[r].at = "status"
      BY <1>1, <2>1 DEF RManTypeOK, MainThreads
    <3>2. /\ rin[r].prepterm = 2 /\ rin[r].orig = Cardinality(Producers)
          /\ rin[r].clientcount = Cardinality(Left(r))
      BY <1>2, <1>4, <2>3 DEF Handshake
    <3>3. IsFiniteSet(Left(r)) /\ Left(r) \subseteq Producers
          /\ Cardinality(Left(r)) <= Cardinality(Producers)
          /\ (Cardinality(Left(r)) = Cardinality(Producers) => Left(r) = Producers)
      <4>1. Left(r) \subseteq Producers
        BY DEF Left
      <4> QED BY <4>1, RManAssumption, FS_Subset
    <3>4. Cardinality(Left(r)) \in Nat /\ Cardinality(Producers) \in Nat
      BY <3>3, RManAssumption, FS_CardinalityType
    <3>5. Cardinality(Left(r)) = Cardinality(Producers)
      BY <1>6, <3>2, <3>3, <3>4 DEF StillThere
    <3>6. \A p \in Producers : prod[r][p].at = "end"
      BY <3>3, <3>5 DEF Left
    <3> QED BY <1>3, <2>2, <3>1, <3>2, <3>5, <3>6 DEF Handshake
  <2> QED BY <1>2, <1>3, <2>1, <2>2, <2>3, CompletingStep
<1> QED BY <1>5, <1>6


-----------------------------------------------------------------------------
(* Steps in which a rank answers, and in which it is set up *)

LEMMA AnswerFacts ==
  ASSUME RManTypeOK, NEW r \in Ranks, NEW fatal \in BOOLEAN, NEW info \in BOOLEAN,
         Asked(r), Respond(r, fatal, info), Answered(r)
  PROVE  /\ req' \in [Ranks -> Requests \cup {Nothing}] /\ resp' \in [Ranks -> Answers \cup {Nothing}]
         /\ \A s \in Ranks : s # r => req'[s] = req[s] /\ resp'[s] = resp[s]
         /\ req'[r] = Nothing /\ req'[r].type = "none"
         /\ resp'[r].type = req[r].type /\ resp'[r].ns = req[r].ns /\ resp'[r].report = rank[r].report
         /\ resp'[r].fatal = fatal /\ resp'[r].info = info
<1> DEFINE a == [type |-> req[r].type, ns |-> req[r].ns, fatal |-> fatal, info |-> info,
                 report |-> rank[r].report]
<1>1. req \in [Ranks -> Requests \cup {Nothing}] /\ resp \in [Ranks -> Answers \cup {Nothing}]
  BY DEF RManTypeOK
<1>2. req' = [req EXCEPT ![r] = Nothing] /\ resp' = [resp EXCEPT ![r] = a]
  BY DEF Respond, Answered
<1>3. /\ a.type = req[r].type /\ a.ns = req[r].ns /\ a.report = rank[r].report
      /\ a.fatal = fatal /\ a.info = info
  OBVIOUS
<1>4. a \in Answers
  <2>1. req[r] \in Requests /\ rank[r].report \in Counts
    BY Messages DEF RManTypeOK, MainThreads
  <2> QED BY <2>1 DEF Answers, Requests
<1> HIDE DEF a
<1> QED BY <1>1, <1>2, <1>3, <1>4 DEF Nothing

LEMMA WaitForCompSafe ==
  ASSUME RManInv, NEW r \in Ranks, WaitForComp(r)
  PROVE  RManInv'
<1>1. RManTypeOK /\ RankInv(r) /\ rin[r] \in Inputs /\ rank[r] \in MainThreads
  BY DEF RManInv, RManTypeOK
<1>2. /\ rank[r].at = "comp" /\ req[r].type = "NS" /\ rank[r].rlog /\ Asked(r) /\ ~Answered_(r)
      /\ rank[r].ns = req[r].ns /\ r \notin mgr.terminated
  BY <1>1 DEF WaitForComp, RankInv, MessageOK, Within, Asked
<1>3. mgr' = mgr /\ prod' = prod /\ failures' = failures
  BY DEF WaitForComp
<1>4. failures' >= failures /\ ~(failures' > failures)
  BY <1>1, <1>3 DEF RManTypeOK
<1>5. CASE Empty(rin[r])
  <2>1. Respond(r, FALSE, FALSE) /\ Answered(r) /\ rin' = rin
        /\ rank' = [rank EXCEPT ![r] = [rank[r] EXCEPT !.at = "recv"]]
    BY <1>5 DEF WaitForComp, Next_
  <2>2. /\ req' \in [Ranks -> Requests \cup {Nothing}] /\ resp' \in [Ranks -> Answers \cup {Nothing}]
        /\ \A s \in Ranks : s # r => req'[s] = req[s] /\ resp'[s] = resp[s]
        /\ req'[r].type = "none" /\ resp'[r].type = "NS" /\ resp'[r].ns = rank[r].ns
        /\ ~resp'[r].fatal /\ ~resp'[r].info
    BY <1>1, <1>2, <2>1, AnswerFacts
  <2> DEFINE m == [rank[r] EXCEPT !.at = "recv"]
  <2>3. /\ m \in MainThreads /\ m.at = "recv" /\ m.ns = rank[r].ns /\ m.rlog = rank[r].rlog
        /\ m.report = rank[r].report /\ m.consfatal = rank[r].consfatal
    BY <1>1 DEF MainThreads
  <2>4. rank' = [rank EXCEPT ![r] = m]
    BY <2>1
  <2> HIDE DEF m
  <2>5. rank' \in [Ranks -> MainThreads] /\ rank'[r] = m /\ \A s \in Ranks : s # r => rank'[s] = rank[s]
    BY <1>1, <2>3, <2>4, OneRank
  <2>6. RManTypeOK' /\ Others(r)
    BY <1>1, <1>3, <2>1, <2>2, <2>5 DEF RManTypeOK, Others
  <2>7. MessageOK(r)'
    BY <1>1, <1>2, <1>3, <2>2, <2>3, <2>5 DEF RankInv, MessageOK, Asked, Answered_
  <2>8. Within(r)'
    BY <1>1, <1>2, <1>3, <2>2, <2>3, <2>5 DEF RankInv, Within, Asked, Answered_, Accepted
  <2>9. Unset(r)' /\ EmptyUnlessScanning(r)' /\ Bounded(r)'
    BY <1>1, <1>2, <1>3, <1>5, <2>1, <2>3, <2>5
       DEF RankInv, Unset, EmptyUnlessScanning, Bounded, Empty
  <2>10. ~Refused(r)' /\ AnyFatal(r)' = AnyFatal(r) /\ ~Refused(r)
    BY <1>2, <1>3, <2>2, <2>3, <2>5 DEF Refused, AnyFatal
  <2>11. Handshake(r) => Handshake(r)'
    BY <1>2, <1>3, <2>1, <2>3, <2>5 DEF Handshake
  <2>12. RankInv(r)'
    BY <1>1, <1>3, <2>7, <2>8, <2>9, <2>10, <2>11 DEF RankInv
  <2>13. ~Dismissed(r)'
    BY <1>2, <1>3, <2>2 DEF Dismissed
  <2>14. Underway(r) => Underway(r)'
    BY <2>3, <2>5, <2>10 DEF Underway
  <2>15. PlacesKept(r)
    <3>1. \A ns, i : /\ ~InRequest(r, ns, i)' /\ ~InRequest(r, ns, i)
                     /\ ~InAnswer(r, ns, i)' /\ ~InAnswer(r, ns, i)
      BY <1>2, <2>2 DEF InRequest, InAnswer
    <3>2. \A ns, i : /\ InRequest(r, ns, i)' = InRequest(r, ns, i) /\ InAnswer(r, ns, i)' = InAnswer(r, ns, i)
                     /\ InAnswer(r, ns, i) => resp'[r].report = resp[r].report
      BY <3>1 DEF InRequest, InAnswer, Answered_
    <3> QED BY <1>3, <2>1, <2>3, <2>5, <3>2, SamePlaces
  <2> QED BY <1>3, <1>4, <2>6, <2>12, <2>13, <2>14, <2>15, RankStep
<1>6. CASE ~Empty(rin[r])
  <2> DEFINE i == [rin[r] EXCEPT !.complete = TRUE]
  <2>1. rin' = [rin EXCEPT ![r] = i] /\ UNCHANGED <<req, resp, rank>>
    BY <1>6 DEF WaitForComp
  <2>2. i \in Inputs /\ SameRange(i, rin[r]) /\ SameCounts(i, rin[r])
    BY <1>1 DEF Inputs, SameRange, SameCounts
  <2> HIDE DEF i
  <2>3. rin' \in [Ranks -> Inputs] /\ rin'[r] = i /\ \A s \in Ranks : s # r => rin'[s] = rin[s]
    BY <1>1, <2>1, <2>2, OneInput
  <2>4. RManTypeOK' /\ Others(r)
    BY <1>1, <1>3, <2>1, <2>3 DEF RManTypeOK, Others
  <2>5. AnyFatal(r)' = AnyFatal(r)
    BY <1>3, <2>1 DEF AnyFatal
  <2>6. EmptyUnlessScanning(r)' /\ Bounded(r)'
    BY <1>1, <1>2, <1>3, <2>1, <2>2, <2>3 DEF RankInv, EmptyUnlessScanning, Bounded, SameRange
  <2>7. Handshake(r) => Handshake(r)'
    BY <1>2, <1>3, <2>1, <2>2, <2>3 DEF Handshake, SameCounts
  <2>8. PlacesKept(r)
    <3>1. \A ns, k : InRequest(r, ns, k)' = InRequest(r, ns, k) /\ InAnswer(r, ns, k)' = InAnswer(r, ns, k)
      BY <2>1, SameMessages
    <3> QED BY <1>3, <2>1, <2>2, <2>3, <3>1, SamePlaces DEF SameRange
  <2>9. (AnyFatal(r)' => failures' > 0) /\ (failures' = 0 => Handshake(r)')
    BY <1>1, <1>3, <2>5, <2>7 DEF RankInv
  <2> QED BY <1>2, <1>3, <1>4, <2>1, <2>4, <2>5, <2>6, <2>8, <2>9, QuietStep
<1> QED BY <1>5, <1>6

LEMMA CollectSafe ==
  ASSUME RManInv, NEW r \in Ranks, Collect(r)
  PROVE  RManInv'
<1>1. RManTypeOK /\ RankInv(r) /\ rin[r] \in Inputs /\ rank[r] \in MainThreads
  BY DEF RManInv, RManTypeOK
<1>2. /\ rank[r].at = "status" /\ req[r].type = "COMPLETE" /\ rank[r].rlog /\ Asked(r) /\ ~Answered_(r)
      /\ rank[r].ns = req[r].ns /\ rank[r].ns \in NS /\ r \notin mgr.terminated
      /\ \A p \in Producers : prod[r][p].at = "end"
  BY <1>1 DEF Collect, RankInv, MessageOK, Within, Asked
<1>3. mgr' = mgr /\ failures' = failures
  BY DEF Collect
<1>4. failures' >= failures /\ ~(failures' > failures)
  BY <1>1, <1>3 DEF RManTypeOK
<1>5. /\ req' \in [Ranks -> Requests \cup {Nothing}] /\ resp' \in [Ranks -> Answers \cup {Nothing}]
      /\ \A s \in Ranks : s # r => req'[s] = req[s] /\ resp'[s] = resp[s]
      /\ req'[r].type = "none" /\ resp'[r].type = "COMPLETE" /\ resp'[r].ns = rank[r].ns
      /\ resp'[r].report = rank[r].report /\ resp'[r].fatal = AnyFatal(r) /\ resp'[r].info = ~AnyFatal(r)
  <2>1. Respond(r, AnyFatal(r), ~AnyFatal(r)) /\ Answered(r)
    BY DEF Collect
  <2>2. AnyFatal(r) \in BOOLEAN
    BY <1>1 DEF AnyFatal, MainThreads
  <2> QED BY <1>1, <1>2, <2>1, <2>2, AnswerFacts
<1>6. ~Dismissed(r)'
  BY <1>2, <1>3, <1>5 DEF Dismissed
<1>7. CASE AnyFatal(r)
  <2>1. rin' = rin /\ prod' = prod /\ rank' = [rank EXCEPT ![r] = [rank[r] EXCEPT !.at = "exit"]]
    BY <1>7 DEF Collect, Leave
  <2> DEFINE m == [rank[r] EXCEPT !.at = "exit"]
  <2>3. /\ m \in MainThreads /\ m.at = "exit" /\ m.ns = rank[r].ns /\ m.rlog = rank[r].rlog
        /\ m.report = rank[r].report /\ m.consfatal = rank[r].consfatal
    BY <1>1 DEF MainThreads
  <2>4. rank' = [rank EXCEPT ![r] = m]
    BY <2>1
  <2> HIDE DEF m
  <2>5. rank' \in [Ranks -> MainThreads] /\ rank'[r] = m /\ \A s \in Ranks : s # r => rank'[s] = rank[s]
    BY <1>1, <2>3, <2>4, OneRank
  <2>6. RManTypeOK' /\ Others(r)
    BY <1>1, <1>3, <1>5, <2>1, <2>5 DEF RManTypeOK, Others
  <2>7. MessageOK(r)'
    BY <1>1, <1>2, <1>3, <1>5, <1>7, <2>3, <2>5 DEF RankInv, MessageOK, Asked, Answered_
  <2>8. Within(r)'
    BY <1>1, <1>2, <1>3, <1>5, <1>7, <2>3, <2>5 DEF RankInv, Within, Asked, Answered_, Accepted
  <2>9. Unset(r)' /\ EmptyUnlessScanning(r)' /\ Bounded(r)'
    BY <1>1, <1>2, <1>3, <2>1, <2>3, <2>5 DEF RankInv, Unset, EmptyUnlessScanning, Bounded
  <2>10. AnyFatal(r)' /\ failures' > 0
    BY <1>1, <1>3, <1>7, <2>1, <2>3, <2>5 DEF RankInv, AnyFatal
  <2>11. ~(failures' = 0)
    BY <1>1, <1>3, <2>10 DEF RManTypeOK
  <2>12. RankInv(r)'
    BY <2>7, <2>8, <2>9, <2>10, <2>11 DEF RankInv
  <2>14. Underway(r)'
    BY <1>2, <2>3, <2>5, <2>10 DEF Underway
  <2>15. PlacesKept(r)
    <3>1. \A ns, i : /\ ~InRequest(r, ns, i)' /\ ~InRequest(r, ns, i)
                     /\ ~InAnswer(r, ns, i)' /\ ~InAnswer(r, ns, i)
      BY <1>2, <1>5, <1>7 DEF InRequest, InAnswer
    <3>2. \A ns, i : /\ InRequest(r, ns, i)' = InRequest(r, ns, i) /\ InAnswer(r, ns, i)' = InAnswer(r, ns, i)
                     /\ InAnswer(r, ns, i) => resp'[r].report = resp[r].report
      BY <3>1 DEF InRequest, InAnswer, Answered_
    <3> QED BY <2>1, <2>3, <2>5, <3>2, SamePlaces
  <2> QED BY <1>3, <1>4, <1>6, <2>6, <2>12, <2>14, <2>15, RankStep
<1>8. CASE ~AnyFatal(r)
  <2> DEFINE none == [p \in Producers |-> NoProducer]
  <2>1. rin' = [rin EXCEPT ![r] = NewInput] /\ prod' = [prod EXCEPT ![r] = none]
        /\ rank' = [rank EXCEPT ![r] = NewRank]
    BY <1>8 DEF Collect
  <2>2. /\ rank' \in [Ranks -> MainThreads] /\ rank'[r] = NewRank /\ \A s \in Ranks : s # r => rank'[s] = rank[s]
        /\ rin' \in [Ranks -> Inputs] /\ rin'[r] = NewInput /\ \A s \in Ranks : s # r => rin'[s] = rin[s]
    BY <1>1, <2>1, NewThreads, OneRank, OneInput
  <2>3. /\ prod' \in [Ranks -> [Producers -> ProducerThreads]] /\ prod'[r] = none
        /\ \A s \in Ranks : s # r => prod'[s] = prod[s]
    BY <1>1, <2>1, NewThreads DEF RManTypeOK
  <2>4. \A p \in Producers : prod'[r][p] = NoProducer
    BY <2>3
  <2>6. RManTypeOK' /\ Others(r)
    BY <1>1, <1>3, <1>5, <2>2, <2>3 DEF RManTypeOK, Others
  <2>7. MessageOK(r)'
    BY <1>1, <1>2, <1>3, <1>5, <1>8, <2>2, NewThreads DEF RankInv, MessageOK, Asked, Answered_
  <2>8. Within(r)'
    BY <1>1, <1>2, <1>3, <1>5, <1>8, <2>2, NewThreads DEF RankInv, Within, Asked, Answered_, Accepted
  <2>9. Unset(r)' /\ EmptyUnlessScanning(r)' /\ Bounded(r)'
    BY <2>2, <2>3, <2>4, NewThreads DEF Unset, EmptyUnlessScanning, Bounded, Empty
  <2>10. ~Refused(r)' /\ ~AnyFatal(r)' /\ ~Underway(r)
    BY <1>2, <1>5, <1>8, <2>2, <2>4, NewThreads DEF Refused, AnyFatal, Underway
  <2>11. Handshake(r)'
    BY <2>2, NewThreads DEF Handshake
  <2>12. RankInv(r)'
    BY <2>7, <2>8, <2>9, <2>10, <2>11 DEF RankInv
  <2>15. PlacesKept(r)
    <3> SUFFICES ASSUME NEW ns \in NS, NEW i \in Refs
                 PROVE  OnceIn(r, ns, i)' /\ Has(r, ns, i)' = Has(r, ns, i)
      BY DEF PlacesKept
    <3>1. OnceIn(r, ns, i)
      BY DEF RManInv, PlaceInv
    <3>2. ~InRequest(r, ns, i)' /\ ~InRange(r, ns, i)' /\ ~InReport(r, ns, i)'
          /\ \A p \in Producers : ~InHand(r, p, ns, i)'
      <4>1. Zero[i] = 0
        BY DEF Zero
      <4>2. NewInput \in Inputs /\ i \in Nat
        BY NewThreads, RefsFacts
      <4>3. ~InRange(r, ns, i)'
        BY <2>2, <4>2, NewThreads, InputType DEF InRange
      <4> QED BY <1>5, <2>2, <2>4, <4>1, <4>3, NewThreads DEF InRequest, InReport, InHand
    <3>3. ~InRequest(r, ns, i) /\ ~InRange(r, ns, i) /\ ~InAnswer(r, ns, i)
          /\ \A p \in Producers : ~InHand(r, p, ns, i)
      <4>1. ~InRange(r, ns, i)
        BY <1>1, <1>2, RefsFacts, InputType DEF InRange, RankInv, EmptyUnlessScanning, Empty
      <4> QED BY <1>2, <4>1 DEF InRequest, InAnswer, InHand
    <3>4. InAnswer(r, ns, i)' = InReport(r, ns, i)
      BY <1>5, <1>8 DEF InAnswer, InReport, Answered_
    <3> QED BY <1>5, <3>1, <3>2, <3>3, <3>4 DEF Has, OnceIn, Exists
  <2> QED BY <1>3, <1>4, <1>6, <2>6, <2>10, <2>12, <2>15, RankStep
<1> QED BY <1>7, <1>8

LEMMA LeaveWorkSafe ==
  ASSUME RManInv, NEW r \in Ranks, LeaveWork(r)
  PROVE  RManInv'
<1>1. RManTypeOK /\ RankInv(r) /\ rank[r] \in MainThreads
  BY DEF RManInv, RManTypeOK
<1>2. /\ rank[r].at = "recv" /\ req[r].type \in {"TERMINATE", "ABORT"} /\ Asked(r) /\ ~Answered_(r)
      /\ r \notin mgr.terminated /\ (req[r].type = "TERMINATE" => ~rank[r].rlog)
      /\ (req[r].type = "ABORT" => mgr.fatal)
  BY <1>1 DEF LeaveWork, Requested, RankInv, MessageOK, Within, Asked
<1>3. UNCHANGED <<mgr, rin, prod, failures>>
  BY DEF LeaveWork
<1>4. failures' >= failures /\ ~(failures' > failures)
  BY <1>1, <1>3 DEF RManTypeOK
<1>5. /\ req' \in [Ranks -> Requests \cup {Nothing}] /\ resp' \in [Ranks -> Answers \cup {Nothing}]
      /\ \A s \in Ranks : s # r => req'[s] = req[s] /\ resp'[s] = resp[s]
      /\ req'[r].type = "none" /\ resp'[r].type = req[r].type /\ ~resp'[r].fatal /\ ~resp'[r].info
  <2>1. Respond(r, FALSE, FALSE) /\ Answered(r)
    BY DEF LeaveWork
  <2> QED BY <1>1, <1>2, <2>1, AnswerFacts
<1> DEFINE m == [rank[r] EXCEPT !.at = "exit"]
<1>6. rank' = [rank EXCEPT ![r] = m]
  BY DEF LeaveWork, Leave
<1>7. /\ m \in MainThreads /\ m.at = "exit" /\ m.ns = rank[r].ns /\ m.rlog = rank[r].rlog
      /\ m.report = rank[r].report /\ m.consfatal = rank[r].consfatal
  BY <1>1 DEF MainThreads
<1> HIDE DEF m
<1>8. rank' \in [Ranks -> MainThreads] /\ rank'[r] = m /\ \A s \in Ranks : s # r => rank'[s] = rank[s]
  BY <1>1, <1>6, <1>7, OneRank
<1>9. RManTypeOK' /\ Others(r)
  BY <1>1, <1>3, <1>5, <1>8 DEF RManTypeOK, Others
<1>10. MessageOK(r)'
  BY <1>1, <1>2, <1>3, <1>5, <1>7, <1>8 DEF RankInv, MessageOK, Asked, Answered_
<1>11. Within(r)'
  BY <1>1, <1>2, <1>3, <1>5, <1>7, <1>8 DEF RankInv, Within, Asked, Answered_, Accepted
<1>12. Unset(r)' /\ EmptyUnlessScanning(r)' /\ Bounded(r)'
  BY <1>1, <1>2, <1>3, <1>7, <1>8 DEF RankInv, Unset, EmptyUnlessScanning, Bounded
<1>13. ~Refused(r)' /\ AnyFatal(r)' = AnyFatal(r) /\ ~Refused(r)
  BY <1>2, <1>3, <1>5, <1>7, <1>8 DEF Refused, AnyFatal
<1>14. ASSUME failures' = 0 PROVE Handshake(r)'
  <2>1. ~mgr.fatal
    BY <1>3, <1>14 DEF RManInv, MgrInv
  <2>2. ~rank[r].rlog
    BY <1>2, <2>1
  <2> QED BY <1>7, <1>8, <2>2 DEF Handshake
<1>15. RankInv(r)'
  BY <1>1, <1>3, <1>10, <1>11, <1>12, <1>13, <1>14 DEF RankInv
<1>16. Dismissed(r)' => Dismissed(r)
  BY <1>2, <1>3, <1>5 DEF Dismissed
<1>17. Underway(r) => Underway(r)'
  BY <1>7, <1>8, <1>13 DEF Underway
<1>18. PlacesKept(r)
  <2>1. \A ns, i : /\ ~InRequest(r, ns, i)' /\ ~InRequest(r, ns, i)
                   /\ ~InAnswer(r, ns, i)' /\ ~InAnswer(r, ns, i)
    BY <1>2, <1>5 DEF InRequest, InAnswer
  <2>2. \A ns, i : /\ InRequest(r, ns, i)' = InRequest(r, ns, i) /\ InAnswer(r, ns, i)' = InAnswer(r, ns, i)
                   /\ InAnswer(r, ns, i) => resp'[r].report = resp[r].report
    BY <2>1 DEF InRequest, InAnswer, Answered_
  <2> QED BY <1>3, <1>7, <1>8, <2>2, SamePlaces
<1> QED BY <1>3, <1>4, <1>9, <1>15, <1>16, <1>17, <1>18, RankStep

\* NS_WORK: the rank is set up when it is not, and has the range it is asked to scan.
LEMMA NSWorkSafe ==
  ASSUME RManInv, NEW r \in Ranks, NSWork(r)
  PROVE  RManInv'
<1> DEFINE first == ~rank[r].rlog
           ns    == req[r].ns
           d     == req[r].refdist
           i     == IF first THEN NewInput ELSE rin[r]
           none  == RangeMin(ns, d) = RangeMax(ns, d)
           bad   == ~none /\ RefusesRange(i, ns, d)
           base  == IF first THEN [NewRank EXCEPT !.ns = ns, !.rlog = TRUE] ELSE rank[r]
           at    == IF bad THEN "exit" ELSE IF none THEN "recv" ELSE "comp"
           j     == IF none \/ bad THEN i ELSE SetRange(i, ns, d)
           m     == [base EXCEPT !.at = at]
           team  == [p \in Producers |-> NewProducer]
<1>1. RManTypeOK /\ RankInv(r) /\ rin[r] \in Inputs /\ rank[r] \in MainThreads /\ mgr \in Managers
      /\ prod[r] \in [Producers -> ProducerThreads]
  BY DEF RManInv, RManTypeOK
<1>2. /\ rank[r].at = "recv" /\ req[r].type = "NS" /\ Asked(r) /\ ~Answered_(r) /\ r \notin mgr.terminated
      /\ ns \in NS /\ req[r] \in Requests
      /\ d < mgr.distributed[ns] /\ (rank[r].rlog => rank[r].ns = ns) /\ Empty(rin[r])
  BY <1>1, Messages DEF NSWork, Requested, RankInv, MessageOK, Within, Asked, EmptyUnlessScanning
<1>3. d \in Nat /\ d < workingranks
  <2>1. d \in Nat /\ mgr.distributed[ns] \in Nat /\ mgr.distributed[ns] <= workingranks
    BY <1>1, <1>2 DEF Requests, Managers, RManInv, MgrInv
  <2> QED BY <1>2, <2>1, WorkingRanks
<1>4. /\ RefNodes[ns] \in Nat /\ RangeMin(ns, d) \in Nat /\ RangeMax(ns, d) \in Nat
      /\ RangeMin(ns, d) <= RangeMax(ns, d) /\ RangeMax(ns, d) <= RefNodes[ns]
  BY <1>2, <1>3, Ranges
<1>5. /\ mgr' = mgr /\ failures' = failures
      /\ rin' = [rin EXCEPT ![r] = j] /\ rank' = [rank EXCEPT ![r] = m]
      /\ prod' = IF first THEN [prod EXCEPT ![r] = team] ELSE prod
      /\ IF bad \/ none THEN Respond(r, bad, FALSE) /\ Answered(r) ELSE UNCHANGED <<req, resp>>
  BY DEF NSWork
<1>6. i \in Inputs /\ Empty(i) /\ (first => i = NewInput) /\ (~first => i = rin[r])
  BY <1>1, <1>2, NewThreads DEF Empty
<1>7. /\ m \in MainThreads /\ m.at = at /\ m.ns = ns /\ m.rlog
      /\ first => m.report = Zero /\ ~m.consfatal
      /\ ~first => m.report = rank[r].report /\ m.consfatal = rank[r].consfatal
  <2>1. ns \in Nat
    BY <1>2, RManAssumption DEF NS
  <2>2. CASE first
    <3>1. NewRank.report = Zero /\ ~NewRank.consfatal /\ NewRank \in MainThreads
      BY NewThreads
    <3>2. base = [NewRank EXCEPT !.ns = ns, !.rlog = TRUE]
      BY <2>2
    <3>3. /\ base \in MainThreads /\ base.ns = ns /\ base.rlog
          /\ base.report = Zero /\ ~base.consfatal
      BY <2>1, <3>1, <3>2 DEF MainThreads
    <3> HIDE DEF base
    <3> QED BY <2>2, <3>3 DEF MainThreads
  <2>3. CASE ~first
    <3>1. base = rank[r]
      BY <2>3
    <3> QED BY <1>1, <1>2, <2>3, <3>1 DEF MainThreads
  <2> QED BY <2>2, <2>3
<1>8. /\ j \in Inputs /\ SameCounts(j, i)
      /\ bad \/ none => j = i
      /\ ~bad /\ ~none => j.refindex = RangeMin(ns, d) /\ j.refmax = RangeMax(ns, d)
  <2>1. CASE bad \/ none
    BY <1>6, <2>1 DEF SameCounts
  <2>2. CASE ~(bad \/ none)
    BY <1>2, <1>3, <1>6, <2>2, SetRangeEffect
  <2> QED BY <2>1, <2>2
<1>9. failures = 0 => ~bad
  <2> SUFFICES ASSUME failures = 0 PROVE ~RefusesRange(i, ns, d)
    OBVIOUS
  <2>1. i.prepterm = 0
    BY <1>1, <1>2, <1>6, NewThreads DEF RankInv, Handshake
  <2> QED BY <1>4, <1>6, <2>1 DEF RefusesRange
<1>10. /\ at = "exit" <=> bad
       /\ at = "recv" <=> ~bad /\ none
       /\ at = "comp" <=> ~bad /\ ~none
       /\ at \in {"exit", "recv", "comp"}
  OBVIOUS
<1>a. bad \in BOOLEAN /\ none \in BOOLEAN /\ ~(bad /\ none)
  BY DEF RefusesRange
<1>b. ~none => RangeMin(ns, d) < RangeMax(ns, d)
  BY <1>4
<1>c. none => RangeMin(ns, d) = RangeMax(ns, d)
  OBVIOUS
<1> HIDE DEF i, j, m, base, team, none, bad, at
<1>11. /\ rin' \in [Ranks -> Inputs] /\ rin'[r] = j /\ \A s \in Ranks : s # r => rin'[s] = rin[s]
       /\ rank' \in [Ranks -> MainThreads] /\ rank'[r] = m /\ \A s \in Ranks : s # r => rank'[s] = rank[s]
  BY <1>1, <1>5, <1>7, <1>8, OneInput, OneRank
<1>12. /\ prod' \in [Ranks -> [Producers -> ProducerThreads]]
       /\ \A s \in Ranks : s # r => prod'[s] = prod[s]
       /\ first => \A p \in Producers : prod'[r][p] = NewProducer
       /\ ~first => prod'[r] = prod[r]
  <2>1. prod \in [Ranks -> [Producers -> ProducerThreads]]
    BY <1>1 DEF RManTypeOK
  <2>2. team \in [Producers -> ProducerThreads] /\ \A p \in Producers : team[p] = NewProducer
    BY NewThreads DEF team
  <2> QED BY <1>5, <2>1, <2>2
<1>13. /\ req' \in [Ranks -> Requests \cup {Nothing}] /\ resp' \in [Ranks -> Answers \cup {Nothing}]
       /\ \A s \in Ranks : s # r => req'[s] = req[s] /\ resp'[s] = resp[s]
       /\ bad \/ none => /\ req'[r].type = "none" /\ resp'[r].type = "NS" /\ resp'[r].ns = ns
                         /\ resp'[r].fatal = bad /\ ~resp'[r].info
       /\ ~bad /\ ~none => req'[r] = req[r] /\ resp'[r] = resp[r]
  <2>1. CASE bad \/ none
    <3>1. Respond(r, bad, FALSE) /\ Answered(r)
      BY <1>5, <2>1
    <3> QED BY <1>1, <1>2, <1>a, <2>1, <3>1, AnswerFacts
  <2>2. CASE ~(bad \/ none)
    <3>1. req' = req /\ resp' = resp
      BY <1>5, <2>2
    <3> QED BY <1>1, <2>2, <3>1 DEF RManTypeOK
  <2> QED BY <2>1, <2>2
<1>14. RManTypeOK' /\ Others(r)
  BY <1>1, <1>5, <1>11, <1>12, <1>13 DEF RManTypeOK, Others
<1>15. MessageOK(r)'
  BY <1>1, <1>2, <1>5, <1>7, <1>10, <1>11, <1>13 DEF RankInv, MessageOK, Asked, Answered_
<1>16. Within(r)'
  BY <1>1, <1>2, <1>5, <1>7, <1>10, <1>11, <1>13 DEF RankInv, Within, Asked, Answered_, Accepted
<1>17. Unset(r)' /\ EmptyUnlessScanning(r)'
  BY <1>6, <1>7, <1>8, <1>10, <1>11, <1>a DEF Unset, EmptyUnlessScanning
<1>18. Bounded(r)'
  <2>1. j.refmax <= RefNodes[ns]
    <3>1. CASE bad \/ none
      <4>1. CASE first
        BY <1>4, <1>6, <1>8, <3>1, <4>1, NewThreads DEF NewInput
      <4>2. CASE ~first
        BY <1>1, <1>2, <1>6, <1>8, <3>1, <4>2 DEF RankInv, Bounded
      <4> QED BY <4>1, <4>2
    <3>2. CASE ~bad /\ ~none
      BY <1>4, <1>8, <3>2
    <3> QED BY <3>1, <3>2
  <2>2. ASSUME NEW p \in Producers, prod'[r][p].at = "busy" PROVE prod'[r][p].ref < RefNodes[ns]
    BY <1>1, <1>2, <1>12, <2>2, NewThreads DEF RankInv, Bounded
  <2> QED BY <1>7, <1>11, <2>1, <2>2 DEF Bounded
<1>19. Refused(r)' = bad /\ ~Refused(r)
  BY <1>2, <1>13, <1>a DEF Refused, Answered_
<1>20. first => ~AnyFatal(r)' /\ ~AnyFatal(r)
  <2> SUFFICES ASSUME first PROVE ~AnyFatal(r)' /\ ~AnyFatal(r)
    OBVIOUS
  <2>1. ~AnyFatal(r)'
    BY <1>7, <1>11, <1>12, NewThreads DEF AnyFatal
  <2>2. Unset(r)
    BY <1>1 DEF RankInv
  <2>3. ~rank[r].consfatal /\ prod[r] = [p \in Producers |-> NoProducer]
    BY <2>2 DEF Unset
  <2>4. \A p \in Producers : prod[r][p] = NoProducer
    BY <2>3
  <2> QED BY <2>1, <2>3, <2>4, NewThreads DEF AnyFatal
<1>21. ~first => AnyFatal(r)' = AnyFatal(r)
  BY <1>7, <1>11, <1>12 DEF AnyFatal
<1>22. Refused(r)' \/ AnyFatal(r)' => failures' > 0
  <2>1. failures \in Nat
    BY <1>1 DEF RManTypeOK
  <2>2. bad => failures > 0
    BY <1>9, <2>1
  <2> QED BY <1>1, <1>5, <1>19, <1>20, <1>21, <2>2 DEF RankInv
<1>23. ASSUME failures' = 0 PROVE Handshake(r)'
  <2>1. ~bad /\ at \in {"recv", "comp"}
    BY <1>5, <1>9, <1>10, <1>23
  <2>2. /\ i.prepterm = 0 /\ i.clientcount = Cardinality(Producers)
        /\ \A p \in Producers : prod'[r][p].at \in Scanners /\ ~prod'[r][p].dec
    <3>1. CASE first
      BY <1>6, <1>12, <3>1, NewThreads DEF Scanners
    <3>2. CASE ~first
      BY <1>1, <1>2, <1>5, <1>6, <1>12, <1>23, <3>2 DEF RankInv, Handshake
    <3> QED BY <3>1, <3>2
  <2> QED BY <1>7, <1>8, <1>11, <2>1, <2>2 DEF Handshake, SameCounts
<1>24. RankInv(r)'
  BY <1>15, <1>16, <1>17, <1>18, <1>22, <1>23 DEF RankInv
<1>25. ~Dismissed(r)'
  BY <1>2, <1>5, <1>13 DEF Dismissed, Answered_
<1>26. Underway(r) => Underway(r)'
  BY <1>7, <1>11, <1>19, <1>20, <1>21 DEF Underway
<1>27. PlacesKept(r)
  <2> SUFFICES ASSUME NEW n \in NS, NEW k \in Refs
               PROVE  /\ OnceIn(r, n, k)' /\ (Has(r, n, k)' => Has(r, n, k))
                      /\ failures' = 0 /\ Has(r, n, k) => Has(r, n, k)'
    BY DEF PlacesKept
  <2>1. OnceIn(r, n, k) /\ k \in Nat
    BY RefsFacts DEF RManInv, PlaceInv
  <2>2. ~InAnswer(r, n, k) /\ ~InAnswer(r, n, k)' /\ ~InRequest(r, n, k)' /\ ~InRange(r, n, k)
    <3>1. ~InRange(r, n, k)
      BY <1>1, <1>2, <2>1, InputType DEF InRange, Empty
    <3>2. ~InRequest(r, n, k)'
      BY <1>7, <1>10, <1>11, <1>13 DEF InRequest
    <3> QED BY <1>2, <1>13, <3>1, <3>2 DEF InAnswer, Answered_
  <2>3. /\ InReport(r, n, k)' = InReport(r, n, k)
        /\ \A p \in Producers : InHand(r, p, n, k)' = InHand(r, p, n, k)
    <3>1. CASE first
      <4>1. Unset(r)
        BY <1>1 DEF RankInv
      <4>2. rank[r].report = Zero /\ prod[r] = [p \in Producers |-> NoProducer] /\ Zero[k] = 0
        BY <3>1, <4>1 DEF Unset, Zero
      <4>3. \A p \in Producers : prod[r][p] = NoProducer
        BY <4>2
      <4> QED BY <1>7, <1>11, <1>12, <3>1, <4>2, <4>3, NewThreads DEF InReport, InHand
    <3>2. CASE ~first
      BY <1>2, <1>7, <1>11, <1>12, <3>2 DEF InReport, InHand
    <3> QED BY <3>1, <3>2
  <2>4. rank'[r].report[k] = rank[r].report[k]
    <3>1. CASE first
      BY <1>1, <1>7, <1>11, <3>1 DEF RankInv, Unset
    <3>2. CASE ~first
      BY <1>7, <1>11, <3>2
    <3> QED BY <3>1, <3>2
  <2>5. CASE bad \/ none
    <3>1. ~InRange(r, n, k)'
      BY <1>6, <1>8, <1>11, <2>1, <2>5, InputType DEF InRange, Empty
    <3>2. none => ~InRequest(r, n, k)
      BY <1>2, <1>4, <1>c, <2>1 DEF InRequest
    <3>3. failures' = 0 => none
      BY <1>5, <1>9, <2>5
    <3> QED BY <2>1, <2>2, <2>3, <2>4, <3>1, <3>2, <3>3 DEF Has, OnceIn, Exists
  <2>6. CASE ~bad /\ ~none
    <3>1. InRange(r, n, k)' = InRequest(r, n, k)
      <4>1. /\ rank'[r].ns = ns /\ rin'[r].refindex = RangeMin(ns, d) /\ rin'[r].refmax = RangeMax(ns, d)
        BY <1>7, <1>8, <1>11, <2>6
      <4>2. InRange(r, n, k)' <=> ns = n /\ RangeMin(ns, d) <= k /\ k < RangeMax(ns, d)
        BY <4>1 DEF InRange
      <4>3. InRequest(r, n, k) <=> ns = n /\ RangeMin(n, d) <= k /\ k < RangeMax(n, d)
        BY <1>2 DEF InRequest
      <4> QED BY <4>2, <4>3 DEF InRange, InRequest
    <3>2. InRequest(r, n, k) => k < RefNodes[n]
      BY <1>2, <1>4, <2>1 DEF InRequest
    <3> QED BY <2>1, <2>2, <2>3, <2>4, <3>1, <3>2 DEF Has, OnceIn, Exists
  <2> QED BY <2>5, <2>6
<1>28. failures' >= failures /\ ~(failures' > failures)
  BY <1>1, <1>5 DEF RManTypeOK
<1> QED BY <1>5, <1>14, <1>24, <1>25, <1>26, <1>27, <1>28, RankStep

-----------------------------------------------------------------------------
(* Steps of the manager *)

\* What the manager does with the answer of r: it sends m, or nothing.
Handled(r, m) ==
  /\ rank' = rank /\ rin' = rin /\ prod' = prod /\ failures' = failures
  /\ resp' = [resp EXCEPT ![r] = Nothing] /\ req' = [req EXCEPT ![r] = m]
  /\ mgr' \in Managers /\ mgr'.done = mgr.done /\ (mgr.fatal => mgr'.fatal)
  /\ mgr'.terminated = mgr.terminated \/ mgr'.terminated = mgr.terminated \cup {r}
  /\ \A ns \in NS : mgr.distributed[ns] <= mgr'.distributed[ns] /\ mgr'.distributed[ns] <= workingranks
\* Directories go from what is to do to the request, and from the answer to the usage.
Moved(r) ==
  \A ns \in NS, i \in Refs :
    /\ ToDo(ns, i)' => ToDo(ns, i)
    /\ InRequest(r, ns, i)' => ToDo(ns, i) /\ ~ToDo(ns, i)'
    /\ ToDo(ns, i) => ToDo(ns, i)' \/ InRequest(r, ns, i)'
    /\ InUsage(ns, i) => InUsage(ns, i)' /\ (~InAnswer(r, ns, i) => mgr'.usage[ns][i] = mgr.usage[ns][i])
    /\ InUsage(ns, i)' => InUsage(ns, i) \/ (InAnswer(r, ns, i) /\ mgr'.usage[ns][i] = 1)
    /\ failures = 0 /\ InAnswer(r, ns, i) => InUsage(ns, i)'

LEMMA HandledMessages ==
  ASSUME RManInv, NEW r \in Ranks, NEW m \in Requests \cup {Nothing}, Handled(r, m)
  PROVE  /\ RManTypeOK' /\ req'[r] = m /\ resp'[r] = Nothing /\ resp'[r].type = "none"
         /\ \A s \in Ranks : s # r =>
              /\ req'[s] = req[s] /\ resp'[s] = resp[s]
              /\ s \in mgr'.terminated <=> s \in mgr.terminated
BY DEF RManInv, RManTypeOK, Handled, Nothing

LEMMA OtherRankWaits ==
  ASSUME RManInv, NEW r \in Ranks, NEW m \in Requests \cup {Nothing}, Handled(r, m),
         NEW s \in Ranks, s # r
  PROVE  /\ RankInv(s)' /\ Dismissed(s)' = Dismissed(s) /\ Underway(s)' = Underway(s)
         /\ \A ns, i : Has(s, ns, i)' = Has(s, ns, i) /\ OnceIn(s, ns, i)' = OnceIn(s, ns, i)
<1>1. /\ req'[s] = req[s] /\ resp'[s] = resp[s] /\ rank' = rank /\ rin' = rin /\ prod' = prod
      /\ failures' = failures /\ (s \in mgr'.terminated <=> s \in mgr.terminated)
      /\ (mgr.fatal => mgr'.fatal)
  BY HandledMessages DEF Handled
<1>2. MessageOK(s) /\ Within(s) /\ RankInv(s)
  BY DEF RManInv, RankInv
<1>3. MessageOK(s)'
  BY <1>1, <1>2 DEF MessageOK, Asked, Answered_
<1>4. Within(s)'
  <2>1. ASSUME req[s].type = "NS"
        PROVE  req[s].ns \in NS /\ req[s].refdist < mgr'.distributed[req[s].ns]
    <3>1. req[s].ns \in NS /\ req[s].refdist < mgr.distributed[req[s].ns]
      BY <1>2, <2>1 DEF Within
    <3>2. req[s].refdist \in Nat
      BY <2>1, Messages DEF Asked, Requests, RManInv
    <3>3. mgr \in Managers /\ mgr' \in Managers
      BY DEF RManInv, RManTypeOK, Handled
    <3>4. mgr.distributed[req[s].ns] \in Nat /\ mgr'.distributed[req[s].ns] \in Nat
      BY <3>1, <3>3 DEF Managers
    <3>5. mgr.distributed[req[s].ns] <= mgr'.distributed[req[s].ns]
      BY <3>1 DEF Handled
    <3> QED BY <3>1, <3>2, <3>4, <3>5
  <2> QED BY <1>1, <1>2, <2>1 DEF Within, Answered_, Accepted
<1>5. /\ Unset(s)' = Unset(s) /\ EmptyUnlessScanning(s)' = EmptyUnlessScanning(s) /\ Bounded(s)' = Bounded(s)
      /\ Handshake(s)' = Handshake(s)
  BY <1>1 DEF Unset, EmptyUnlessScanning, Empty, Bounded, Handshake, Said, Left
<1>6. Refused(s)' = Refused(s) /\ AnyFatal(s)' = AnyFatal(s)
  BY <1>1 DEF Refused, AnyFatal, Answered_
<1>7. RankInv(s)'
  BY <1>1, <1>2, <1>3, <1>4, <1>5, <1>6 DEF RankInv
<1>8. Dismissed(s)' = Dismissed(s) /\ Underway(s)' = Underway(s)
  BY <1>1, <1>6 DEF Dismissed, Underway
<1>9. ASSUME NEW ns, NEW i
      PROVE  Has(s, ns, i)' = Has(s, ns, i) /\ OnceIn(s, ns, i)' = OnceIn(s, ns, i)
  <2>1. /\ InRequest(s, ns, i)' = InRequest(s, ns, i) /\ InRange(s, ns, i)' = InRange(s, ns, i)
        /\ InReport(s, ns, i)' = InReport(s, ns, i) /\ InAnswer(s, ns, i)' = InAnswer(s, ns, i)
        /\ \A p : InHand(s, p, ns, i)' = InHand(s, p, ns, i)
    BY <1>1 DEF InRequest, InRange, InReport, InAnswer, InHand, Answered_
  <2> QED BY <1>1, <2>1 DEF Has, OnceIn
<1> QED BY <1>7, <1>8, <1>9

LEMMA MovedPlaces ==
  ASSUME RManInv, NEW r \in Ranks, NEW m \in Requests \cup {Nothing}, Handled(r, m), Moved(r),
         Answered_(r)
  PROVE  PlaceInv'
<1> SUFFICES ASSUME NEW ns \in NS, NEW i \in Refs
             PROVE  Once(ns, i)' /\ \A s \in Ranks : OnceIn(s, ns, i)'
  BY DEF PlaceInv
<1>1. Once(ns, i) /\ \A s \in Ranks : OnceIn(s, ns, i)
  BY DEF RManInv, PlaceInv
<1>2. \A s \in Ranks : s # r => Has(s, ns, i)' = Has(s, ns, i) /\ OnceIn(s, ns, i)' = OnceIn(s, ns, i)
  BY OtherRankWaits
<1>3. rank' = rank /\ rin' = rin /\ prod' = prod /\ failures' = failures /\ resp'[r].type = "none"
  BY HandledMessages DEF Handled
<1>4. /\ InRange(r, ns, i)' = InRange(r, ns, i) /\ InReport(r, ns, i)' = InReport(r, ns, i)
      /\ \A p \in Producers : InHand(r, p, ns, i)' = InHand(r, p, ns, i)
      /\ ~InAnswer(r, ns, i)'
  BY <1>3 DEF InRange, InReport, InHand, InAnswer, Answered_
<1>5. ~InRequest(r, ns, i)
  <2>1. ~Asked(r)
    BY DEF RManInv, RankInv, MessageOK
  <2> QED BY <2>1 DEF InRequest, Asked
<1>6. /\ ToDo(ns, i)' => ToDo(ns, i)
      /\ InRequest(r, ns, i)' => ToDo(ns, i) /\ ~ToDo(ns, i)'
      /\ ToDo(ns, i) => ToDo(ns, i)' \/ InRequest(r, ns, i)'
      /\ InUsage(ns, i) => InUsage(ns, i)' /\ (~InAnswer(r, ns, i) => mgr'.usage[ns][i] = mgr.usage[ns][i])
      /\ InUsage(ns, i)' => InUsage(ns, i) \/ (InAnswer(r, ns, i) /\ mgr'.usage[ns][i] = 1)
      /\ failures = 0 /\ InAnswer(r, ns, i) => InUsage(ns, i)'
  BY DEF Moved
<1>7. Has(r, ns, i)' => InRequest(r, ns, i)' \/ (Has(r, ns, i) /\ ~InAnswer(r, ns, i))
  BY <1>1, <1>4 DEF Has, OnceIn
<1>8. InRequest(r, ns, i)' => Has(r, ns, i)'
  BY DEF Has
<1>9. Has(r, ns, i) => Has(r, ns, i)' \/ InAnswer(r, ns, i)
  BY <1>4, <1>5 DEF Has
<1>10. InAnswer(r, ns, i) => Has(r, ns, i) /\ Exists(ns, i)
  BY <1>1 DEF Has, OnceIn
<1>11. OnceIn(r, ns, i)'
  <2>1. ASSUME InRequest(r, ns, i)'
        PROVE  /\ ~InRange(r, ns, i) /\ ~InReport(r, ns, i)
               /\ \A p \in Producers : ~InHand(r, p, ns, i)
    BY <1>1, <1>6, <2>1 DEF Once, Has
  <2> QED BY <1>1, <1>3, <1>4, <2>1 DEF OnceIn, Exists
<1>12. ASSUME NEW s \in Ranks, Has(s, ns, i)'
       PROVE  /\ ~ToDo(ns, i)' /\ ~InUsage(ns, i)'
              /\ s # r => ~Has(r, ns, i)'
  <2>1. CASE s = r
    <3>1. CASE InRequest(r, ns, i)'
      BY <1>1, <1>6, <1>10, <2>1, <3>1 DEF Once
    <3>2. CASE ~InRequest(r, ns, i)'
      BY <1>1, <1>6, <1>7, <1>12, <2>1, <3>2 DEF Once
    <3> QED BY <2>1, <3>1, <3>2
  <2>2. CASE s # r
    <3>1. Has(s, ns, i)
      BY <1>2, <1>12, <2>2
    <3> QED BY <1>1, <1>6, <1>7, <1>10, <2>2, <3>1 DEF Once
  <2> QED BY <2>1, <2>2
<1>13. \A s, t \in Ranks : Has(s, ns, i)' /\ Has(t, ns, i)' => s = t
  BY <1>1, <1>2, <1>12 DEF Once
<1>14. InUsage(ns, i)' => ~ToDo(ns, i)' /\ Exists(ns, i) /\ mgr'.usage[ns][i] = 1
  <2>1. InAnswer(r, ns, i) => ~InUsage(ns, i) /\ ~ToDo(ns, i)
    BY <1>1, <1>10 DEF Once
  <2> QED BY <1>1, <1>6, <1>10, <2>1 DEF Once
<1>15. failures' = 0 /\ Exists(ns, i) => ToDo(ns, i)' \/ InUsage(ns, i)' \/ \E s \in Ranks : Has(s, ns, i)'
  <2> SUFFICES ASSUME failures = 0, Exists(ns, i)
               PROVE  ToDo(ns, i)' \/ InUsage(ns, i)' \/ \E s \in Ranks : Has(s, ns, i)'
    BY <1>3
  <2>1. ToDo(ns, i) \/ InUsage(ns, i) \/ \E s \in Ranks : Has(s, ns, i)
    BY <1>1 DEF Once
  <2>2. CASE ToDo(ns, i)
    BY <1>6, <1>8, <2>2
  <2>3. CASE InUsage(ns, i)
    BY <1>6, <2>3
  <2>4. ASSUME NEW s \in Ranks, Has(s, ns, i)
        PROVE  InUsage(ns, i)' \/ \E t \in Ranks : Has(t, ns, i)'
    <3>1. CASE s = r
      BY <1>6, <1>9, <2>4, <3>1
    <3>2. CASE s # r
      BY <1>2, <2>4, <3>2
    <3> QED BY <3>1, <3>2
  <2> QED BY <2>1, <2>2, <2>3, <2>4
<1>16. Once(ns, i)'
  <2>1. Exists(ns, i)' = Exists(ns, i)
    BY DEF Exists
  <2> QED BY <1>12, <1>13, <1>14, <1>15, <2>1 DEF Once
<1> QED BY <1>1, <1>2, <1>11, <1>16

LEMMA ManagerStep ==
  ASSUME RManInv, NEW r \in Ranks, NEW m \in Requests \cup {Nothing}, Handled(r, m), Moved(r),
         Answered_(r), ~mgr.done, MessageOK(r)', Within(r)', Refused(r) => mgr'.fatal,
         mgr'.fatal => failures > 0,
         Dismissed(r)' => mgr'.fatal \/ Unfinished' = {}
  PROVE  RManInv'
<1>1. /\ rank' = rank /\ rin' = rin /\ prod' = prod /\ failures' = failures /\ mgr' \in Managers
      /\ RManTypeOK' /\ resp'[r].type = "none" /\ mgr'.done = mgr.done /\ (mgr.fatal => mgr'.fatal)
      /\ mgr \in Managers /\ failures \in Nat
  BY HandledMessages DEF Handled, RManInv, RManTypeOK
<1>2. RankInv(r) /\ MgrInv
  BY DEF RManInv
<1>3. /\ Unset(r)' = Unset(r) /\ EmptyUnlessScanning(r)' = EmptyUnlessScanning(r) /\ Bounded(r)' = Bounded(r)
      /\ Handshake(r)' = Handshake(r) /\ AnyFatal(r)' = AnyFatal(r) /\ ~Refused(r)'
  BY <1>1 DEF Unset, EmptyUnlessScanning, Empty, Bounded, Handshake, Said, Left, AnyFatal, Refused, Answered_
<1>4. RankInv(r)'
  BY <1>1, <1>2, <1>3 DEF RankInv
<1>5. \A s \in Ranks : RankInv(s)'
  BY <1>4, OtherRankWaits
<1>6. MgrInv'
  <2>1. Unfinished = {} => Unfinished' = {}
    <3> SUFFICES ASSUME Unfinished = {}, NEW ns \in NS PROVE ~(mgr'.distributed[ns] < workingranks)
      BY DEF Unfinished
    <3>1. /\ mgr.distributed[ns] \in Nat /\ mgr'.distributed[ns] \in Nat
          /\ mgr.distributed[ns] <= mgr'.distributed[ns]
      BY <1>1 DEF Managers, Handled
    <3>2. ~(mgr.distributed[ns] < workingranks)
      BY DEF Unfinished
    <3> QED BY <3>1, <3>2, WorkingRanks
  <2>2. \A s \in Ranks : Dismissed(s)' => mgr'.fatal \/ Unfinished' = {}
    <3> TAKE s \in Ranks
    <3>1. CASE s = r
      BY <3>1
    <3>2. CASE s # r
      BY <1>1, <1>2, <2>1, <3>2, OtherRankWaits DEF MgrInv
    <3> QED BY <3>1, <3>2
  <2>3. failures > 0 => mgr'.fatal \/ \E s \in Ranks : Underway(s)'
    <3> SUFFICES ASSUME failures > 0, ~mgr'.fatal PROVE \E s \in Ranks : Underway(s)'
      OBVIOUS
    <3>1. PICK s \in Ranks : Underway(s)
      BY <1>1, <1>2 DEF MgrInv
    <3>2. CASE s = r
      BY <1>1, <1>3, <3>1, <3>2 DEF Underway
    <3>3. CASE s # r
      BY <3>1, <3>3, OtherRankWaits
    <3> QED BY <3>2, <3>3
  <2>4. \A ns \in NS : mgr'.distributed[ns] <= workingranks
    BY DEF Handled
  <2> QED BY <1>1, <2>2, <2>3, <2>4 DEF MgrInv
<1>7. PlaceInv'
  BY MovedPlaces
<1> QED BY <1>1, <1>5, <1>6, <1>7 DEF RManInv

\* Nothing moves when no range is handed out and no report is added.
LEMMA NothingMoves ==
  ASSUME RManInv, NEW r \in Ranks, mgr'.distributed = mgr.distributed, mgr'.usage = mgr.usage,
         req'[r].type # "NS", failures = 0 => \A ns, i : ~InAnswer(r, ns, i)
  PROVE  Moved(r)
BY DEF Moved, ToDo, InRequest, InUsage, RangeMin

\* The next range of a namespace that is not finished
LEMMA RangeMoves ==
  ASSUME RManInv, NEW n \in Unfinished, NEW r \in Ranks, NEW u \in [NS -> Counts],
         req'[r] = Work(n), rank'[r].at = "recv",
         mgr' = [mgr EXCEPT !.usage = u, !.distributed[n] = mgr.distributed[n] + 1]
  PROVE  /\ mgr' \in Managers /\ mgr'.fatal = mgr.fatal /\ mgr'.terminated = mgr.terminated
         /\ mgr'.done = mgr.done /\ mgr'.usage = u
         /\ Work(n) \in Requests /\ n \in NS /\ Work(n).refdist < mgr'.distributed[n]
         /\ \A ns \in NS : mgr.distributed[ns] <= mgr'.distributed[ns] /\ mgr'.distributed[ns] <= workingranks
         /\ \A ns \in NS, i \in Refs :
              /\ ToDo(ns, i)' => ToDo(ns, i)
              /\ InRequest(r, ns, i)' => ToDo(ns, i) /\ ~ToDo(ns, i)'
              /\ ToDo(ns, i) => ToDo(ns, i)' \/ InRequest(r, ns, i)'
<1> DEFINE d == mgr.distributed[n]
<1>1. /\ mgr \in Managers /\ n \in NS /\ d \in Nat /\ d < workingranks /\ n \in Nat
      /\ \A ns \in NS : mgr.distributed[ns] \in Nat /\ mgr.distributed[ns] <= workingranks
  BY RManAssumption DEF RManInv, RManTypeOK, MgrInv, Managers, Unfinished, NS
<1>2. /\ mgr' \in Managers /\ mgr'.fatal = mgr.fatal /\ mgr'.terminated = mgr.terminated
      /\ mgr'.done = mgr.done /\ mgr'.usage = u
      /\ mgr'.distributed[n] = d + 1
      /\ \A ns \in NS : ns # n => mgr'.distributed[ns] = mgr.distributed[ns]
  <2> DEFINE h == [mgr.distributed EXCEPT ![n] = d + 1]
  <2>1. mgr.distributed \in [NS -> Nat] /\ d + 1 \in Nat
    BY <1>1 DEF Managers
  <2>2. h \in [NS -> Nat] /\ h[n] = d + 1 /\ \A ns \in NS : ns # n => h[ns] = mgr.distributed[ns]
    BY <1>1, <2>1
  <2>3. mgr' = [mgr EXCEPT !.usage = u, !.distributed = h]
    BY <1>1 DEF Managers
  <2> HIDE DEF h
  <2>4. mgr' \in Managers /\ mgr'.distributed = h
    BY <1>1, <2>2, <2>3 DEF Managers
  <2>5. mgr'.fatal = mgr.fatal /\ mgr'.terminated = mgr.terminated /\ mgr'.done = mgr.done /\ mgr'.usage = u
    BY <1>1, <2>3 DEF Managers
  <2> QED BY <2>2, <2>4, <2>5
<1>3. Work(n) \in Requests /\ Work(n).type = "NS" /\ Work(n).ns = n /\ Work(n).refdist = d
  BY <1>1 DEF Work, Requests, Types
<1> HIDE DEF d
<1>4. \A ns \in NS : mgr.distributed[ns] <= mgr'.distributed[ns] /\ mgr'.distributed[ns] <= workingranks
  <2> TAKE ns \in NS
  <2>1. CASE ns = n
    <3>1. d <= d + 1 /\ d + 1 <= workingranks
      BY <1>1, WorkingRanks
    <3> QED BY <1>2, <2>1, <3>1 DEF d
  <2>2. CASE ns # n
    BY <1>1, <1>2, <2>2
  <2> QED BY <2>1, <2>2
<1>5. d < d + 1
  BY <1>1
<1>6. ASSUME NEW ns \in NS, NEW i \in Refs
      PROVE  /\ ToDo(ns, i)' => ToDo(ns, i)
             /\ InRequest(r, ns, i)' => ToDo(ns, i) /\ ~ToDo(ns, i)'
             /\ ToDo(ns, i) => ToDo(ns, i)' \/ InRequest(r, ns, i)'
  <2>1. ToDo(ns, i)' <=> i >= RangeMin(ns, mgr'.distributed[ns])
    BY DEF ToDo, RangeMin
  <2>2. InRequest(r, ns, i)' <=> ns = n /\ RangeMin(ns, d) <= i /\ i < RangeMax(ns, d)
    BY <1>3 DEF InRequest, RangeMin, RangeMax
  <2>3. CASE ns = n
    <3>1. /\ RangeMin(n, d) \in Nat /\ RangeMax(n, d) \in Nat /\ RangeMin(n, d) <= RangeMax(n, d)
          /\ RangeMax(n, d) = RangeMin(n, d + 1)
      BY <1>1, Ranges
    <3>2. ToDo(ns, i) <=> i >= RangeMin(n, d)
      BY <2>3 DEF ToDo, d
    <3>3. ToDo(ns, i)' <=> i >= RangeMax(n, d)
      BY <1>2, <2>1, <2>3, <3>1
    <3>4. i \in Nat
      BY RefsFacts
    <3> QED BY <2>2, <2>3, <3>1, <3>2, <3>3, <3>4
  <2>4. CASE ns # n
    BY <1>2, <2>1, <2>2, <2>4 DEF ToDo
  <2> QED BY <2>3, <2>4
<1> QED BY <1>1, <1>2, <1>3, <1>4, <1>5, <1>6

\* The usage after the report of r is added
Added(r) ==
  IF ~resp[r].info THEN mgr.usage
  ELSE [mgr.usage EXCEPT ![resp[r].ns] = [i \in Refs |-> mgr.usage[resp[r].ns][i] + resp[r].report[i]]]

LEMMA AddedUsage ==
  ASSUME RManInv, NEW r \in Ranks, Answered_(r), mgr'.usage = Added(r)
  PROVE  /\ Added(r) \in [NS -> Counts]
         /\ \A ns \in NS, i \in Refs :
              /\ InUsage(ns, i) => InUsage(ns, i)' /\ (~InAnswer(r, ns, i) => mgr'.usage[ns][i] = mgr.usage[ns][i])
              /\ InUsage(ns, i)' => InUsage(ns, i) \/ (InAnswer(r, ns, i) /\ mgr'.usage[ns][i] = 1)
              /\ InAnswer(r, ns, i) => InUsage(ns, i)'
<1> DEFINE n == resp[r].ns
<1>1. mgr.usage \in [NS -> Counts] /\ resp[r] \in Answers
  BY Messages DEF RManInv, RManTypeOK, Managers
<1>2. CASE ~resp[r].info
  BY <1>1, <1>2 DEF Added, InUsage, InAnswer
<1>3. CASE resp[r].info
  <2> DEFINE c == [i \in Refs |-> mgr.usage[n][i] + resp[r].report[i]]
  <2>1. n \in NS
    BY <1>3 DEF RManInv, RankInv, Within
  <2>2. \A i \in Refs : mgr.usage[n][i] \in Nat /\ resp[r].report[i] \in Nat
    BY <1>1, <2>1 DEF Counts, Answers
  <2>3. c \in Counts /\ \A i \in Refs : c[i] = mgr.usage[n][i] + resp[r].report[i]
    BY <2>2 DEF Counts
  <2>4. Added(r) = [mgr.usage EXCEPT ![n] = c]
    BY <1>3 DEF Added
  <2> HIDE DEF c
  <2>5. /\ Added(r) \in [NS -> Counts] /\ Added(r)[n] = c
        /\ \A ns \in NS : ns # n => Added(r)[ns] = mgr.usage[ns]
    BY <1>1, <2>1, <2>3, <2>4
  <2>6. ASSUME NEW ns \in NS, NEW i \in Refs
        PROVE  /\ InUsage(ns, i) => InUsage(ns, i)' /\ (~InAnswer(r, ns, i) => mgr'.usage[ns][i] = mgr.usage[ns][i])
               /\ InUsage(ns, i)' => InUsage(ns, i) \/ (InAnswer(r, ns, i) /\ mgr'.usage[ns][i] = 1)
               /\ InAnswer(r, ns, i) => InUsage(ns, i)'
    <3>1. InUsage(ns, i) <=> mgr.usage[ns][i] # 0
      BY DEF InUsage
    <3>2. InUsage(ns, i)' <=> Added(r)[ns][i] # 0
      BY DEF InUsage
    <3>3. InAnswer(r, ns, i) <=> n = ns /\ resp[r].report[i] # 0
      BY <1>3 DEF InAnswer
    <3>4. CASE ns # n
      BY <2>5, <3>1, <3>2, <3>3, <3>4
    <3>5. CASE ns = n
      <4>1. Added(r)[ns][i] = mgr.usage[ns][i] + resp[r].report[i]
        BY <2>3, <2>5, <3>5
      <4>2. mgr.usage[ns][i] \in Nat /\ resp[r].report[i] \in Nat
        BY <2>2, <3>5
      <4>3. InAnswer(r, ns, i) => resp[r].report[i] = 1 /\ mgr.usage[ns][i] = 0
        <5>1. OnceIn(r, ns, i) /\ Once(ns, i)
          BY DEF RManInv, PlaceInv
        <5> QED BY <3>1, <5>1 DEF OnceIn, Once, Has
      <4> QED BY <3>1, <3>2, <3>3, <3>5, <4>1, <4>2, <4>3
    <3> QED BY <3>4, <3>5
  <2> QED BY <2>5, <2>6
<1> QED BY <1>2, <1>3

LEMMA HandleResponseSafe ==
  ASSUME RManInv, NEW r \in Ranks, HandleResponse(r)
  PROVE  RManInv'
<1>1. /\ Answered_(r) /\ ~mgr.done /\ resp' = [resp EXCEPT ![r] = Nothing]
      /\ rank' = rank /\ rin' = rin /\ prod' = prod /\ failures' = failures
  BY DEF HandleResponse, Answered_
<1>2. RManTypeOK /\ RankInv(r) /\ MgrInv /\ MessageOK(r) /\ Within(r) /\ resp[r] \in Answers /\ mgr \in Managers
      /\ failures \in Nat
  BY <1>1, Messages DEF RManInv, RManTypeOK, RankInv
<1>3. /\ ~Asked(r) /\ req[r] = Nothing /\ r \notin mgr.terminated /\ rank[r].at \in {"recv", "exit"}
      /\ rank[r].at = "exit" <=> resp[r].fatal \/ resp[r].type \in {"TERMINATE", "ABORT"}
  BY <1>1, <1>2, Messages DEF MessageOK
<1>4. \A ns \in NS : mgr.distributed[ns] \in Nat /\ mgr.distributed[ns] <= workingranks
  BY <1>2 DEF Managers, MgrInv
<1>5. req \in [Ranks -> Requests \cup {Nothing}] /\ req = [req EXCEPT ![r] = Nothing]
  BY <1>2, <1>3 DEF RManTypeOK
<1>6. resp[r].info => resp[r].type = "COMPLETE" /\ ~resp[r].fatal
  BY <1>1, <1>2 DEF Within, Accepted
<1>7. resp[r].type \in Types /\ Nothing \in Requests \cup {Nothing} /\ Nothing.type = "none"
  BY <1>2 DEF Answers, Nothing
<1>8. CASE resp[r].fatal
  <2>1. mgr' = [Gone(r) EXCEPT !.fatal = TRUE] /\ req' = req
    BY <1>8 DEF HandleResponse
  <2>2. /\ mgr' \in Managers /\ mgr'.fatal /\ mgr'.terminated = mgr.terminated \cup {r} /\ mgr'.done = mgr.done
        /\ mgr'.distributed = mgr.distributed /\ mgr'.usage = mgr.usage
    BY <1>2, <2>1 DEF Gone, Managers
  <2>3. Handled(r, Nothing)
    BY <1>1, <1>4, <1>5, <2>1, <2>2 DEF Handled
  <2>4. req'[r].type = "none" /\ resp'[r].type = "none"
    BY <1>7, <2>3, HandledMessages
  <2>5. Moved(r)
    BY <1>6, <1>8, <2>2, <2>4, NothingMoves DEF InAnswer
  <2>6. MessageOK(r)'
    BY <1>1, <1>3, <1>8, <2>2, <2>4 DEF MessageOK, Asked, Answered_
  <2>7. Within(r)'
    BY <1>1, <1>2, <1>3, <1>8, <2>2, <2>4 DEF Within, Answered_, Accepted
  <2>8. failures > 0
    BY <1>1, <1>2, <1>8 DEF RankInv, Refused
  <2> QED BY <1>1, <1>7, <2>2, <2>3, <2>5, <2>6, <2>7, <2>8, ManagerStep
<1>9. CASE ~resp[r].fatal /\ mgr.fatal /\ resp[r].type # "ABORT"
  <2> DEFINE m == Order("ABORT", 0)
  <2>1. mgr' = mgr /\ req' = [req EXCEPT ![r] = m]
    BY <1>9 DEF HandleResponse, Send
  <2>2. m \in Requests /\ m.type = "ABORT"
    BY DEF Order, Requests, Types
  <2> HIDE DEF m
  <2>3. Handled(r, m)
    BY <1>1, <1>2, <1>4, <2>1 DEF Handled
  <2>4. req'[r].type = "ABORT" /\ resp'[r].type = "none"
    BY <2>2, <2>3, HandledMessages
  <2>8. failures > 0
    BY <1>2, <1>9 DEF MgrInv
  <2>5. Moved(r)
    BY <2>1, <2>4, <2>8, NothingMoves
  <2>6. MessageOK(r)'
    BY <1>1, <1>3, <1>9, <2>1, <2>4 DEF MessageOK, Asked, Answered_
  <2>7. Within(r)'
    BY <1>1, <1>2, <1>3, <2>1, <2>4 DEF Within, Answered_, Accepted
  <2> QED BY <1>1, <1>9, <2>1, <2>2, <2>3, <2>5, <2>6, <2>7, <2>8, ManagerStep
<1>10. CASE ~resp[r].fatal /\ ~(mgr.fatal /\ resp[r].type # "ABORT") /\ resp[r].type \in {"TERMINATE", "ABORT"}
  <2>1. mgr' = Gone(r) /\ req' = req
    BY <1>10 DEF HandleResponse
  <2>2. /\ mgr' \in Managers /\ mgr'.fatal = mgr.fatal /\ mgr'.terminated = mgr.terminated \cup {r}
        /\ mgr'.done = mgr.done /\ mgr'.distributed = mgr.distributed /\ mgr'.usage = mgr.usage
    BY <1>2, <2>1 DEF Gone, Managers
  <2>3. Handled(r, Nothing)
    BY <1>1, <1>4, <1>5, <2>1, <2>2 DEF Handled
  <2>4. req'[r].type = "none" /\ resp'[r].type = "none"
    BY <1>7, <2>3, HandledMessages
  <2>5. Moved(r)
    BY <1>6, <1>10, <2>2, <2>4, NothingMoves DEF InAnswer
  <2>6. MessageOK(r)'
    BY <1>1, <1>3, <1>10, <2>2, <2>4 DEF MessageOK, Asked, Answered_
  <2>7. Within(r)'
    <3>1. mgr.fatal \/ ~rank[r].rlog
      BY <1>2, <1>10 DEF MessageOK, Within
    <3> QED BY <1>1, <1>2, <2>2, <2>4, <3>1 DEF Within, Answered_, Accepted
  <2>8. mgr.fatal \/ Unfinished = {}
    BY <1>2, <1>10 DEF MessageOK, MgrInv, Dismissed
  <2>9. Unfinished' = Unfinished
    BY <2>2 DEF Unfinished
  <2>10. ~Refused(r) /\ (mgr'.fatal => failures > 0)
    BY <1>2, <1>10, <2>2 DEF Refused, MgrInv
  <2> QED BY <1>1, <1>7, <2>2, <2>3, <2>5, <2>6, <2>7, <2>8, <2>9, <2>10, ManagerStep
<1>11. CASE ~resp[r].fatal /\ ~mgr.fatal /\ resp[r].type = "COMPLETE"
  <2> DEFINE u == IF ~resp[r].info THEN mgr
                  ELSE [mgr EXCEPT !.usage[resp[r].ns] = [i \in Refs |-> @[i] + resp[r].report[i]]]
             n == Least(IF Untouched # {} THEN Untouched ELSE Unfinished)
  <2>1. AfterComplete(r)
    BY <1>11 DEF HandleResponse
  <2>2. rank[r].at = "recv" /\ ~rank[r].rlog /\ ~Refused(r)
    BY <1>2, <1>3, <1>11 DEF Within, Accepted, Refused
  <2>3. u = [mgr EXCEPT !.usage = Added(r)]
    BY <1>2 DEF Added, Managers
  <2>4. CASE Unfinished = {}
    <3> DEFINE m == Order("TERMINATE", 0)
    <3>1. mgr' = [mgr EXCEPT !.usage = Added(r)] /\ req' = [req EXCEPT ![r] = m]
      BY <2>1, <2>3, <2>4 DEF AfterComplete, Send
    <3>2. m \in Requests /\ m.type = "TERMINATE"
      BY DEF Order, Requests, Types
    <3> HIDE DEF m, u
    <3>3. mgr'.usage = Added(r)
      BY <1>2, <3>1 DEF Managers
    <3>4. Added(r) \in [NS -> Counts]
      BY <1>1, <3>3, AddedUsage
    <3>5. /\ mgr' \in Managers /\ mgr'.fatal = mgr.fatal /\ mgr'.terminated = mgr.terminated
          /\ mgr'.done = mgr.done /\ mgr'.distributed = mgr.distributed
      BY <1>2, <3>1, <3>4 DEF Managers
    <3>6. Handled(r, m)
      BY <1>1, <1>4, <3>1, <3>5 DEF Handled
    <3>7. req'[r].type = "TERMINATE" /\ resp'[r].type = "none"
      BY <3>2, <3>6, HandledMessages
    <3>8. Moved(r)
      <4>1. \A ns, i : ToDo(ns, i)' = ToDo(ns, i) /\ ~InRequest(r, ns, i)'
        BY <3>5, <3>7 DEF ToDo, InRequest, RangeMin
      <4> QED BY <1>1, <3>3, <4>1, AddedUsage DEF Moved
    <3>9. MessageOK(r)'
      BY <1>1, <1>3, <2>2, <3>5, <3>7 DEF MessageOK, Asked, Answered_
    <3>10. Within(r)'
      BY <1>1, <1>3, <2>2, <3>5, <3>7 DEF Within, Answered_, Accepted
    <3>11. Unfinished' = {}
      BY <2>4, <3>5 DEF Unfinished
    <3> QED BY <1>1, <1>11, <2>2, <3>2, <3>5, <3>6, <3>8, <3>9, <3>10, <3>11, ManagerStep
  <2>5. CASE Unfinished # {}
    <3>1. n \in Unfinished
      <4>1. Untouched \subseteq Unfinished /\ Unfinished \in SUBSET Nat
        BY WorkingRanks, RManAssumption DEF Untouched, Unfinished, NS
      <4> QED BY <2>5, <4>1, LeastIsLeast
    <3>2. mgr' = [u EXCEPT !.distributed[n] = @ + 1] /\ req' = [req EXCEPT ![r] = Work(n)]
      BY <2>1, <2>5 DEF AfterComplete, Send
    <3> HIDE DEF n, u
    <3>3. mgr' = [mgr EXCEPT !.usage = Added(r), !.distributed[n] = mgr.distributed[n] + 1]
      BY <1>2, <2>3, <3>2 DEF Managers
    <3>4. mgr'.usage = Added(r)
      BY <1>2, <3>3 DEF Managers
    <3>5. Added(r) \in [NS -> Counts]
      BY <1>1, <3>4, AddedUsage
    <3>a. req'[r] = Work(n) /\ rank'[r].at = "recv"
      BY <1>1, <1>5, <2>2, <3>2
    <3>6. /\ mgr' \in Managers /\ mgr'.fatal = mgr.fatal /\ mgr'.terminated = mgr.terminated
          /\ mgr'.done = mgr.done
          /\ Work(n) \in Requests /\ n \in NS /\ Work(n).refdist < mgr'.distributed[n]
          /\ \A ns \in NS : mgr.distributed[ns] <= mgr'.distributed[ns] /\ mgr'.distributed[ns] <= workingranks
          /\ \A ns \in NS, i \in Refs :
               /\ ToDo(ns, i)' => ToDo(ns, i)
               /\ InRequest(r, ns, i)' => ToDo(ns, i) /\ ~ToDo(ns, i)'
               /\ ToDo(ns, i) => ToDo(ns, i)' \/ InRequest(r, ns, i)'
      BY <3>1, <3>3, <3>5, <3>a, RangeMoves
    <3>7. Handled(r, Work(n))
      BY <1>1, <3>2, <3>6 DEF Handled
    <3>8. Moved(r)
      BY <1>1, <3>4, <3>6, AddedUsage DEF Moved
    <3>9. req'[r].type = "NS" /\ req'[r].ns = n /\ resp'[r].type = "none"
      BY <3>6, <3>7, <3>a, HandledMessages DEF Work
    <3>10. MessageOK(r)'
      BY <1>1, <1>3, <2>2, <3>6, <3>9 DEF MessageOK, Asked, Answered_
    <3>11. Within(r)'
      BY <1>1, <1>3, <2>2, <3>6, <3>9, <3>a DEF Within, Answered_, Accepted
    <3>12. ~Dismissed(r)'
      BY <1>3, <3>6, <3>9 DEF Dismissed
    <3> QED BY <1>1, <1>11, <2>2, <3>6, <3>7, <3>8, <3>10, <3>11, <3>12, ManagerStep
  <2> QED BY <2>4, <2>5
<1>12. CASE ~resp[r].fatal /\ ~mgr.fatal /\ resp[r].type = "NS"
  <2> DEFINE n == resp[r].ns
  <2>1. AfterNS(r)
    BY <1>12 DEF HandleResponse
  <2>2. rank[r].at = "recv" /\ rank[r].rlog /\ rank[r].ns = n /\ n \in NS /\ ~Refused(r)
        /\ \A ns, i : ~InAnswer(r, ns, i)
    BY <1>2, <1>3, <1>6, <1>12 DEF Within, Accepted, Refused, InAnswer
  <2>3. CASE n \in Unfinished
    <3>1. mgr' = [mgr EXCEPT !.distributed[n] = @ + 1] /\ req' = [req EXCEPT ![r] = Work(n)]
      BY <2>1, <2>3 DEF AfterNS, HandOut, Send
    <3>3. mgr' = [mgr EXCEPT !.usage = mgr.usage, !.distributed[n] = mgr.distributed[n] + 1]
      BY <1>2, <3>1 DEF Managers
    <3>5. mgr.usage \in [NS -> Counts]
      BY <1>2 DEF Managers
    <3>a. req'[r] = Work(n) /\ rank'[r].at = "recv"
      BY <1>1, <1>5, <2>2, <3>1
    <3>6. /\ mgr' \in Managers /\ mgr'.fatal = mgr.fatal /\ mgr'.terminated = mgr.terminated
          /\ mgr'.done = mgr.done /\ mgr'.usage = mgr.usage
          /\ Work(n) \in Requests /\ Work(n).refdist < mgr'.distributed[n]
          /\ \A ns \in NS : mgr.distributed[ns] <= mgr'.distributed[ns] /\ mgr'.distributed[ns] <= workingranks
          /\ \A ns \in NS, i \in Refs :
               /\ ToDo(ns, i)' => ToDo(ns, i)
               /\ InRequest(r, ns, i)' => ToDo(ns, i) /\ ~ToDo(ns, i)'
               /\ ToDo(ns, i) => ToDo(ns, i)' \/ InRequest(r, ns, i)'
      BY <2>3, <3>3, <3>5, <3>a, RangeMoves
    <3>7. Handled(r, Work(n))
      BY <1>1, <3>1, <3>6 DEF Handled
    <3>8. Moved(r)
      BY <2>2, <3>6 DEF Moved, InUsage
    <3>9. req'[r].type = "NS" /\ req'[r].ns = n /\ resp'[r].type = "none"
      BY <3>6, <3>7, <3>a, HandledMessages DEF Work
    <3> HIDE DEF n
    <3>10. MessageOK(r)'
      BY <1>1, <1>3, <2>2, <3>6, <3>9 DEF MessageOK, Asked, Answered_
    <3>11. Within(r)'
      BY <1>1, <1>3, <2>2, <3>6, <3>9, <3>a DEF Within, Answered_, Accepted
    <3>12. ~Dismissed(r)'
      BY <1>3, <3>6, <3>9 DEF Dismissed
    <3> QED BY <1>1, <1>12, <2>2, <3>6, <3>7, <3>8, <3>10, <3>11, <3>12, ManagerStep
  <2>4. CASE n \notin Unfinished
    <3> DEFINE m == Order("COMPLETE", n)
    <3>1. mgr' = mgr /\ req' = [req EXCEPT ![r] = m]
      BY <2>1, <2>4 DEF AfterNS, Send
    <3>2. m \in Requests /\ m.type = "COMPLETE" /\ m.ns = n
      BY <1>2 DEF Order, Requests, Types, Answers
    <3> HIDE DEF m, n
    <3>3. Handled(r, m)
      BY <1>1, <1>2, <1>4, <3>1 DEF Handled
    <3>4. req'[r].type = "COMPLETE" /\ req'[r].ns = n /\ resp'[r].type = "none"
      BY <3>2, <3>3, HandledMessages
    <3>5. Moved(r)
      BY <2>2, <3>1, <3>4, NothingMoves
    <3>6. MessageOK(r)'
      BY <1>1, <1>3, <2>2, <3>1, <3>4 DEF MessageOK, Asked, Answered_
    <3>7. Within(r)'
      BY <1>1, <1>2, <1>3, <2>2, <3>1, <3>4 DEF Within, Answered_, Accepted
    <3>8. ~Dismissed(r)'
      BY <1>3, <3>1, <3>4 DEF Dismissed
    <3> QED BY <1>1, <1>12, <2>2, <3>1, <3>2, <3>3, <3>5, <3>6, <3>7, <3>8, ManagerStep
  <2> QED BY <2>3, <2>4
<1> QED BY <1>7, <1>8, <1>9, <1>10, <1>11, <1>12 DEF Types

LEMMA RManStays ==
  ASSUME RManInv, mgr' \in Managers, mgr'.distributed = mgr.distributed, mgr'.usage = mgr.usage,
         mgr'.fatal = mgr.fatal, mgr'.terminated = mgr.terminated,
         mgr'.done => mgr.terminated = Ranks,
         UNCHANGED <<req, resp, rank, rin, prod, failures>>
  PROVE  RManInv'
<1>1. RManTypeOK'
  BY DEF RManInv, RManTypeOK
<1>2. ASSUME NEW r \in Ranks
      PROVE  /\ RankInv(r)' /\ Dismissed(r)' = Dismissed(r) /\ Underway(r)' = Underway(r)
             /\ \A ns, i : Has(r, ns, i)' = Has(r, ns, i) /\ OnceIn(r, ns, i)' = OnceIn(r, ns, i)
  <2>1. RankInv(r)
    BY DEF RManInv
  <2>2. MessageOK(r)' = MessageOK(r) /\ Within(r)' = Within(r)
    BY DEF MessageOK, Within, Asked, Answered_, Accepted
  <2>3. Unset(r)' = Unset(r) /\ EmptyUnlessScanning(r)' = EmptyUnlessScanning(r) /\ Bounded(r)' = Bounded(r)
    BY DEF Unset, EmptyUnlessScanning, Empty, Bounded
  <2>4. Handshake(r)' = Handshake(r) /\ AnyFatal(r)' = AnyFatal(r) /\ Refused(r)' = Refused(r)
    BY DEF Handshake, Said, Left, AnyFatal, Refused, Answered_
  <2>5. RankInv(r)'
    BY <2>1, <2>2, <2>3, <2>4 DEF RankInv
  <2>6. Dismissed(r)' = Dismissed(r) /\ Underway(r)' = Underway(r)
    BY <2>4 DEF Dismissed, Underway
  <2>7. ASSUME NEW ns, NEW i
        PROVE  Has(r, ns, i)' = Has(r, ns, i) /\ OnceIn(r, ns, i)' = OnceIn(r, ns, i)
    <3>1. /\ InRequest(r, ns, i)' = InRequest(r, ns, i) /\ InRange(r, ns, i)' = InRange(r, ns, i)
          /\ InReport(r, ns, i)' = InReport(r, ns, i) /\ InAnswer(r, ns, i)' = InAnswer(r, ns, i)
          /\ \A p : InHand(r, p, ns, i)' = InHand(r, p, ns, i)
      BY DEF InRequest, InRange, InReport, InAnswer, InHand, Answered_
    <3> QED BY <3>1 DEF Has, OnceIn
  <2> QED BY <2>5, <2>6, <2>7
<1>3. MgrInv'
  <2>1. Unfinished' = Unfinished
    BY DEF Unfinished
  <2> QED BY <1>2, <2>1 DEF RManInv, MgrInv
<1>4. PlaceInv'
  <2> SUFFICES ASSUME NEW ns \in NS, NEW i \in Refs
               PROVE  Once(ns, i)' /\ \A r \in Ranks : OnceIn(r, ns, i)'
    BY DEF PlaceInv
  <2>1. Once(ns, i) /\ \A r \in Ranks : OnceIn(r, ns, i)
    BY DEF RManInv, PlaceInv
  <2>2. ToDo(ns, i)' = ToDo(ns, i) /\ InUsage(ns, i)' = InUsage(ns, i) /\ Exists(ns, i)' = Exists(ns, i)
    BY DEF ToDo, InUsage, Exists, RangeMin
  <2> QED BY <1>2, <2>1, <2>2 DEF Once
<1> QED BY <1>1, <1>2, <1>3, <1>4 DEF RManInv

LEMMA FinishSafe ==
  ASSUME RManInv, Finish
  PROVE  RManInv'
<1>1. /\ mgr.terminated = Ranks /\ mgr' = [mgr EXCEPT !.done = TRUE] /\ mgr \in Managers
      /\ UNCHANGED <<req, resp, rank, rin, prod, failures>>
  BY DEF Finish, RManInv, RManTypeOK
<1>2. /\ mgr' \in Managers /\ mgr'.distributed = mgr.distributed /\ mgr'.usage = mgr.usage
      /\ mgr'.fatal = mgr.fatal /\ mgr'.terminated = mgr.terminated
  BY <1>1 DEF Managers
<1> QED BY <1>1, <1>2, RManStays

LEMMA RManNext == RManInv /\ [Next]_vars => RManInv'
<1> SUFFICES ASSUME RManInv, [Next]_vars PROVE RManInv'
  OBVIOUS
<1>1. ASSUME NEW r \in Ranks, Main(r) PROVE RManInv'
  BY <1>1, NSWorkSafe, WaitForCompSafe, CompleteWorkSafe, TermSafe, TermLeavingSafe, CollectSafe,
     LeaveWorkSafe DEF Main
<1>2. ASSUME NEW r \in Ranks, HandleResponse(r) PROVE RManInv'
  BY <1>2, HandleResponseSafe
<1>3. ASSUME NEW r \in Ranks, NEW p \in Producers, Thread(r, p) PROVE RManInv'
  BY <1>3, GetNextSafe, WaitForUpdateSafe, WaitForTermSafe DEF Thread
<1>4. CASE Finish
  BY <1>4, FinishSafe
<1>5. ASSUME NEW r \in Ranks, ConsumerFails(r) PROVE RManInv'
  BY <1>5, ConsumerFailsSafe
<1>6. ASSUME NEW r \in Ranks, NEW p \in Producers, ProducerFails(r, p) PROVE RManInv'
  BY <1>6, ProducerFailsSafe
<1>7. CASE UNCHANGED vars
  <2>1. mgr \in Managers /\ (mgr.done => mgr.terminated = Ranks)
    BY DEF RManInv, RManTypeOK, MgrInv
  <2> QED BY <1>7, <2>1, RManStays DEF vars
<1> QED BY <1>1, <1>2, <1>3, <1>4, <1>5, <1>6, <1>7 DEF Next, Step

LEMMA RManInvariant == Spec => []RManInv
BY RManInit, RManNext, PTL DEF Spec

-----------------------------------------------------------------------------
(* What the invariant says *)

\* Once the ranges of a namespace are all handed out, nothing of it is to do.
LEMMA AllHandedOut ==
  ASSUME RManInv, Unfinished = {}, NEW ns \in NS, NEW i \in Nat, i < RefNodes[ns]
  PROVE  ~ToDo(ns, i)
<1>1. mgr.distributed[ns] \in Nat /\ mgr.distributed[ns] <= workingranks
  BY DEF RManInv, RManTypeOK, Managers, MgrInv
<1>2. ~(mgr.distributed[ns] < workingranks)
  BY DEF Unfinished
<1>3. mgr.distributed[ns] = workingranks
  BY <1>1, <1>2, WorkingRanks
<1> QED BY <1>3, Ranges DEF ToDo

\* When the manager is done without an error, so is every rank.
LEMMA DoneIsQuiet ==
  ASSUME RManInv, mgr.done, ~mgr.fatal
  PROVE  /\ failures = 0 /\ Unfinished = {}
         /\ \A r \in Ranks, ns \in NS, i \in Refs : ~Has(r, ns, i)
<1>1. ASSUME NEW r \in Ranks
      PROVE  /\ ~Asked(r) /\ ~Answered_(r) /\ ~rank[r].rlog /\ Unset(r) /\ Dismissed(r)
  BY DEF RManInv, MgrInv, RankInv, MessageOK, Within, Dismissed
<1>2. \A r \in Ranks : ~Underway(r)
  BY <1>1 DEF Underway, Refused
<1>3. failures = 0 /\ Unfinished = {}
  <2>1. PICK r \in Ranks : TRUE
    BY RManAssumption
  <2> QED BY <1>1, <1>2, <2>1 DEF RManInv, RManTypeOK, MgrInv
<1>4. ASSUME NEW r \in Ranks, NEW ns \in NS, NEW i \in Refs PROVE ~Has(r, ns, i)
  <2>1. /\ rank[r].report = Zero /\ rin[r] = NewInput /\ prod[r] = [p \in Producers |-> NoProducer]
    BY <1>1 DEF Unset
  <2>2. Zero[i] = 0 /\ \A p \in Producers : prod[r][p] = NoProducer
    BY <2>1 DEF Zero
  <2>3. ~InRange(r, ns, i)
    BY <2>1, RefsFacts DEF InRange, NewInput
  <2>4. ~InRequest(r, ns, i) /\ ~InAnswer(r, ns, i)
    BY <1>1 DEF InRequest, InAnswer, Asked
  <2> QED BY <2>1, <2>2, <2>3, <2>4, NewThreads DEF Has, InReport, InHand
<1> QED BY <1>3, <1>4

LEMMA InvScannedOnce == RManInv => ScannedOnce
<1> SUFFICES ASSUME RManInv PROVE ScannedOnce
  OBVIOUS
<1>1. UsageIsComplete
  <2> SUFFICES ASSUME mgr.done, ~mgr.fatal, NEW ns \in NS, NEW i \in Refs
               PROVE  mgr.usage[ns][i] = IF i < RefNodes[ns] /\ <<ns, i>> \notin Absent THEN 1 ELSE 0
    BY DEF UsageIsComplete
  <2>1. Once(ns, i) /\ i \in Nat
    BY RefsFacts DEF RManInv, PlaceInv
  <2>2. failures = 0 /\ Unfinished = {} /\ \A r \in Ranks : ~Has(r, ns, i)
    BY DoneIsQuiet
  <2>3. CASE Exists(ns, i)
    <3>1. ~ToDo(ns, i)
      BY <2>1, <2>2, <2>3, AllHandedOut DEF Exists
    <3>2. mgr.usage[ns][i] = 1
      BY <2>1, <2>2, <2>3, <3>1 DEF Once
    <3> QED BY <2>3, <3>2 DEF Exists
  <2>4. CASE ~Exists(ns, i)
    <3>1. mgr.usage[ns][i] = 0
      BY <2>1, <2>4 DEF Once, InUsage
    <3> QED BY <2>4, <3>1 DEF Exists
  <2> QED BY <2>3, <2>4
<1>2. ASSUME NEW r \in Ranks, NEW p \in Producers, prod[r][p].at = "busy"
      PROVE  /\ rank[r].ns \in NS /\ prod[r][p].ref \in Refs
             /\ Once(rank[r].ns, prod[r][p].ref) /\ OnceIn(r, rank[r].ns, prod[r][p].ref)
             /\ InHand(r, p, rank[r].ns, prod[r][p].ref) /\ Has(r, rank[r].ns, prod[r][p].ref)
  <2>1. rank[r].ns \in NS
    BY <1>2, ThreadsBelong
  <2>2. prod[r][p].ref \in Nat /\ prod[r][p].ref < RefNodes[rank[r].ns]
    BY <1>2 DEF RManInv, RManTypeOK, ProducerThreads, RankInv, Bounded
  <2>3. prod[r][p].ref \in Refs
    BY <2>1, <2>2, RefsFacts
  <2>4. InHand(r, p, rank[r].ns, prod[r][p].ref)
    BY <1>2 DEF InHand
  <2> QED BY <2>1, <2>3, <2>4 DEF RManInv, PlaceInv, Has
<1>3. EachRefOnce
  <2>1. ASSUME NEW r \in Ranks, NEW s \in Ranks, NEW p \in Producers, NEW q \in Producers,
               prod[r][p].at = "busy", prod[s][q].at = "busy", Work_(r, p) = Work_(s, q)
        PROVE  r = s /\ p = q
    <3>1. rank[r].ns = rank[s].ns /\ prod[r][p].ref = prod[s][q].ref
      BY <2>1 DEF Work_
    <3>2. r = s
      BY <1>2, <2>1, <3>1 DEF Once
    <3>3. InHand(r, q, rank[r].ns, prod[r][p].ref)
      BY <2>1, <3>1, <3>2 DEF InHand
    <3> QED BY <1>2, <2>1, <3>2, <3>3 DEF OnceIn
  <2>2. ASSUME NEW r \in Ranks, NEW p \in Producers, prod[r][p].at = "busy"
        PROVE  mgr.usage[rank[r].ns][prod[r][p].ref] + rank[r].report[prod[r][p].ref] = 0
    <3>1. mgr.usage[rank[r].ns][prod[r][p].ref] = 0
      BY <1>2, <2>2 DEF Once, InUsage
    <3>2. rank[r].report[prod[r][p].ref] = 0
      BY <1>2, <2>2 DEF OnceIn, InReport
    <3> QED BY <3>1, <3>2
  <2> QED BY <2>1, <2>2 DEF EachRefOnce
<1> QED BY <1>1, <1>3 DEF ScannedOnce

LEMMA InvNoneForgotten == RManInv => NoneForgotten
<1> SUFFICES ASSUME RManInv PROVE NoneForgotten
  OBVIOUS
<1>1. FatalIsReported
  <2>1. mgr.done /\ ~mgr.fatal => failures = 0
    BY DoneIsQuiet
  <2>2. mgr.fatal => failures > 0
    BY DEF RManInv, MgrInv
  <2>3. failures \in Nat /\ mgr.fatal \in BOOLEAN
    BY DEF RManInv, RManTypeOK, Managers
  <2> QED BY <2>1, <2>2, <2>3 DEF FatalIsReported
<1>2. InputOutlivesThreads
  BY DEF RManInv, RankInv, Handshake, InputOutlivesThreads
<1> QED BY <1>1, <1>2 DEF NoneForgotten

-----------------------------------------------------------------------------
(* The theorems *)

\* No directory is scanned by two threads, or again when it is counted, and the usage that the
\* manager sets without an error counts each directory once, however the ranks share the
\* ranges, with any number of them (managerbehavior, getNSrange, resourceinput_getnext).
THEOREM ScanCorrect == Spec => []ScannedOnce
BY RManInvariant, InvScannedOnce, PTL

\* An iteration is an error exactly when some thread met one, and a rank tears its input down
\* when its threads have left it (handlerequest, handleresponse, resourceinput_term).
THEOREM ErrorsCorrect == Spec => []NoneForgotten
BY RManInvariant, InvNoneForgotten, PTL
=============================================================================
