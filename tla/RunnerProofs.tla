---------------------------- MODULE RunnerProofs ----------------------------
(***************************************************************************)
(* The two programs that choose which tests are run on how many VMs.       *)
(*                                                                         *)
(* Runner for every list of tests, number of VMs, iterations and earlier   *)
(* results: every test that was asked for is run, one at a time, on clean  *)
(* VMs; when an iteration ends, what its return value says; and what is    *)
(* kept of the results.                                                    *)
(*                                                                         *)
(* CiSelection for every version, of any length, and all test files: the   *)
(* order of versions is one of numbers, and a test is written exactly if   *)
(* it fits all versions that were given.                                   *)
(***************************************************************************)
EXTENDS Runner, CiSelection, SequenceTheorems, FiniteSetTheorems,
        WellFoundedInduction, NaturalsInduction, TLAPS

Between == {"collect", "iterate", "next", "prepare", "cancel", "judge",
            "cleanup", "returned"}
InTest == {"reading", "wait", "cancel", "judge", "cleanup"}
Outcome == [exit_code : {0, 1, -9}, timeout : BOOLEAN, nodes : Int]
Outcomes == [Test -> Outcome]

TypeOK ==
    /\ pc \in Between \cup InTest \cup {"saving", "stopping", "done",
                                         "crashed", "interrupted"}
    /\ run \in BOOLEAN
    /\ keep_going \in BOOLEAN
    /\ iteration \in Nat
    /\ pos \in Runnable[run] \cup {NoTest}
    /\ num_skip \in Nat
    /\ num_total \in Nat
    /\ num_skipped \in Nat
    /\ num_successful \in Nat
    /\ global_exit_code \in {0, 1}
    /\ results \in Outcomes
    /\ exit_code \in {0, 1, -9}
    /\ result_db \in Seq(Outcomes)
    /\ file \in Seq(Outcomes)
    /\ cut \in BOOLEAN
    /\ child \in {"none", "running", "exited", "failed", "killed"}
    /\ helper \in BOOLEAN
    /\ timeout \in BOOLEAN
    /\ vms \in [1..NumVms -> Use]
    /\ prepared \in Nat

\* The processes of a test exist while the runner reads and waits, only.
Processes ==
    /\ pc \in Between => child = "none" /\ ~helper
    /\ pc = "reading" => child # "none"
    /\ pc = "wait" => child \notin {"none", "running"} /\ ~helper

\* A test is being prepared or run: what has been prepared is clean.
Clean ==
    /\ pc \in InTest \cup {"prepare"} => pos # NoTest
    /\ pc = "prepare" =>
            /\ prepared <= NumUsed
            /\ \A v \in 1..prepared : vms[v] = "none"

\* The counters, as long as no test has failed.
Counters ==
    /\ pc \in {"next", "prepare"} \cup InTest =>
            /\ ~keep_going => global_exit_code = 0
            /\ global_exit_code = 0 =>
                  num_total = (IF pc \in InTest THEN num_successful + 1
                                                ELSE num_successful)
    /\ pc = "cleanup" => Result.timeout \/ Result.exit_code # 0
    /\ pc = "returned" /\ ~keep_going =>
            num_total \in {num_successful, num_successful + 1}

\* A list that begins with the results of earlier runs.
Begins(s) == Len(s) >= Earlier /\ \A n \in 1..Earlier : s[n] = NoResults

\* The results in memory are complete whenever the file may be emptied.
History ==
    /\ pc = "collect" => iteration = 0 /\ (~cut => Len(file) = Earlier)
    /\ cut => pc \in {"collect", "saving", "stopping", "crashed"}
    /\ ~cut => Begins(file)
    /\ pc \notin {"collect", "crashed"} =>
            /\ Len(result_db) = Earlier + iteration
            /\ Begins(result_db)
    /\ pc \in {"done", "interrupted"} => file = result_db

\* The tests before a place, all of them before none.
PastOf(named, p) ==
    IF p = NoTest THEN Runnable[named]
    ELSE {q \in Runnable[named] : Before(q, p)}

\* How many tests are before it.
Ranked(named, p) == Cardinality(PastOf(named, p))

\* The counters, with begun = 1 while a test runs: the first num_skip tests are
\* passed over, the others counted.
Tally(begun) ==
    /\ num_skipped <= num_skip
    /\ num_total + num_skipped = Ranked(run, pos) + begun
    /\ num_skipped = Cardinality({p \in PastOf(run, pos) :
                                    Ranked(run, p) < num_skip})
    /\ num_total > 0 => num_skipped = num_skip

\* Of these places there are results, and there are no other ones.
Recorded(past) ==
    /\ \A p \in past :
        Ranked(run, p) >= num_skip => results[TestAt(run, p)] # NoResult
    /\ \A t \in Test : results[t] # NoResult =>
        \E p \in past : /\ t = TestAt(run, p)
                        /\ results[t].nodes = VmsAt(run, p)

Settled ==
    IF pc \in {"cancel", "judge", "cleanup"}
    THEN PastOf(run, pos) \cup {pos} ELSE PastOf(run, pos)

Progress ==
    \/ pc \in {"next", "prepare"} \cup InTest
    \/ pc = "returned" /\ pos = NoTest
    => /\ Tally(IF pc \in InTest THEN 1 ELSE 0)
       /\ Recorded(Settled)
       /\ pc \in {"prepare"} \cup InTest => Ranked(run, pos) >= num_skip
       /\ pc = "cancel" => Result.nodes = NumUsed

IInv ==
    /\ TypeOK
    /\ Processes
    /\ Clean
    /\ Counters
    /\ ZeroMeansSuccess
    /\ History
    /\ Progress

-----------------------------------------------------------------------------
(* The tests and the VMs.                                                  *)

LEMMA NumbersNat == NumVms \in Nat \ {0} /\ Earlier \in Nat
BY RunnerAssumption

LEMMA CodeValues ==
    ASSUME NEW c \in {"exited", "failed", "killed"}
    PROVE  Code[c] \in {0, 1, -9}
<1>1. Code["exited"] = 0 /\ Code["failed"] = 1 /\ Code["killed"] = -9
  BY DEF Code
<1>2. QED
  BY <1>1

\* Every test that is run has a name in Test and VMs that exist.
LEMMA RunnablePlaces ==
    ASSUME NEW named \in BOOLEAN, NEW p \in Runnable[named]
    PROVE  TestAt(named, p) \in Test /\ VmsAt(named, p) \in 0..NumVms
<1>1. p \in TestSets[named] /\ VmsAt(named, p) <= NumVms
  BY DEF Runnable
<1>2. CASE named
  <2>1. p[2] \in DOMAIN Requested
    BY <1>1, <1>2 DEF TestSets, generate_test_set
  <2>2. TestAt(named, p) \in Test
    BY <1>2, <2>1 DEF TestAt, Test, ToSet
  <2>3. VmsAt(named, p) \in Nat
    BY <1>2, <2>1, RunnerAssumption DEF VmsAt, UseVms
  <2>4. QED
    BY <1>1, <2>2, <2>3, NumbersNat
<1>3. CASE ~named
  <2>1. p \in UNION {{i} \X DOMAIN FileSets[i].tests : i \in DOMAIN FileSets}
    BY <1>1, <1>3 DEF TestSets
  <2>2. p[1] \in DOMAIN FileSets /\ p[2] \in DOMAIN FileSets[p[1]].tests
    BY <2>1
  <2>3. TestAt(named, p) \in Test
    BY <1>3, <2>2 DEF TestAt, Test, ToSet
  <2>4. VmsAt(named, p) \in Nat
    BY <1>3, <2>2, RunnerAssumption DEF VmsAt
  <2>5. QED
    BY <1>1, <2>3, <2>4, NumbersNat
<1>4. QED
  BY <1>2, <1>3

\* The same for the current place.
LEMMA ThisPlace ==
    ASSUME TypeOK, pos # NoTest
    PROVE  This \in Test /\ NumUsed \in 0..NumVms
BY RunnablePlaces DEF TypeOK, This, NumUsed

LEMMA AdvanceType ==
    ASSUME NEW p, Advance(p)
    PROVE  pos' \in Runnable[run] \cup {NoTest}
BY DEF Advance, Later

\* A set of natural numbers has a least one.
LEMMA Least ==
    ASSUME NEW S, S \subseteq Nat, S # {}
    PROVE  \E x \in S : \A y \in S : x <= y
<1>1. PICK x \in S : \A y \in S : <<y, x>> \notin OpToRel(<, Nat)
  BY NatLessThanWellFounded, WFMin, Zenon
<1>2. \A y \in S : ~(y < x)
  BY <1>1, Zenon DEF OpToRel
<1>3. QED
  BY <1>2

\* The lists.
LEMMA Lists ==
    /\ Len(Requested) \in Nat /\ DOMAIN Requested = 1..Len(Requested)
    /\ Len(FileSets) \in Nat /\ DOMAIN FileSets = 1..Len(FileSets)
    /\ \A i \in DOMAIN FileSets :
        /\ Len(FileSets[i].tests) \in Nat
        /\ DOMAIN FileSets[i].tests = 1..Len(FileSets[i].tests)
<1>1. /\ IsList(Requested) /\ IsList(FileSets)
      /\ \A i \in DOMAIN FileSets : IsList(FileSets[i].tests)
  BY RunnerAssumption, Zenon
<1>2. QED
  BY <1>1, Zenon DEF IsList

LEMMA NamedPairs ==
    generate_test_set \subseteq (DOMAIN Requested) \X (DOMAIN Requested)
<1> DEFINE able == {k \in DOMAIN Requested : Enough(Requested[k])}
           D == DOMAIN Requested
<1>1. generate_test_set \subseteq able \X able
  BY DEF generate_test_set
<1>2. able \subseteq D
  OBVIOUS
<1> HIDE DEF able, D
<1>3. able \X able \subseteq D \X D
  BY <1>2
<1>4. QED
  BY <1>1, <1>3 DEF D

\* Places are pairs of positions.
LEMMA PlacePairs ==
    ASSUME NEW named \in BOOLEAN
    PROVE  /\ Runnable[named] \subseteq (Nat \ {0}) \X (Nat \ {0})
           /\ NoTest \notin Runnable[named]
<1>1. SUFFICES ASSUME NEW p \in Runnable[named]
               PROVE  p \in (Nat \ {0}) \X (Nat \ {0}) /\ p # NoTest
  OBVIOUS
<1>2. p \in TestSets[named]
  BY <1>1 DEF Runnable
<1>3. CASE named
  <2>1. p \in (DOMAIN Requested) \X (DOMAIN Requested)
    BY <1>2, <1>3, NamedPairs DEF TestSets
  <2>2. p = <<p[1], p[2]>> /\ p[1] \in Nat \ {0} /\ p[2] \in Nat \ {0}
    BY <2>1, Lists
  <2>3. QED
    BY <2>2 DEF NoTest
<1>4. CASE ~named
  <2>1. PICK i \in DOMAIN FileSets : p \in {i} \X DOMAIN FileSets[i].tests
    BY <1>2, <1>4 DEF TestSets
  <2>2. i \in Nat \ {0} /\ DOMAIN FileSets[i].tests \subseteq Nat \ {0}
    BY Lists
  <2>3. QED
    BY <2>1, <2>2 DEF NoTest
<1>5. QED
  BY <1>3, <1>4

LEMMA RunnableFinite ==
    ASSUME NEW named \in BOOLEAN
    PROVE  IsFiniteSet(Runnable[named])
<1>1. IsFiniteSet(TestSets[named])
  <2>1. CASE named
    <3>1. IsFiniteSet(DOMAIN Requested)
      BY FS_Interval, Lists
    <3>2. IsFiniteSet((DOMAIN Requested) \X (DOMAIN Requested))
      BY <3>1, FS_Product, Zenon
    <3>3. TestSets[named] \subseteq (DOMAIN Requested) \X (DOMAIN Requested)
      BY <2>1, NamedPairs DEF TestSets
    <3>4. QED
      BY <3>2, <3>3, FS_Subset
  <2>2. CASE ~named
    <3> DEFINE places(i) == {i} \X DOMAIN FileSets[i].tests
               all == {places(i) : i \in DOMAIN FileSets}
               f == [i \in DOMAIN FileSets |-> places(i)]
    <3>1. \A S \in all : IsFiniteSet(S)
      <4>1. SUFFICES ASSUME NEW i \in DOMAIN FileSets
                     PROVE  IsFiniteSet({i} \X DOMAIN FileSets[i].tests)
        OBVIOUS
      <4>2. IsFiniteSet(DOMAIN FileSets[i].tests)
        <5> DEFINE n == Len(FileSets[i].tests)
        <5>1. n \in Int /\ DOMAIN FileSets[i].tests = 1..n
          BY Lists
        <5> HIDE DEF n
        <5>2. QED
          BY <5>1, FS_Interval
      <4>3. QED
        BY <4>2, FS_Singleton, FS_Product
    <3>2. IsFiniteSet(DOMAIN FileSets)
      <4> DEFINE n == Len(FileSets)
      <4>1. n \in Int /\ DOMAIN FileSets = 1..n
        BY Lists
      <4> HIDE DEF n
      <4>2. QED
        BY <4>1, FS_Interval
    <3>3. f \in Surjection(DOMAIN FileSets, all)
      BY DEF Surjection
    <3>4. IsFiniteSet(all)
      BY <3>2, <3>3, FS_Surjection
    <3>5. TestSets[named] = UNION all
      BY <2>2 DEF TestSets
    <3> HIDE DEF all
    <3>6. QED
      BY <3>1, <3>4, <3>5, FS_UNION
  <2>3. QED
    BY <2>1, <2>2
<1>2. Runnable[named] \subseteq TestSets[named]
  BY DEF Runnable
<1>3. QED
  BY <1>1, <1>2, FS_Subset

LEMMA PastFinite ==
    ASSUME NEW named \in BOOLEAN, NEW p \in Runnable[named] \cup {NoTest}
    PROVE  /\ IsFiniteSet(PastOf(named, p))
           /\ Ranked(named, p) \in Nat
           /\ PastOf(named, p) \subseteq Runnable[named]
           /\ p \notin PastOf(named, p)
<1>1. PastOf(named, p) \subseteq Runnable[named]
  BY DEF PastOf
<1>2. IsFiniteSet(PastOf(named, p))
  BY <1>1, RunnableFinite, FS_Subset
<1>3. p \notin PastOf(named, p)
  <2>1. CASE p = NoTest
    BY <1>1, <2>1, PlacePairs
  <2>2. CASE p # NoTest
    BY <2>2, PlacePairs DEF PastOf, Before
  <2>3. QED
    BY <2>1, <2>2
<1>4. QED
  BY <1>1, <1>2, <1>3, FS_CardinalityType DEF Ranked

\* The loops go from the first place to the next one until there is none.
LEMMA FirstPlace ==
    ASSUME run \in BOOLEAN, Advance(NoTest)
    PROVE  PastOf(run, pos') = {}
<1>1. Later(NoTest) = Runnable[run]
  BY PlacePairs DEF Later, Before, NoTest
<1>2. CASE Runnable[run] = {}
  BY <1>2 DEF PastOf
<1>3. CASE Runnable[run] # {}
  <2>1. pos' \in Runnable[run] /\ \A r \in Runnable[run] : ~Before(r, pos')
    BY <1>1, <1>3 DEF Advance
  <2>2. pos' # NoTest
    BY <2>1, PlacePairs
  <2>3. QED
    BY <2>1, <2>2 DEF PastOf
<1>4. QED
  BY <1>2, <1>3

LEMMA NextPlace ==
    ASSUME run \in BOOLEAN, NEW p \in Runnable[run], Advance(p)
    PROVE  PastOf(run, pos') = PastOf(run, p) \cup {p}
<1>1. /\ Runnable[run] \subseteq (Nat \ {0}) \X (Nat \ {0})
      /\ p # NoTest
  BY PlacePairs
<1>2. \A q, r \in Runnable[run] : Before(q, r) \/ q = r \/ Before(r, q)
  BY <1>1 DEF Before
<1>3. \A q, r, s \in Runnable[run] :
            Before(q, r) /\ Before(r, s) => Before(q, s)
  BY <1>1 DEF Before
<1>4. PastOf(run, p) = {q \in Runnable[run] : Before(q, p)}
  BY <1>1 DEF PastOf
<1>5. CASE Later(p) = {}
  <2>1. pos' = NoTest
    BY <1>5 DEF Advance
  <2>2. PastOf(run, pos') = Runnable[run]
    BY <2>1 DEF PastOf
  <2>3. QED
    BY <1>2, <1>4, <1>5, <2>2 DEF Later
<1>6. CASE Later(p) # {}
  <2>1. /\ pos' \in Runnable[run] /\ Before(p, pos')
        /\ \A r \in Runnable[run] : Before(p, r) => ~Before(r, pos')
    BY <1>6 DEF Advance, Later
  <2>2. pos' # NoTest
    BY <2>1, PlacePairs
  <2>3. PastOf(run, pos') = {q \in Runnable[run] : Before(q, pos')}
    BY <2>2 DEF PastOf
  <2>4. \A q \in Runnable[run] : Before(q, pos') <=> (Before(q, p) \/ q = p)
    BY <1>2, <1>3, <2>1
  <2>5. QED
    BY <1>4, <2>3, <2>4
<1>7. QED
  BY <1>5, <1>6

-----------------------------------------------------------------------------
(* What is run is what was asked for.                                      *)

AskedAs(named, p) ==
    [at |-> IF named THEN p[2] ELSE p, name |-> TestAt(named, p),
     vms |-> VmsAt(named, p)]

LEMMA UseVmsBound ==
    ASSUME NEW k \in DOMAIN Requested
    PROVE  UseVms(Requested[k]) <= NumVms
<1>1. Requested[k].max_nodes \in Nat /\ NumVms \in Nat
  BY RunnerAssumption
<1>2. QED
  BY <1>1 DEF UseVms

LEMMA NamedPlaces ==
    /\ \A p \in Runnable[TRUE] : AskedAs(TRUE, p) \in Asked(TRUE)
    /\ \A p, q \in Runnable[TRUE] : p[2] = q[2] => p = q
    /\ \A a \in Asked(TRUE) : \E p \in Runnable[TRUE] : AskedAs(TRUE, p) = a
<1> DEFINE able == {k \in DOMAIN Requested : Enough(Requested[k])}
           Same(j) == {k \in able :
                        UseVms(Requested[k]) = UseVms(Requested[j])}
<1>1. /\ able \subseteq Nat
      /\ \A k \in DOMAIN Requested :
            k \in able <=> Requested[k].min_nodes <= NumVms
  <2>1. \A k \in DOMAIN Requested :
            Requested[k].min_nodes \in Nat /\ NumVms \in Nat
    BY RunnerAssumption
  <2>2. QED
    BY <2>1, Lists DEF Enough
<1>2. \A p \in Runnable[TRUE] :
        /\ p \in able \X able /\ p[1] \in Same(p[2])
        /\ \A k \in Same(p[2]) : p[1] <= k
        /\ Requested[p[2]].name \notin Exclude
  BY DEF Runnable, TestSets, generate_test_set, TestAt
<1>3. ASSUME NEW p \in able \X able, p[1] \in Same(p[2]),
             \A k \in Same(p[2]) : p[1] <= k,
             Requested[p[2]].name \notin Exclude
      PROVE  p \in Runnable[TRUE]
  <2>1. p \in TestSets[TRUE]
    BY <1>3 DEF TestSets, generate_test_set
  <2>2. VmsAt(TRUE, p) <= NumVms
    BY <1>3, UseVmsBound DEF VmsAt
  <2>3. TestAt(TRUE, p) \notin Exclude
    BY <1>3 DEF TestAt
  <2>4. QED
    BY <2>1, <2>2, <2>3 DEF Runnable
<1>4. ASSUME NEW k \in able, Requested[k].name \notin Exclude
      PROVE  [at |-> k, name |-> Requested[k].name,
              vms |-> UseVms(Requested[k])] \in Asked(TRUE)
  BY <1>1, <1>4 DEF Asked
<1>5. ASSUME NEW a \in Asked(TRUE)
      PROVE  \E k \in able :
                /\ Requested[k].name \notin Exclude
                /\ a = [at |-> k, name |-> Requested[k].name,
                        vms |-> UseVms(Requested[k])]
  BY <1>1, <1>5 DEF Asked
<1> HIDE DEF able
<1>6. \A p \in Runnable[TRUE] : AskedAs(TRUE, p) \in Asked(TRUE)
  <2>1. SUFFICES ASSUME NEW p \in Runnable[TRUE]
                 PROVE  AskedAs(TRUE, p) \in Asked(TRUE)
    OBVIOUS
  <2>2. p[2] \in able /\ Requested[p[2]].name \notin Exclude
    BY <1>2
  <2>3. QED
    BY <1>4, <2>2 DEF AskedAs, TestAt, VmsAt
<1>7. \A p, q \in Runnable[TRUE] : p[2] = q[2] => p = q
  <2>1. SUFFICES ASSUME NEW p \in Runnable[TRUE], NEW q \in Runnable[TRUE],
                        p[2] = q[2]
                 PROVE  p = q
    OBVIOUS
  <2>2. p[1] \in Nat /\ q[1] \in Nat /\ p[1] <= q[1] /\ q[1] <= p[1]
    BY <1>1, <1>2, <2>1
  <2>3. p[1] = q[1]
    BY <2>2
  <2>4. p = <<p[1], p[2]>> /\ q = <<q[1], q[2]>>
    <3>1. p \in able \X able /\ q \in able \X able
      BY <1>2
    <3>2. QED
      BY <3>1
  <2>5. QED
    BY <2>1, <2>3, <2>4
<1>8. \A a \in Asked(TRUE) : \E p \in Runnable[TRUE] : AskedAs(TRUE, p) = a
  <2>1. SUFFICES ASSUME NEW a \in Asked(TRUE)
                 PROVE  \E p \in Runnable[TRUE] : AskedAs(TRUE, p) = a
    OBVIOUS
  <2>2. PICK k \in able : /\ Requested[k].name \notin Exclude
                          /\ a = [at |-> k, name |-> Requested[k].name,
                                  vms |-> UseVms(Requested[k])]
    BY <1>5
  <2>3. Same(k) \subseteq Nat /\ k \in Same(k)
    BY <1>1
  <2>4. PICK i \in Same(k) : \A j \in Same(k) : i <= j
    <3> DEFINE S == Same(k)
    <3>1. S \subseteq Nat /\ S # {}
      BY <2>3
    <3> HIDE DEF S
    <3>2. \E i \in S : \A j \in S : i <= j
      BY <3>1, Least
    <3>3. QED
      BY <3>2 DEF S
  <2> DEFINE p == <<i, k>>
  <2>5. p \in able \X able /\ p[1] = i /\ p[2] = k
    BY <2>4
  <2> HIDE DEF p
  <2>6. p \in Runnable[TRUE]
    BY <1>3, <2>2, <2>4, <2>5
  <2>7. AskedAs(TRUE, p) = a
    BY <2>2, <2>5 DEF AskedAs, TestAt, VmsAt
  <2>8. QED
    BY <2>6, <2>7
<1>9. QED
  BY <1>6, <1>7, <1>8

LEMMA FilePlaces ==
    /\ \A p \in Runnable[FALSE] : AskedAs(FALSE, p) \in Asked(FALSE)
    /\ \A a \in Asked(FALSE) :
            \E p \in Runnable[FALSE] : AskedAs(FALSE, p) = a
<1>1. ASSUME NEW p \in Runnable[FALSE]
      PROVE  AskedAs(FALSE, p) \in Asked(FALSE)
  <2>1. /\ p \in TestSets[FALSE] /\ VmsAt(FALSE, p) <= NumVms
        /\ TestAt(FALSE, p) \notin Exclude
    BY DEF Runnable
  <2>2. PICK i \in DOMAIN FileSets : p \in {i} \X DOMAIN FileSets[i].tests
    BY <2>1 DEF TestSets
  <2>3. PICK j \in DOMAIN FileSets[i].tests : p = <<i, j>>
    BY <2>2
  <2> DEFINE a == AskedAs(FALSE, p)
  <2>4. a = [at |-> <<i, j>>, name |-> FileSets[i].tests[j],
             vms |-> FileSets[i].vms]
    BY <2>3 DEF AskedAs, TestAt, VmsAt
  <2>5. FileSets[i].vms <= NumVms /\ FileSets[i].tests[j] \notin Exclude
    BY <2>1, <2>3 DEF TestAt, VmsAt
  <2> HIDE DEF a
  <2>6. a \in Asked(FALSE)
    <3> DEFINE of(k) == {[at |-> <<k, l>>, name |-> FileSets[k].tests[l],
                          vms |-> FileSets[k].vms] :
                            l \in DOMAIN FileSets[k].tests}
               all == UNION {of(k) : k \in {m \in DOMAIN FileSets :
                                            FileSets[m].vms <= NumVms}}
    <3>1. a \in of(i)
      BY <2>4
    <3> HIDE DEF of
    <3>2. a \in all
      BY <2>5, <3>1
    <3>3. a.name \notin Exclude
      BY <2>4, <2>5
    <3>4. Asked(FALSE) = {b \in all : b.name \notin Exclude}
      BY DEF Asked, of
    <3>5. QED
      BY <3>2, <3>3, <3>4
  <2>7. QED
    BY <2>6 DEF a
<1>2. ASSUME NEW a \in Asked(FALSE)
      PROVE  \E p \in Runnable[FALSE] : AskedAs(FALSE, p) = a
  <2>0. PICK i \in DOMAIN FileSets :
            /\ FileSets[i].vms <= NumVms
            /\ a \in {[at |-> <<i, j>>, name |-> FileSets[i].tests[j],
                       vms |-> FileSets[i].vms] :
                            j \in DOMAIN FileSets[i].tests}
            /\ a.name \notin Exclude
    BY DEF Asked
  <2>1. PICK j \in DOMAIN FileSets[i].tests :
            a = [at |-> <<i, j>>, name |-> FileSets[i].tests[j],
                 vms |-> FileSets[i].vms]
    BY <2>0
  <2> DEFINE p == <<i, j>>
  <2>2. p \in {i} \X DOMAIN FileSets[i].tests /\ p[1] = i /\ p[2] = j
    BY <2>1
  <2>3. p \in TestSets[FALSE]
    BY <2>1, <2>2 DEF TestSets
  <2>4. p \in Runnable[FALSE]
    BY <2>0, <2>1, <2>2, <2>3 DEF Runnable, TestAt, VmsAt
  <2>5. AskedAs(FALSE, p) = a
    BY <2>1, <2>2 DEF AskedAs, TestAt, VmsAt
  <2>6. QED
    BY <2>4, <2>5
<1>3. QED
  BY <1>1, <1>2

\* Every test that was asked for and can be run has one place.
LEMMA PlacesOfAsked ==
    ASSUME NEW named \in BOOLEAN
    PROVE  /\ \A p \in Runnable[named] : AskedAs(named, p) \in Asked(named)
           /\ \A a \in Asked(named) :
                \E p \in Runnable[named] : AskedAs(named, p) = a
           /\ Cardinality(Asked(named)) = Cardinality(Runnable[named])
<1>1. /\ \A p \in Runnable[named] : AskedAs(named, p) \in Asked(named)
      /\ \A a \in Asked(named) :
            \E p \in Runnable[named] : AskedAs(named, p) = a
  <2>1. CASE named = TRUE
    BY <2>1, NamedPlaces
  <2>2. CASE named = FALSE
    BY <2>2, FilePlaces
  <2>3. QED
    BY <2>1, <2>2
<1>2. ASSUME NEW p \in Runnable[named], NEW q \in Runnable[named],
             AskedAs(named, p) = AskedAs(named, q)
      PROVE  p = q
  <2>1. AskedAs(named, p).at = AskedAs(named, q).at
    BY <1>2
  <2>2. (IF named THEN p[2] ELSE p) = (IF named THEN q[2] ELSE q)
    BY <2>1 DEF AskedAs
  <2>3. CASE named = TRUE
    BY <2>2, <2>3, NamedPlaces
  <2>4. CASE named = FALSE
    BY <2>2, <2>4
  <2>5. QED
    BY <2>3, <2>4
<1> DEFINE f == [p \in Runnable[named] |-> AskedAs(named, p)]
<1>3. f \in Bijection(Runnable[named], Asked(named))
  BY <1>1, <1>2 DEF Bijection, Injection, Surjection, IsInjective
<1>4. ExistsBijection(Runnable[named], Asked(named))
  BY <1>3 DEF ExistsBijection
<1>5. QED
  BY <1>1, <1>4, RunnableFinite, FS_Bijection

-----------------------------------------------------------------------------
(* The steps.                                                              *)

\* Where drbdsetup down succeeds, nothing is up any more.
LEMMA DownAllClean ==
    ASSUME NEW use \in Use
    PROVE  /\ DownAll(use) \in Use
           /\ DownAll(use) \notin Held => DownAll(use) = "none"
BY DEF DownAll, SetupDown, Released, Use, Held

LEMMA InitIInv == Init => IInv
<1> SUFFICES ASSUME Init PROVE IInv
  OBVIOUS
<1>1. NoResults \in Outcomes
  BY DEF NoResults, NoResult, Outcomes, Outcome
<1>2. file \in Seq(Outcomes) /\ (~cut => Begins(file) /\ Len(file) = Earlier)
  <2>1. CASE cut
    BY <2>1, EmptySeq DEF Init
  <2>2. CASE ~cut
    <3>1. file = [n \in 1..Earlier |-> NoResults]
      BY <2>2 DEF Init
    <3>2. QED
      BY <1>1, <3>1, NumbersNat DEF Begins
  <2>3. QED
    BY <2>1, <2>2
<1>3. result_db \in Seq(Outcomes)
  BY EmptySeq DEF Init
<1>4. vms \in [1..NumVms -> Use]
  BY RunnerAssumption DEF Init, Use, Held
<1>5. TypeOK
  <2>1. num_skip \in Nat
    <3>1. MaxSkip \in Nat
      BY RunnerAssumption
    <3>2. num_skip \in 0..MaxSkip
      BY DEF Init
    <3>3. QED
      BY <3>1, <3>2
  <2>2. QED
    BY <1>1, <1>2, <1>3, <1>4, <2>1 DEF Init, TypeOK, Between
<1>6. Processes /\ Clean /\ Counters
  BY DEF Init, Processes, Clean, Counters, Between, InTest
<1>7. ZeroMeansSuccess /\ History /\ Progress
  BY <1>2 DEF Init, ZeroMeansSuccess, History, Progress, InTest
<1>8. QED
  BY <1>5, <1>6, <1>7 DEF IInv

\* Every step keeps the types.
LEMMA TypeStep == ASSUME IInv, Next PROVE TypeOK'
<1> USE DEF IInv, options, counts, test, store, nodes,
        Between, InTest
<1>0. NoResults \in Outcomes
  BY DEF NoResults, NoResult, Outcomes, Outcome
<1>1. CASE Collect
  <2>1. vms' \in [1..NumVms -> Use]
    BY <1>1, DownAllClean, NumbersNat DEF Collect, TypeOK
  <2>2. QED
    BY <1>1, <2>1 DEF Collect, TypeOK
<1>2. CASE BeginIteration
  BY <1>0, <1>2, AdvanceType DEF BeginIteration, TypeOK
<1>3. CASE Skip
  BY <1>3, AdvanceType DEF Skip, TypeOK
<1>4. CASE Prepare
  BY <1>4 DEF Prepare, TypeOK
<1>5. CASE PrepareVm
  <2>1. prepared + 1 \in 1..NumVms
    <3>1. NumUsed \in 0..NumVms /\ prepared < NumUsed /\ prepared \in Nat
      BY <1>5, ThisPlace DEF PrepareVm, Clean, TypeOK
    <3>2. QED
      BY <3>1, NumbersNat
  <2>2. vms' \in [1..NumVms -> Use]
    BY <1>5, <2>1, DownAllClean DEF PrepareVm, TypeOK
  <2>3. QED
    BY <1>5, <2>2 DEF PrepareVm, TypeOK
<1>6. ASSUME NEW v \in 1..NumVms, Loaded(v) PROVE TypeOK'
  BY <1>6 DEF Loaded, TypeOK
<1>7. CASE StartTest
  <2>1. vms' \in [1..NumVms -> Use]
    BY <1>7 DEF StartTest, TypeOK, Use
  <2>2. /\ helper' \in BOOLEAN /\ timeout' \in BOOLEAN
        /\ pc' = "reading" /\ child' = "running"
    BY <1>7 DEF StartTest
  <2>3. num_total' \in Nat
    BY <1>7 DEF StartTest, TypeOK
  <2>4. UNCHANGED <<options, iteration, pos, num_skipped, num_successful,
                    global_exit_code, results, store, prepared>>
    BY <1>7 DEF StartTest
  <2>5. QED
    BY <2>1, <2>2, <2>3, <2>4 DEF TypeOK
<1>8. CASE Crash
  BY <1>8 DEF Crash, TypeOK
<1>9. CASE TestExits
  <2>1. vms' \in [1..NumVms -> Use]
    BY <1>9 DEF TestExits, TypeOK
  <2>2. QED
    BY <1>9, <2>1 DEF TestExits, TypeOK
<1>10. CASE HelperExits
  <2>1. helper' \in BOOLEAN
    BY <1>10 DEF HelperExits
  <2>2. UNCHANGED <<pc, options, iteration, pos, counts, global_exit_code,
                    results, store, child, timeout, nodes>>
    BY <1>10 DEF HelperExits
  <2>3. QED
    BY <2>1, <2>2 DEF TypeOK
<1>11. CASE KillGroup
  <2>1. vms' \in [1..NumVms -> Use]
    BY <1>11 DEF KillGroup, TypeOK
  <2>2. child' \in {"none", "running", "exited", "failed", "killed"}
    BY <1>11 DEF KillGroup, TypeOK
  <2>3. /\ UNCHANGED <<pc, options, iteration, pos, counts>>
        /\ UNCHANGED <<global_exit_code, results, store, timeout, prepared>>
        /\ helper' \in BOOLEAN
    BY <1>11 DEF KillGroup
  <2>4. QED
    BY <2>1, <2>2, <2>3 DEF TypeOK, options, counts, store
<1>12. CASE SetTimeout
  BY <1>12 DEF SetTimeout, TypeOK
<1>13. CASE ReadToEnd
  BY <1>13 DEF ReadToEnd, TypeOK
<1>14. CASE Wait
  <2>1. This \in Test /\ NumUsed \in Nat
    <3>1. This \in Test /\ NumUsed \in 0..NumVms
      BY <1>14, ThisPlace DEF Wait, Clean
    <3>2. QED
      BY <3>1, NumbersNat
  <2>2. Code[child] \in {0, 1, -9}
    <3>1. child \in {"exited", "failed", "killed"}
      BY <1>14 DEF Wait, Processes, TypeOK
    <3>2. QED
      BY <3>1, CodeValues
  <2>3. results' \in Outcomes
    BY <1>14, <2>1, <2>2 DEF Wait, TypeOK, Outcomes, Outcome
  <2>4. QED
    BY <1>14, <2>3 DEF Wait, TypeOK
<1>15. CASE Cancel
  <2>1. This \in Test
    BY <1>15, ThisPlace DEF Cancel, Clean
  <2>2. results' \in Outcomes
    BY <1>15, <2>1 DEF Cancel, TypeOK, Outcomes, Outcome
  <2>3. QED
    BY <1>15, <2>2 DEF Cancel, TypeOK
<1>16. CASE Succeeded
  BY <1>16, AdvanceType DEF Succeeded, TypeOK
<1>17. CASE Failed
  BY <1>17 DEF Failed, TypeOK
<1>18. CASE Cleanup
  <2>1. vms' \in [1..NumVms -> Use]
    BY <1>18, DownAllClean DEF Cleanup, ExcessRemoved, TypeOK
  <2>2. Result.exit_code \in {0, 1, -9}
    BY <1>18, ThisPlace DEF Cleanup, Clean, TypeOK, Outcomes, Outcome, Result
  <2>3. pos' \in Runnable[run] \cup {NoTest}
    BY <1>18, AdvanceType DEF Cleanup, TypeOK
  <2>4. QED
    BY <1>18, <2>1, <2>2, <2>3 DEF Cleanup, ExcessRemoved, TypeOK
<1>19. CASE EndOfTests
  BY <1>19 DEF EndOfTests, TypeOK
<1>20. CASE Record
  BY <1>20 DEF Record, TypeOK
<1>21. CASE Save
  BY <1>21, EmptySeq DEF Save, Emptied, TypeOK
<1>22. CASE Sigint
  BY <1>22, EmptySeq DEF Sigint, Emptied, TypeOK
<1>23. CASE Dump
  <2>1. pc' \in {"done", "interrupted"} /\ file' = result_db /\ cut' = FALSE
    BY <1>23 DEF Dump
  <2>2. /\ run' = run /\ keep_going' = keep_going /\ num_skip' = num_skip
        /\ iteration' = iteration /\ pos' = pos
        /\ num_total' = num_total /\ num_skipped' = num_skipped
        /\ num_successful' = num_successful
        /\ global_exit_code' = global_exit_code /\ results' = results
        /\ exit_code' = exit_code /\ result_db' = result_db
    BY <1>23 DEF Dump
  <2>3. /\ child' = child /\ helper' = helper /\ timeout' = timeout
        /\ vms' = vms /\ prepared' = prepared
    BY <1>23 DEF Dump
  <2>4. file' \in Seq(Outcomes)
    BY <2>1 DEF TypeOK
  <2>5. /\ pc' \in Between \cup InTest \cup {"saving", "stopping", "done",
                                              "crashed", "interrupted"}
        /\ cut' \in BOOLEAN
    BY <2>1
  <2>6. TypeOK
    OBVIOUS
  <2>7. QED
    BY ONLY <2>2, <2>3, <2>4, <2>5, <2>6, ZenonT(30) DEF TypeOK
<1>24. QED
  BY <1>1, <1>2, <1>3, <1>4, <1>5, <1>6, <1>7, <1>8, <1>9, <1>10, <1>11,
     <1>12, <1>13, <1>14, <1>15, <1>16, <1>17, <1>18, <1>19, <1>20, <1>21,
     <1>22, <1>23 DEF Next, MainStep, TimerStep

\* The runner goes on only when the processes of the test are gone.
LEMMA ProcessesStep == ASSUME IInv, Next PROVE Processes'
<1> USE DEF IInv, TypeOK, Processes, test, Between
<1>1. CASE Collect \/ BeginIteration \/ Skip \/ Prepare \/ PrepareVm
  BY <1>1 DEF Collect, BeginIteration, Skip, Prepare, PrepareVm
<1>2. ASSUME NEW v \in 1..NumVms, Loaded(v) PROVE Processes'
  BY <1>2 DEF Loaded
<1>3. CASE StartTest \/ ReadToEnd \/ Wait \/ Cancel
  BY <1>3 DEF StartTest, ReadToEnd, Wait, Cancel
<1>4. CASE TestExits
  BY <1>4 DEF TestExits
<1>5. CASE HelperExits
  BY <1>5 DEF HelperExits
<1>6. CASE KillGroup
  BY <1>6 DEF KillGroup
<1>7. CASE SetTimeout
  BY <1>7 DEF SetTimeout
<1>8. CASE Succeeded \/ Failed \/ EndOfTests \/ Record
  BY <1>8 DEF Succeeded, Failed, EndOfTests, Record
<1>9. CASE Cleanup
  BY <1>9 DEF Cleanup
<1>10. CASE Save \/ Sigint \/ Dump \/ Crash
  BY <1>10 DEF Save, Sigint, Dump, Crash
<1>11. QED
  BY <1>1, <1>2, <1>3, <1>4, <1>5, <1>6, <1>7, <1>8, <1>9, <1>10
     DEF Next, MainStep, TimerStep

\* What cleanup_and_prepare_vms() has made clean stays so until the test.
LEMMA CleanStep == ASSUME IInv, Next PROVE Clean'
<1> USE DEF IInv, Clean, options, nodes, InTest
<1>1. CASE Collect \/ BeginIteration \/ Skip
  BY <1>1 DEF Collect, BeginIteration, Skip
<1>2. CASE Prepare
  <2>1. NumUsed \in 0..NumVms
    BY <1>2, ThisPlace DEF Prepare
  <2>2. NumUsed' = NumUsed /\ prepared' = 0 /\ pos' # NoTest
    BY <1>2 DEF Prepare, NumUsed
  <2>3. QED
    BY <2>1, <2>2, NumbersNat
<1>3. CASE PrepareVm
  <2>1. NumUsed \in 0..NumVms /\ prepared \in Nat /\ prepared < NumUsed
    BY <1>3, ThisPlace DEF PrepareVm, TypeOK
  <2>2. NumUsed' = NumUsed /\ prepared' = prepared + 1 /\ pos' = pos
    BY <1>3 DEF PrepareVm, NumUsed
  <2>3. prepared + 1 \in 1..NumVms /\ \A v \in 1..prepared : v \in 1..NumVms
    BY <2>1, NumbersNat
  <2>4. vms'[prepared + 1] = "none"
    BY <1>3, <2>3, DownAllClean DEF PrepareVm, TypeOK
  <2>5. \A v \in 1..prepared : vms'[v] = "none"
    BY <1>3, <2>1, <2>3 DEF PrepareVm, TypeOK
  <2>6. QED
    BY <1>3, <2>1, <2>2, <2>4, <2>5, NumbersNat DEF PrepareVm
<1>4. ASSUME NEW v \in 1..NumVms, Loaded(v) PROVE Clean'
  BY <1>4 DEF Loaded, NumUsed
<1>5. CASE StartTest \/ ReadToEnd \/ Wait \/ Cancel \/ Failed
  BY <1>5 DEF StartTest, ReadToEnd, Wait, Cancel, Failed
<1>6. CASE TestExits
  <2>1. pc # "prepare"
    BY <1>6 DEF TestExits, Processes, Between
  <2>2. QED
    BY <1>6, <2>1 DEF TestExits
<1>7. CASE HelperExits \/ SetTimeout
  BY <1>7 DEF HelperExits, SetTimeout, NumUsed
<1>8. CASE KillGroup
  <2>1. pc = "prepare" => UNCHANGED <<vms, NumUsed>>
    BY <1>8 DEF KillGroup, Processes, Between, NumUsed
  <2>2. QED
    BY <1>8, <2>1 DEF KillGroup
<1>9. CASE Succeeded \/ EndOfTests \/ Record \/ Cleanup
  BY <1>9 DEF Succeeded, EndOfTests, Record, Cleanup
<1>10. CASE Save \/ Sigint \/ Dump \/ Crash
  BY <1>10 DEF Save, Sigint, Dump, Crash
<1>11. QED
  BY <1>1, <1>2, <1>3, <1>4, <1>5, <1>6, <1>7, <1>8, <1>9, <1>10
     DEF Next, MainStep, TimerStep

\* The counters, and what run_tests() returns.
LEMMA CountersStep == ASSUME IInv, Next PROVE Counters' /\ ZeroMeansSuccess'
<1> USE DEF IInv, TypeOK, options, counts, InTest
<1>1. CASE Collect
  BY <1>1 DEF Collect, Counters, ZeroMeansSuccess
<1>2. CASE BeginIteration
  BY <1>2 DEF BeginIteration, Counters, ZeroMeansSuccess
<1>3. CASE Skip \/ Prepare \/ PrepareVm
  BY <1>3 DEF Skip, Prepare, PrepareVm, Counters, ZeroMeansSuccess
<1>4. ASSUME NEW v \in 1..NumVms, Loaded(v)
      PROVE  Counters' /\ ZeroMeansSuccess'
  BY <1>4 DEF Loaded, store, Counters, ZeroMeansSuccess, Result, This
<1>5. CASE StartTest
  BY <1>5 DEF StartTest, Counters, ZeroMeansSuccess
<1>6. CASE ReadToEnd \/ Wait \/ Cancel
  BY <1>6 DEF ReadToEnd, Wait, Cancel, Counters, ZeroMeansSuccess
<1>7. CASE TestExits \/ HelperExits \/ KillGroup \/ SetTimeout
  <2>1. UNCHANGED <<pc, options, pos, counts, global_exit_code, results,
                    exit_code>>
    BY <1>7 DEF TestExits, HelperExits, KillGroup, SetTimeout, store
  <2>2. Result' = Result
    BY <2>1 DEF Result, This
  <2>3. QED
    BY <2>1, <2>2 DEF Counters, ZeroMeansSuccess
<1>8. CASE Succeeded
  BY <1>8 DEF Succeeded, Counters, ZeroMeansSuccess
<1>9. CASE Failed
  <2>1. Result' = Result
    BY <1>9 DEF Failed, Result, This
  <2>2. QED
    BY <1>9, <2>1 DEF Failed, Counters, ZeroMeansSuccess
<1>10. CASE Cleanup
  <2>1. CASE keep_going
    BY <1>10, <2>1 DEF Cleanup, Counters, ZeroMeansSuccess
  <2>2. CASE ~keep_going
    <3>1. /\ pc' = "returned" /\ exit_code' = Result.exit_code
          /\ UNCHANGED <<options, pos, counts, results>>
      BY <1>10, <2>2 DEF Cleanup
    <3>2. Result' = Result
      BY <3>1 DEF Result, This
    <3>3. num_total = num_successful + 1
          /\ (Result.timeout \/ Result.exit_code # 0)
      BY <1>10, <2>2 DEF Cleanup, Counters
    <3>4. QED
      BY <2>2, <3>1, <3>2, <3>3 DEF Counters, ZeroMeansSuccess
  <2>3. QED
    BY <2>1, <2>2
<1>11. CASE EndOfTests
  BY <1>11 DEF EndOfTests, Counters, ZeroMeansSuccess
<1>12. CASE Record \/ Save \/ Sigint \/ Dump \/ Crash
  BY <1>12 DEF Record, Save, Sigint, Dump, Crash, Counters, ZeroMeansSuccess
<1>13. QED
  BY <1>1, <1>2, <1>3, <1>4, <1>5, <1>6, <1>7, <1>8, <1>9, <1>10, <1>11,
     <1>12 DEF Next, MainStep, TimerStep

\* The file and its copy in memory.
LEMMA HistoryStep == ASSUME IInv, Next PROVE History'
<1> USE DEF IInv, History, Begins, store
<1>1. CASE Collect
  BY <1>1, NumbersNat DEF Collect, TypeOK
<1>2. CASE BeginIteration \/ Skip \/ Prepare \/ PrepareVm \/ StartTest
  BY <1>2 DEF BeginIteration, Skip, Prepare, PrepareVm, StartTest
<1>3. ASSUME NEW v \in 1..NumVms, Loaded(v) PROVE History'
  BY <1>3 DEF Loaded
<1>4. CASE TestExits \/ HelperExits \/ KillGroup \/ SetTimeout
  BY <1>4 DEF TestExits, HelperExits, KillGroup, SetTimeout
<1>5. CASE ReadToEnd \/ Wait \/ Cancel \/ Succeeded \/ Failed
  BY <1>5 DEF ReadToEnd, Wait, Cancel, Succeeded, Failed
<1>6. CASE Cleanup \/ EndOfTests
  BY <1>6 DEF Cleanup, EndOfTests
<1>7. CASE Record
  <2>1. /\ result_db' \in Seq(Outcomes)
        /\ Len(result_db') = Len(result_db) + 1
        /\ \A n \in 1..Len(result_db) : result_db'[n] = result_db[n]
    BY <1>7 DEF Record, TypeOK
  <2>2. Len(result_db) = Earlier + iteration /\ Begins(result_db)
    BY <1>7 DEF Record
  <2>3. /\ pc' = "iterate" /\ iteration' = iteration + 1
        /\ file' = file /\ cut' = cut
        /\ Len(result_db) \in Nat /\ iteration \in Nat
    BY <1>7 DEF Record, TypeOK
  <2>4. Len(result_db') = Earlier + iteration' /\ Begins(result_db')
    BY <2>1, <2>2, <2>3, NumbersNat
  <2>5. ~cut /\ Begins(file)
    BY <1>7 DEF Record
  <2>6. QED
    BY <2>3, <2>4, <2>5
<1>8. CASE Save \/ Sigint
  BY <1>8 DEF Save, Sigint, Emptied
<1>9. CASE Dump
  BY <1>9 DEF Dump
<1>10. CASE Crash
  BY <1>10 DEF Crash
<1>11. QED
  BY <1>1, <1>2, <1>3, <1>4, <1>5, <1>6, <1>7, <1>8, <1>9, <1>10
     DEF Next, MainStep, TimerStep

\* The place of a test that has been started or passed over.
LEMMA PassOver ==
    ASSUME TypeOK, pos # NoTest, Advance(pos)
    PROVE  /\ pos \in Runnable[run] /\ pos \notin PastOf(run, pos)
           /\ Ranked(run, pos) \in Nat
           /\ PastOf(run, pos') = PastOf(run, pos) \cup {pos}
           /\ Ranked(run, pos') = Ranked(run, pos) + 1
<1>1. run \in BOOLEAN /\ pos \in Runnable[run]
  BY DEF TypeOK
<1>2. /\ IsFiniteSet(PastOf(run, pos)) /\ Ranked(run, pos) \in Nat
      /\ pos \notin PastOf(run, pos)
  BY <1>1, PastFinite
<1>3. PastOf(run, pos') = PastOf(run, pos) \cup {pos}
  BY <1>1, NextPlace
<1>4. QED
  BY <1>1, <1>2, <1>3, FS_AddElement DEF Ranked

LEMMA ProgressSkip == ASSUME IInv, Skip PROVE Progress'
<1> DEFINE old == {p \in PastOf(run, pos) : Ranked(run, p) < num_skip}
           new == {p \in PastOf(run, pos') : Ranked(run, p) < num_skip}
<1>1. /\ TypeOK /\ pos # NoTest /\ Advance(pos)
      /\ num_total + num_skipped < num_skip
      /\ num_skipped' = num_skipped + 1 /\ pc' = "next"
      /\ UNCHANGED <<run, num_skip, num_total, results>>
  BY DEF IInv, Skip, options
<1>2. /\ Tally(0) /\ Recorded(PastOf(run, pos))
  BY DEF IInv, Skip, Progress, InTest, Settled
<1>3. /\ pos \in Runnable[run] /\ pos \notin PastOf(run, pos)
      /\ Ranked(run, pos) \in Nat
      /\ PastOf(run, pos') = PastOf(run, pos) \cup {pos}
      /\ Ranked(run, pos') = Ranked(run, pos) + 1
  BY <1>1, PassOver
<1>4. Ranked(run, pos) < num_skip
  BY <1>1, <1>2, <1>3 DEF Tally, TypeOK
<1>5. new = old \cup {pos} /\ pos \notin old
  BY <1>3, <1>4
<1>6. IsFiniteSet(old) /\ Cardinality(old) = num_skipped
  <2>1. IsFiniteSet(PastOf(run, pos)) /\ old \subseteq PastOf(run, pos)
    BY <1>1, PastFinite DEF TypeOK
  <2>2. QED
    BY <1>2, <2>1, FS_Subset DEF Tally
<1>7. Cardinality(new) = num_skipped + 1
  BY <1>5, <1>6, FS_AddElement
<1>8. Tally(0)'
  <2>1. num_skipped' <= num_skip' /\ ~(num_total' > 0)
    BY <1>1, <1>2 DEF Tally, TypeOK
  <2>2. num_total' + num_skipped' = Ranked(run, pos)' + 0
    BY <1>1, <1>2, <1>3 DEF Tally, TypeOK
  <2>3. num_skipped' = Cardinality({p \in PastOf(run, pos) :
                                    Ranked(run, p) < num_skip})'
    BY <1>1, <1>7
  <2>4. QED
    BY <2>1, <2>2, <2>3 DEF Tally
<1>9. Recorded(PastOf(run, pos))'
  <2>1. \A p \in PastOf(run, pos') :
            Ranked(run, p) >= num_skip => p \in PastOf(run, pos)
    BY <1>1, <1>3, <1>4 DEF TypeOK
  <2>2. PastOf(run, pos) \subseteq PastOf(run, pos')
    BY <1>3
  <2>3. QED
    BY <1>1, <1>2, <2>1, <2>2 DEF Recorded
<1>10. QED
  BY <1>1, <1>8, <1>9 DEF Progress, Settled, InTest

\* A test has been judged, and the next one is looked for.
LEMMA ProgressAdvance ==
    ASSUME IInv, pc \in {"judge", "cleanup"}, pc' = "next", Advance(pos),
           UNCHANGED <<run, num_skip, num_total, num_skipped, results>>
    PROVE  Progress'
<1>1. TypeOK /\ pos # NoTest
  BY DEF IInv, Clean, InTest
<1>2. /\ Tally(1) /\ Recorded(PastOf(run, pos) \cup {pos})
      /\ Ranked(run, pos) >= num_skip
  BY DEF IInv, Progress, InTest, Settled
<1>3. /\ pos \in Runnable[run] /\ pos \notin PastOf(run, pos)
      /\ Ranked(run, pos) \in Nat
      /\ PastOf(run, pos') = PastOf(run, pos) \cup {pos}
      /\ Ranked(run, pos') = Ranked(run, pos) + 1
  BY <1>1, PassOver
<1>4. {p \in PastOf(run, pos') : Ranked(run, p) < num_skip}
      = {p \in PastOf(run, pos) : Ranked(run, p) < num_skip}
  BY <1>1, <1>2, <1>3 DEF TypeOK
<1>5. Tally(0)'
  <2>1. num_total' + num_skipped' = Ranked(run, pos)' + 0
    BY <1>1, <1>2, <1>3 DEF Tally, TypeOK
  <2>2. num_skipped' = Cardinality({p \in PastOf(run, pos) :
                                    Ranked(run, p) < num_skip})'
    BY <1>2, <1>4 DEF Tally
  <2>3. QED
    BY <1>2, <2>1, <2>2 DEF Tally
<1>6. Recorded(PastOf(run, pos))'
  BY <1>2, <1>3 DEF Recorded
<1>7. QED
  BY <1>5, <1>6 DEF Progress, Settled, InTest

LEMMA ProgressStart == ASSUME IInv, StartTest PROVE Progress'
<1>1. /\ pc = "prepare" /\ pc' = "reading" /\ num_total' = num_total + 1
      /\ UNCHANGED <<run, num_skip, num_skipped, pos, results>>
  BY DEF StartTest, options
<1>2. /\ Tally(0) /\ Recorded(PastOf(run, pos))
      /\ Ranked(run, pos) >= num_skip
      /\ TypeOK
  BY <1>1 DEF IInv, Progress, InTest, Settled
<1>3. Ranked(run, pos) \in Nat
  BY <1>2, PastFinite DEF TypeOK
<1>4. num_skipped = num_skip
  <2>1. num_total + num_skipped >= num_skip
    BY <1>2, <1>3 DEF Tally, TypeOK
  <2>2. QED
    BY <1>2, <2>1 DEF Tally, TypeOK
<1>5. Tally(1)'
  BY <1>1, <1>2, <1>3, <1>4 DEF Tally, TypeOK
<1>6. Recorded(PastOf(run, pos))'
  BY <1>1, <1>2 DEF Recorded
<1>7. QED
  BY <1>1, <1>2, <1>5, <1>6 DEF Progress, Settled, InTest

\* The result of a test, before and after the flag was read.
LEMMA ProgressResult == ASSUME IInv, Wait \/ Cancel PROVE Progress'
<1> DEFINE past == PastOf(run, pos)
<1>1. /\ pc \in {"wait", "cancel"} /\ pc' \in {"cancel", "judge"}
      /\ UNCHANGED <<run, num_skip, num_total, num_skipped, pos>>
  BY DEF Wait, Cancel, options, counts
<1>2. /\ TypeOK /\ pos # NoTest
      /\ Tally(1) /\ Ranked(run, pos) >= num_skip
  BY <1>1 DEF IInv, Clean, Progress, InTest
<1>3. Recorded(past) \/ Recorded(past \cup {pos})
  BY <1>1 DEF IInv, Progress, Settled, InTest
<1>4. This \in Test /\ NumUsed \in 0..NumVms
  BY <1>2, ThisPlace
<1>5. /\ results'[This] # NoResult /\ results'[This].nodes = NumUsed
      /\ \A t \in Test \ {This} : results'[t] = results[t]
  <2>1. CASE Wait
    <3>1. results'[This] = [exit_code |-> Code[child], timeout |-> FALSE,
                            nodes |-> NumUsed]
      BY <1>2, <1>4, <2>1 DEF Wait, TypeOK, Outcomes
    <3>2. results'[This].nodes # NoResult.nodes
      BY <1>4, <3>1, NumbersNat DEF NoResult
    <3>3. \A t \in Test \ {This} : results'[t] = results[t]
      BY <1>2, <2>1 DEF Wait, TypeOK, Outcomes
    <3>4. QED
      BY <3>1, <3>2, <3>3
  <2>2. CASE Cancel
    <3>1. /\ results' = [results EXCEPT ![This].timeout = timeout]
          /\ results \in Outcomes
      BY <1>2, <2>2 DEF Cancel, TypeOK
    <3>2. \A t \in Test \ {This} : results'[t] = results[t]
      BY <3>1 DEF Outcomes
    <3>3. results'[This].nodes = results[This].nodes
      BY <1>4, <3>1 DEF Outcomes, Outcome
    <3>4. results[This].nodes = NumUsed
      BY <2>2 DEF IInv, Progress, InTest, Cancel, Result
    <3>5. results'[This].nodes # NoResult.nodes
      BY <1>4, <3>3, <3>4, NumbersNat DEF NoResult
    <3>6. QED
      BY <3>2, <3>3, <3>4, <3>5
  <2>3. QED
    BY <2>1, <2>2
<1>6. pos \in past \cup {pos} /\ This = TestAt(run, pos)
      /\ NumUsed = VmsAt(run, pos)
  BY DEF This, NumUsed
<1>7. \A p \in past : TestAt(run, p) \in Test
  BY <1>2, PastFinite, RunnablePlaces DEF TypeOK
<1>8. Recorded(past \cup {pos})'
  <2>1. \A p \in past \cup {pos} : Ranked(run, p) >= num_skip
            => results'[TestAt(run, p)] # NoResult
    BY <1>3, <1>5, <1>6, <1>7 DEF Recorded
  <2>2. \A t \in Test : results'[t] # NoResult =>
            \E p \in past \cup {pos} : /\ t = TestAt(run, p)
                                       /\ results'[t].nodes = VmsAt(run, p)
    BY <1>3, <1>5, <1>6 DEF Recorded
  <2>3. QED
    BY <1>1, <2>1, <2>2 DEF Recorded
<1>9. Tally(1)'
  BY <1>1, <1>2 DEF Tally
<1>10. Result'.nodes = NumUsed'
  BY <1>1, <1>5 DEF Result, This, NumUsed
<1>11. QED
  BY <1>1, <1>2, <1>8, <1>9, <1>10 DEF Progress, Settled, InTest

\* Steps that leave places, counters and results alone.
LEMMA ProgressSame ==
    ASSUME Progress,
           UNCHANGED <<run, num_skip, num_total, num_skipped, pos, results>>,
           \/ pc' = pc
           \/ pc = "reading" /\ pc' = "wait"
           \/ pc = "judge" /\ pc' = "cleanup"
           \/ pc = "next" /\ pos = NoTest /\ pc' = "returned"
    PROVE  Progress'
<1>1. /\ Tally(0)' <=> Tally(0)
      /\ Tally(1)' <=> Tally(1)
  BY DEF Tally
<1>2. Settled' = Settled /\ Result' = Result /\ NumUsed' = NumUsed
  BY DEF Settled, Result, This, NumUsed
<1>3. Recorded(Settled)' <=> Recorded(Settled)
  BY <1>2 DEF Recorded
<1>4. pc' \in InTest <=> pc \in InTest
  BY DEF InTest
<1>5. QED
  BY <1>1, <1>2, <1>3, <1>4 DEF Progress, InTest

LEMMA ProgressStep == ASSUME IInv, Next PROVE Progress'
<1> USE DEF IInv, options, counts, InTest
<1>2. ASSUME pc' \notin {"next", "prepare", "returned"} \cup InTest
      PROVE  Progress'
  BY <1>2 DEF Progress
<1>3. CASE Collect \/ Record \/ Save \/ Sigint \/ Dump \/ Crash
  BY <1>2, <1>3 DEF Collect, Record, Save, Sigint, Dump, Crash
<1>4. CASE BeginIteration
  <2>1. /\ PastOf(run, pos') = {} /\ run' = run /\ pc' = "next"
        /\ num_total' = 0 /\ num_skipped' = 0 /\ results' = NoResults
        /\ num_skip' \in Nat
    BY <1>4, FirstPlace DEF BeginIteration, TypeOK
  <2>2. Ranked(run, pos)' = 0
    BY <2>1, FS_EmptySet DEF Ranked
  <2>3. Cardinality({p \in PastOf(run, pos) : Ranked(run, p) < num_skip})' = 0
    <3>1. {p \in PastOf(run, pos) : Ranked(run, p) < num_skip}' = {}
      BY <2>1
    <3>2. QED
      BY <3>1, FS_EmptySet
  <2>4. Tally(0)'
    BY <2>1, <2>2, <2>3 DEF Tally
  <2>5. Recorded(PastOf(run, pos))'
    BY <2>1 DEF Recorded, NoResults
  <2>6. QED
    BY <2>1, <2>4, <2>5 DEF Progress, Settled
<1>5. CASE Skip
  BY <1>5, ProgressSkip
<1>6. CASE Prepare
  <2>1. /\ pc = "next" /\ pc' = "prepare"
        /\ num_total + num_skipped >= num_skip
        /\ UNCHANGED <<run, num_skip, num_total, num_skipped, pos, results>>
    BY <1>6 DEF Prepare
  <2>2. /\ Tally(0) /\ Recorded(PastOf(run, pos))
    BY <2>1 DEF Progress, Settled
  <2>3. Ranked(run, pos) \in Nat
    BY PastFinite DEF TypeOK
  <2>4. Ranked(run, pos) >= num_skip
    BY <2>1, <2>2, <2>3 DEF Tally, TypeOK
  <2>5. Tally(0)' /\ Recorded(PastOf(run, pos))'
    BY <2>1, <2>2 DEF Tally, Recorded
  <2>6. QED
    BY <2>1, <2>4, <2>5 DEF Progress, Settled
<1>7. CASE PrepareVm \/ ReadToEnd \/ Failed \/ EndOfTests
  BY <1>7, ProgressSame DEF PrepareVm, ReadToEnd, Failed, EndOfTests
<1>8. ASSUME NEW v \in 1..NumVms, Loaded(v) PROVE Progress'
  BY <1>8, ProgressSame DEF Loaded
<1>9. CASE TestExits \/ HelperExits \/ KillGroup \/ SetTimeout
  BY <1>9, ProgressSame DEF TestExits, HelperExits, KillGroup, SetTimeout
<1>10. CASE StartTest
  BY <1>10, ProgressStart
<1>11. CASE Wait \/ Cancel
  BY <1>11, ProgressResult
<1>12. CASE Succeeded
  BY <1>12, ProgressAdvance DEF Succeeded
<1>13. CASE Cleanup
  <2>1. CASE keep_going
    BY <1>13, <2>1, ProgressAdvance DEF Cleanup
  <2>2. CASE ~keep_going
    <3>1. pc' = "returned" /\ pos' = pos /\ pos # NoTest
      BY <1>13, <2>2 DEF Cleanup, Clean
    <3>2. QED
      BY <3>1 DEF Progress
  <2>3. QED
    BY <2>1, <2>2
<1>14. QED
  BY <1>3, <1>4, <1>5, <1>6, <1>7, <1>8, <1>9, <1>10, <1>11, <1>12, <1>13
     DEF Next, MainStep, TimerStep

LEMMA NextIInv == IInv /\ [Next]_vars => IInv'
<1> SUFFICES ASSUME IInv, [Next]_vars PROVE IInv'
  OBVIOUS
<1>1. CASE Next
  BY <1>1, TypeStep, ProcessesStep, CleanStep, CountersStep, HistoryStep,
     ProgressStep DEF IInv
<1>2. CASE UNCHANGED vars
  <2> USE <1>2 DEF vars, options, counts, test, store, nodes
  <2>1. TypeOK' /\ Processes' /\ History'
    BY DEF IInv, TypeOK, Processes, History, Begins
  <2>2. Result' = Result /\ NumUsed' = NumUsed
    BY DEF Result, This, NumUsed
  <2>3. Clean' /\ Counters' /\ ZeroMeansSuccess'
    BY <2>2 DEF IInv, Clean, Counters, ZeroMeansSuccess
  <2>4. Progress'
    BY ProgressSame DEF IInv
  <2>5. QED
    BY <2>1, <2>3, <2>4 DEF IInv
<1>3. QED
  BY <1>1, <1>2

LEMMA AlwaysIInv == Spec => []IInv
BY InitIInv, NextIInv, PTL DEF Spec

-----------------------------------------------------------------------------
(* The theorems.                                                           *)

\* An iteration that comes to its end has run each test that was asked for and
\* fits the VMs, but for the first ones, which it was to skip, and has results
\* of those tests only (generate_test_set, run_tests).
THEOREM AllAlwaysRun == Spec => []AllRun
<1>1. IInv => AllRun
  <2> DEFINE number == Cardinality(Asked(run))
             ran == {t \in Test : results[t] # NoResult}
             names == {a.name : a \in Asked(run)} \ ran
             skipped == {p \in Runnable[run] : Ranked(run, p) < num_skip}
  <2>1. SUFFICES ASSUME IInv, pc = "returned", pos = NoTest
                 PROVE
            /\ num_skipped = (IF num_skip < number THEN num_skip ELSE number)
            /\ num_total = number - num_skipped
            /\ \A t \in ran : \E a \in Asked(run) :
                    t = a.name /\ results[t].nodes = a.vms
            /\ Cardinality(names) <= num_skipped
    BY DEF AllRun
  <2>2. /\ Tally(0) /\ Recorded(Runnable[run]) /\ TypeOK
        /\ PastOf(run, pos) = Runnable[run]
    BY <2>1 DEF IInv, Progress, InTest, Settled, PastOf
  <2>3. /\ \A p \in Runnable[run] : AskedAs(run, p) \in Asked(run)
        /\ \A a \in Asked(run) :
            \E p \in Runnable[run] : AskedAs(run, p) = a
        /\ number = Cardinality(Runnable[run])
    BY <2>2, PlacesOfAsked DEF TypeOK
  <2>4. number \in Nat /\ Ranked(run, pos) = number
    BY <2>2, <2>3, RunnableFinite, FS_CardinalityType DEF TypeOK, Ranked
  <2>5. /\ num_skipped <= num_skip /\ num_total + num_skipped = number
        /\ num_total > 0 => num_skipped = num_skip
        /\ num_skipped = Cardinality(skipped)
        /\ num_skip \in Nat /\ num_skipped \in Nat /\ num_total \in Nat
    BY <2>2, <2>4 DEF Tally, TypeOK
  <2>6. /\ num_skipped = (IF num_skip < number THEN num_skip ELSE number)
        /\ num_total = number - num_skipped
    <3> HIDE DEF number, skipped
    <3>1. QED
      BY <2>4, <2>5
  <2>7. \A t \in ran : \E a \in Asked(run) :
                    t = a.name /\ results[t].nodes = a.vms
    <3>1. SUFFICES ASSUME NEW t \in ran
                   PROVE  \E a \in Asked(run) :
                            t = a.name /\ results[t].nodes = a.vms
      OBVIOUS
    <3>2. PICK p \in Runnable[run] : t = TestAt(run, p)
                                     /\ results[t].nodes = VmsAt(run, p)
      BY <2>2 DEF Recorded
    <3>3. AskedAs(run, p) \in Asked(run)
      BY <2>3
    <3>4. AskedAs(run, p).name = t /\ AskedAs(run, p).vms = results[t].nodes
      BY <3>2 DEF AskedAs
    <3>5. QED
      BY <3>3, <3>4
  <2>8. Cardinality(names) <= num_skipped
    <3>1. IsFiniteSet(skipped)
      BY <2>2, RunnableFinite, FS_Subset DEF TypeOK
    <3> DEFINE image == {TestAt(run, p) : p \in skipped}
               f == [p \in skipped |-> TestAt(run, p)]
    <3>2. f \in Surjection(skipped, image)
      BY DEF Surjection
    <3>3. IsFiniteSet(image) /\ Cardinality(image) <= num_skipped
      BY <2>5, <3>1, <3>2, FS_Surjection
    <3>4. names \subseteq image
      <4>1. SUFFICES ASSUME NEW t \in names PROVE t \in image
        OBVIOUS
      <4>2. PICK a \in Asked(run) : t = a.name
        BY <4>1
      <4>3. PICK p \in Runnable[run] : AskedAs(run, p) = a
        BY <2>3
      <4>4. t = TestAt(run, p)
        BY <4>2, <4>3 DEF AskedAs
      <4>5. t \in Test
        BY <2>2, <4>4, RunnablePlaces DEF TypeOK
      <4>6. results[t] = NoResult
        BY <4>1, <4>5
      <4>7. Ranked(run, p) \in Nat
        BY <2>2, PastFinite DEF TypeOK
      <4>8. Ranked(run, p) < num_skip
        BY <2>2, <2>5, <4>4, <4>6, <4>7 DEF Recorded
      <4>9. QED
        BY <4>4, <4>8
    <3> HIDE DEF names, image
    <3>5. Cardinality(names) <= Cardinality(image)
      BY <3>3, <3>4, FS_Subset
    <3>6. IsFiniteSet(names) /\ Cardinality(names) \in Nat
          /\ Cardinality(image) \in Nat
      BY <3>3, <3>4, FS_Subset, FS_CardinalityType
    <3>7. QED
      BY <2>5, <3>3, <3>5, <3>6
  <2>9. QED
    BY <2>6, <2>7, <2>8
<1>2. QED
  BY <1>1, AlwaysIInv, PTL

\* Two tests never use the VMs at the same time: the runner goes on only when
\* the script and its helpers are gone (run_with_progress).
THEOREM OneTestAlwaysAtATime == Spec => []OneTestAtATime
<1>1. IInv => OneTestAtATime
  BY DEF IInv, Processes, OneTestAtATime, Between
<1>2. QED
  BY <1>1, AlwaysIInv, PTL

\* Without --keep-going no test is started after one that failed (run_tests).
THEOREM AlwaysFailFast == Spec => []FailFast
<1>1. IInv => FailFast
  BY DEF IInv, TypeOK, Counters, FailFast, InTest
<1>2. QED
  BY <1>1, AlwaysIInv, PTL

\* A return value of 0 of run_tests() means that every test was successful, but
\* for a last one that the timer stopped after its script had exited with 0.
THEOREM ZeroAlwaysMeansSuccess == Spec => []ZeroMeansSuccess
<1>1. IInv => ZeroMeansSuccess
  BY DEF IInv
<1>2. QED
  BY <1>1, AlwaysIInv, PTL

\* Every test starts on VMs that are clean and have the module loaded,
\* whatever was left on them before (cleanup_and_prepare_vms).
THEOREM TestAlwaysStartsClean == Spec => TestStartsClean
<1>1. ASSUME IInv, [Next]_vars, pc = "prepare", pc' = "reading"
      PROVE  \A v \in Used : vms[v] = "none" /\ v \notin loading
  <2>1. StartTest
    BY <1>1 DEF vars, Next, MainStep, TimerStep, Collect, BeginIteration,
       Skip, Prepare, PrepareVm, ReadToEnd, Wait, Cancel, Succeeded, Failed,
       Cleanup, EndOfTests, Record, Save, KillGroup, SetTimeout, Crash,
       TestExits, HelperExits, Sigint, Dump, Loaded
  <2>2. prepared = NumUsed /\ loading = {}
    BY <2>1 DEF StartTest, WaitAll
  <2>3. \A v \in 1..prepared : vms[v] = "none"
    BY <1>1 DEF IInv, Clean
  <2>4. QED
    BY <2>2, <2>3 DEF Used
<1>2. IInv /\ [Next]_vars =>
        [pc = "prepare" /\ pc' = "reading" =>
            \A v \in Used : vms[v] = "none" /\ v \notin loading]_vars
  BY <1>1
<1>3. QED
  BY <1>2, AlwaysIInv, PTL DEF Spec, TestStartsClean

\* result_db.json keeps the results of earlier runs, for as long as no runner
\* dies between emptying and filling it, and has those of every completed
\* iteration when the runner ends or was interrupted (main, sigint_handler).
THEOREM HistoryAlwaysKept == Spec => []HistoryKept
<1>1. IInv => HistoryKept
  BY DEF IInv, History, HistoryKept, Begins
<1>2. QED
  BY <1>1, AlwaysIInv, PTL

-----------------------------------------------------------------------------
(* CiSelection: the order of versions.                                     *)

Element == -3..Inf

\* The versions without words.
Numbers == {v \in Seq(Element) : Numeric(v)}

\* A digit is a number, above 0 exactly up to the end or the '*'.
LEMMA DigitNat ==
    ASSUME NEW v \in Numbers, NEW i \in Nat \ {0}
    PROVE  /\ Digit(v, i) \in Nat
           /\ Digit(v, i) > 0 => i \in DOMAIN v
<1>1. Inf \in Nat
  BY CiAssumption
<1>2. i \in DOMAIN v => v[i] \in Element /\ (v[i] >= 0 \/ v[i] = Star)
  BY <1>1 DEF Numbers, Numeric, IsStr, Element
<1>3. DOMAIN v = 1..Len(v) /\ Len(v) \in Nat
  BY DEF Numbers
<1>4. i \in DOMAIN v => v[i] + 1 \in Nat \/ v[i] = Star
  BY <1>1, <1>2 DEF Element
<1>5. QED
  BY <1>1, <1>3, <1>4 DEF Digit

\* Where two versions differ first.
LEMMA FirstDifference ==
    ASSUME NEW v \in Numbers, NEW w \in Numbers, NEW n \in Nat,
           \E i \in 1..n : Digit(v, i) # Digit(w, i)
    PROVE  \E i \in 1..n : /\ Digit(v, i) # Digit(w, i)
                           /\ \A j \in 1..(i - 1) : Digit(v, j) = Digit(w, j)
<1> DEFINE D == {i \in 1..n : Digit(v, i) # Digit(w, i)}
<1>1. PICK i \in D : \A j \in D : i <= j
  <2>1. D \subseteq Nat /\ D # {}
    OBVIOUS
  <2> HIDE DEF D
  <2>2. QED
    BY <2>1, Least
<1>2. \A j \in 1..(i - 1) : j \in 1..n /\ j \notin D
  BY <1>1
<1>3. QED
  BY <1>1, <1>2

\* The first digit that differs decides.
LEMMA BelowAt ==
    ASSUME NEW v \in Numbers, NEW w \in Numbers, NEW i \in Nat \ {0},
           \A j \in 1..(i - 1) : Digit(v, j) = Digit(w, j)
    PROVE  /\ Digit(v, i) < Digit(w, i) => Below(v, w)
           /\ Digit(v, i) > Digit(w, i) => ~Below(v, w)
<1>1. Digit(v, i) \in Nat /\ Digit(w, i) \in Nat
  BY DigitNat
<1>2. Digit(v, i) < Digit(w, i) => Below(v, w)
  BY <1>1, DigitNat DEF Below
<1>3. ASSUME Digit(v, i) > Digit(w, i), Below(v, w)  PROVE FALSE
  <2>1. PICK k \in DOMAIN w :
            /\ Digit(v, k) < Digit(w, k)
            /\ \A j \in 1..(k - 1) : Digit(v, j) = Digit(w, j)
    BY <1>3 DEF Below
  <2>2. k \in Nat \ {0}
    BY DEF Numbers
  <2>3. Digit(v, k) \in Nat /\ Digit(w, k) \in Nat
    BY <2>2, DigitNat
  <2>4. k < i \/ k = i \/ i < k
    BY <2>2
  <2>5. k < i => k \in 1..(i - 1)
    BY <2>2
  <2>6. i < k => i \in 1..(k - 1)
    BY <2>2
  <2>7. QED
    BY <1>1, <1>3, <2>1, <2>3, <2>4, <2>5, <2>6
<1>4. QED
  BY <1>2, <1>3

\* Below is a strict order of numbers: it is asymmetric, and what is between
\* two others is above the one or below the other.
LEMMA BelowAsymmetric ==
    ASSUME NEW v \in Numbers, NEW w \in Numbers, Below(v, w)
    PROVE  ~Below(w, v)
<1>1. PICK k \in DOMAIN w : /\ Digit(v, k) < Digit(w, k)
                            /\ \A j \in 1..(k - 1) : Digit(v, j) = Digit(w, j)
  BY DEF Below
<1>2. k \in Nat \ {0}
  BY DEF Numbers
<1>3. Digit(v, k) \in Nat /\ Digit(w, k) \in Nat
  BY <1>2, DigitNat
<1>4. Digit(w, k) > Digit(v, k)
  BY <1>1, <1>3
<1>5. \A j \in 1..(k - 1) : Digit(w, j) = Digit(v, j)
  BY <1>1
<1>6. QED
  BY <1>2, <1>4, <1>5, BelowAt

LEMMA BelowCut ==
    ASSUME NEW u \in Numbers, NEW v \in Numbers, NEW w \in Numbers,
           Below(u, w)
    PROVE  Below(u, v) \/ Below(v, w)
<1>1. PICK k \in DOMAIN w : /\ Digit(u, k) < Digit(w, k)
                            /\ \A j \in 1..(k - 1) : Digit(u, j) = Digit(w, j)
  BY DEF Below
<1>2. k \in Nat \ {0} /\ k - 1 \in Nat
  BY DEF Numbers
<1>3. \A i \in Nat \ {0} :
            {Digit(u, i), Digit(v, i), Digit(w, i)} \subseteq Nat
  BY DigitNat
<1>4. CASE \A j \in 1..(k - 1) : Digit(u, j) = Digit(v, j)
  <2>1. \A j \in 1..(k - 1) : Digit(v, j) = Digit(w, j)
    BY <1>1, <1>4
  <2>2. Digit(u, k) < Digit(v, k) \/ Digit(v, k) < Digit(w, k)
    BY <1>1, <1>2, <1>3
  <2>3. QED
    BY <1>2, <1>4, <2>1, <2>2, BelowAt
<1>5. CASE \E j \in 1..(k - 1) : Digit(u, j) # Digit(v, j)
  <2>1. PICK i \in 1..(k - 1) :
            /\ Digit(u, i) # Digit(v, i)
            /\ \A j \in 1..(i - 1) : Digit(u, j) = Digit(v, j)
    <3> DEFINE n == k - 1
    <3>1. n \in Nat /\ \E j \in 1..n : Digit(u, j) # Digit(v, j)
      BY <1>2, <1>5
    <3> HIDE DEF n
    <3>2. \E i \in 1..n :
            /\ Digit(u, i) # Digit(v, i)
            /\ \A j \in 1..(i - 1) : Digit(u, j) = Digit(v, j)
      BY SMTT(30), <3>1, FirstDifference
    <3>3. QED
      BY <3>2 DEF n
  <2>2. i \in Nat \ {0} /\ \A j \in 1..(i - 1) : j \in 1..(k - 1)
    BY <1>2, <2>1
  <2>3. Digit(u, i) = Digit(w, i)
    BY <1>1, <2>1
  <2>4. \A j \in 1..(i - 1) : Digit(v, j) = Digit(w, j)
    BY <1>1, <2>1, <2>2
  <2>5. Digit(u, i) < Digit(v, i) \/ Digit(v, i) < Digit(w, i)
    BY <1>3, <2>1, <2>2, <2>3
  <2>6. QED
    BY <2>1, <2>2, <2>4, <2>5, BelowAt
<1>6. QED
  BY <1>4, <1>5

\* Where the loop of is_lower() ends.
LEMMA DecidesAt ==
    ASSUME NEW v \in Numbers, NEW w \in Numbers
    PROVE  LET i == Decides(v, w)
               Ends(j) == j > Len(v) \/ Star \in {v[j], w[j]} \/ v[j] # w[j]
           IN  \/ i = 0 /\ \A j \in DOMAIN w : ~Ends(j)
               \/ /\ i \in DOMAIN w /\ Ends(i)
                  /\ \A j \in 1..(i - 1) : j \in DOMAIN w /\ ~Ends(j)
<1> DEFINE Ends(j) == j > Len(v) \/ Star \in {v[j], w[j]} \/ v[j] # w[j]
           E == {j \in DOMAIN w : Ends(j)}
           i == Decides(v, w)
<1> HIDE DEF Ends, E
<1>1. i = IF E = {} THEN 0 ELSE Min(E)
  BY DEF Decides, E, Ends
<1>2. E \subseteq DOMAIN w /\ DOMAIN w = 1..Len(w) /\ Len(w) \in Nat
  BY DEF E, Numbers
<1>3. CASE E = {}
  BY <1>1, <1>3 DEF E, Ends
<1>4. CASE E # {}
  <2>1. E \subseteq Nat
    BY <1>2
  <2>2. i \in E /\ \A j \in E : i <= j
    BY <1>1, <1>4, <2>1, Least DEF Min
  <2>3. \A j \in 1..(i - 1) : j \in DOMAIN w /\ j \notin E
    BY <1>2, <2>2
  <2>4. QED
    BY <2>2, <2>3 DEF E, Ends
<1>5. QED
  BY <1>3, <1>4

\* is_lower() is the order of numbers.
LEMMA LowerIsBelow ==
    ASSUME NEW v \in Numbers, NEW w \in Numbers
    PROVE  is_lower(v, w) <=> Below(v, w)
<1> DEFINE i == Decides(v, w)
<1>1. /\ Inf \in Nat /\ Len(v) \in Nat /\ Len(w) \in Nat
      /\ DOMAIN v = 1..Len(v) /\ DOMAIN w = 1..Len(w)
      /\ \A j \in DOMAIN v : v[j] \in 0..Inf \cup {Star}
      /\ \A j \in DOMAIN w : w[j] \in 0..Inf \cup {Star}
  BY CiAssumption DEF Numbers, Numeric, IsStr, Element
<1>2. \A n \in Nat :
        (\A j \in 1..n : /\ j \in DOMAIN w /\ j <= Len(v)
                         /\ Star \notin {v[j], w[j]} /\ v[j] = w[j])
        => \A j \in 1..n : Digit(v, j) = Digit(w, j)
  BY <1>1 DEF Digit
<1>3. CASE i = 0
  <2>1. \A j \in 1..Len(w) : /\ j \in DOMAIN w /\ j <= Len(v)
                         /\ Star \notin {v[j], w[j]} /\ v[j] = w[j]
    BY <1>1, <1>3, DecidesAt
  <2>2. \A j \in 1..Len(w) : Digit(v, j) = Digit(w, j)
    BY <1>1, <1>2, <2>1
  <2>3. ~Below(v, w)
    <3>1. \A j \in DOMAIN w : ~(Digit(v, j) < Digit(w, j))
      <4>1. SUFFICES ASSUME NEW j \in DOMAIN w
                     PROVE  ~(Digit(v, j) < Digit(w, j))
        OBVIOUS
      <4>2. Digit(v, j) = Digit(w, j) /\ Digit(w, j) \in Nat
        BY <1>1, <2>2, DigitNat
      <4>3. QED
        BY <4>2
    <3>2. QED
      BY <3>1 DEF Below
  <2>4. ~(Len(v) < Len(w))
    BY <1>1, <2>1
  <2>5. QED
    BY <1>3, <2>3, <2>4 DEF is_lower
<1>4. CASE i # 0
  <2>1. /\ i \in DOMAIN w
        /\ i > Len(v) \/ Star \in {v[i], w[i]} \/ v[i] # w[i]
        /\ \A j \in 1..(i - 1) : /\ j \in DOMAIN w /\ j <= Len(v)
                         /\ Star \notin {v[j], w[j]} /\ v[j] = w[j]
    BY <1>1, <1>4, DecidesAt
  <2>2. i \in Nat \ {0} /\ i - 1 \in Nat
    BY <1>1, <2>1
  <2>3. \A j \in 1..(i - 1) : Digit(v, j) = Digit(w, j)
    BY <1>2, <2>1, <2>2
  <2>4. is_lower(v, w)
          <=> i > Len(v) \/ (v[i] # Star /\ (w[i] = Star \/ v[i] < w[i]))
    BY <1>4 DEF is_lower
  <2> HIDE DEF i
  <2>5. Digit(w, i) = IF w[i] = Star THEN Inf + 2 ELSE w[i] + 1
    BY <1>1, <2>1, <2>2 DEF Digit
  <2>6. CASE i > Len(v)
    <3>1. Digit(v, i) = 0
      BY <2>6 DEF Digit
    <3>2. Digit(w, i) > 0
      BY <1>1, <2>1, <2>5 DEF Star
    <3>3. QED
      BY <2>2, <2>3, <2>4, <2>6, <3>1, <3>2, BelowAt
  <2>7. CASE i <= Len(v)
    <3>1. i \in DOMAIN v
      BY <1>1, <2>2, <2>7
    <3>2. Digit(v, i) = IF v[i] = Star THEN Inf + 2 ELSE v[i] + 1
      BY <1>1, <2>1, <2>2, <2>7 DEF Digit
    <3>3. CASE v[i] = Star /\ w[i] = Star
      <4>1. \A k \in DOMAIN w : ~(Digit(v, k) < Digit(w, k))
        <5>1. SUFFICES ASSUME NEW k \in DOMAIN w, k > i
                       PROVE  ~(Digit(v, k) < Digit(w, k))
          <6>1. \A k \in DOMAIN w : ~(k > i) => Digit(v, k) = Digit(w, k)
            BY <1>1, <2>2, <2>3, <2>5, <3>2, <3>3
          <6>2. \A k \in DOMAIN w : Digit(w, k) \in Nat
            BY <1>1, DigitNat
          <6>3. QED
            BY <6>1, <6>2
        <5>2. i \in 1..(k - 1)
          BY <1>1, <2>2, <5>1
        <5>3. Digit(v, k) = 0 /\ Digit(w, k) = 0
          BY <3>3, <5>2 DEF Digit
        <5>4. QED
          BY <5>3
      <4>2. QED
        BY <2>4, <2>7, <3>3, <4>1, <1>1, <2>2 DEF Below
    <3>4. CASE v[i] = Star /\ w[i] # Star
      <4>1. Digit(v, i) > Digit(w, i)
        BY <1>1, <2>1, <2>5, <3>2, <3>4
      <4>2. QED
        BY <1>1, <2>2, <2>3, <2>4, <2>7, <3>4, <4>1, BelowAt
    <3>5. CASE v[i] # Star /\ w[i] = Star
      <4>1. Digit(v, i) < Digit(w, i)
        BY <1>1, <2>5, <3>1, <3>2, <3>5
      <4>2. QED
        BY <2>2, <2>3, <2>4, <3>5, <4>1, BelowAt
    <3>6. CASE v[i] # Star /\ w[i] # Star
      <4>1. v[i] \in Nat /\ w[i] \in Nat /\ v[i] # w[i]
        BY <1>1, <2>1, <2>2, <2>7, <3>1, <3>6
      <4>2. Digit(v, i) = v[i] + 1 /\ Digit(w, i) = w[i] + 1
        BY <2>5, <3>2, <3>6
      <4>3. QED
        BY <1>1, <2>2, <2>3, <2>4, <2>7, <3>6, <4>1, <4>2, BelowAt
    <3>7. QED
      BY <3>3, <3>4, <3>5, <3>6
  <2>8. QED
    BY <1>1, <2>2, <2>6, <2>7
<1>5. QED
  BY <1>3, <1>4

\* is_lower() is a strict order: no version is below itself or below one that
\* is below it, and if two are equal to a third one they are to each other.
\* So the minimum of several versions does not depend on how they are compared
\* (is_lower).
THEOREM LowerIsOrder ==
    ASSUME NEW u \in Numbers, NEW v \in Numbers, NEW w \in Numbers
    PROVE  /\ ~(is_lower(u, v) /\ is_lower(v, u))
           /\ is_lower(u, v) /\ is_lower(v, w) => is_lower(u, w)
           /\ ~is_lower(u, v) /\ ~is_lower(v, w) => ~is_lower(u, w)
<1>1. \A x, y \in Numbers : is_lower(x, y) <=> Below(x, y)
  BY LowerIsBelow
<1>2. \A x, y \in Numbers : ~(Below(x, y) /\ Below(y, x))
  BY BelowAsymmetric
<1>3. \A x, y, z \in Numbers : Below(x, z) => Below(x, y) \/ Below(y, z)
  BY BelowCut
<1>4. QED
  BY <1>1, <1>2, <1>3

-----------------------------------------------------------------------------
(* The versions that are compared.                                         *)

GeneratorType ==
    /\ drbd_version \in Versions \cup {None}
    /\ drbd_version_other \in Versions \cup {None}
    /\ config \in [1..NumTests -> Configs]
    /\ next \in 1..(NumTests + 1)

AllNumeric == \A v \in Given : Numeric(v)

LEMMA ParsedVersion ==
    ASSUME NEW v \in Versions
    PROVE  parse_version(v) \in Seq(Element) /\ parse_version(v) # None
<1>1. /\ Inf \in Nat
      /\ v \in Seq(-3..(Inf - 1)) /\ v # <<>>
  BY CiAssumption DEF None
<1>2. v \in Seq(Element)
  BY <1>1 DEF Element
<1>3. CASE Len(v) >= 4
  <2>1. v[1] \in Element /\ v[2] \in Element /\ Inf \in Element
    BY <1>1, <1>2, <1>3 DEF Element
  <2>2. <<v[1], v[2], Inf>> \in Seq(Element) /\ <<v[1], v[2], Inf>> # None
    BY <2>1 DEF None
  <2>3. QED
    BY <1>1, <1>2, <2>2 DEF parse_version, None
<1>4. CASE ~(Len(v) >= 4)
  BY <1>1, <1>2, <1>4 DEF parse_version, None
<1>5. QED
  BY <1>3, <1>4

\* A minimal version is a number as it is.
LEMMA ParsedMinimum ==
    ASSUME NEW m \in Seq(0..(Inf - 1))
    PROVE  parse_version(m) = m /\ m \in Numbers
<1>1. Inf \in Nat
  BY CiAssumption
<1>2. Len(m) \in Nat /\ \A i \in 1..Len(m) : m[i] \in 0..(Inf - 1)
  <2> DEFINE S == 0..(Inf - 1)
  <2>1. m \in Seq(S)
    OBVIOUS
  <2> HIDE DEF S
  <2>2. Len(m) \in Nat /\ \A i \in 1..Len(m) : m[i] \in S
    BY <2>1
  <2>3. QED
    BY <2>2 DEF S
<1>3. parse_version(m) = m
  <2>1. Len(m) >= 4 => m[4] # Latest
    BY <1>1, <1>2 DEF Latest
  <2>2. QED
    BY <2>1 DEF parse_version
<1>4. m \in Seq(Element)
  BY <1>1 DEF Element
<1>5. Numeric(m)
  BY <1>1, <1>2 DEF Numeric, IsStr
<1>6. QED
  BY <1>3, <1>4, <1>5 DEF Numbers

LEMMA GivenNumbers ==
    ASSUME GeneratorType, AllNumeric
    PROVE  Given \subseteq Numbers /\ None \notin Given
<1>1. SUFFICES ASSUME NEW g \in Given  PROVE g \in Numbers /\ g # None
  OBVIOUS
<1>2. PICK v \in Versions : g = parse_version(v)
  BY <1>1 DEF Given, GeneratorType
<1>3. g \in Seq(Element) /\ g # None
  BY <1>2, ParsedVersion
<1>4. QED
  BY <1>1, <1>3 DEF AllNumeric, Numbers

\* The lower one of the given versions is below none of them.
LEMMA LowerLeast ==
    ASSUME GeneratorType, AllNumeric
    PROVE  /\ Given = {} => Lower = None
           /\ Given # {} => /\ Lower \in Given
                            /\ \A g \in Given : ~Below(g, Lower)
<1> DEFINE v == parse_version(drbd_version)
           w == parse_version(drbd_version_other)
<1>1. /\ parse_version(None) = None
      /\ drbd_version # None => v \in Given
      /\ drbd_version_other # None => w \in Given
      /\ \A g \in Given : \/ g = v /\ drbd_version # None
                          \/ g = w /\ drbd_version_other # None
  <2>1. parse_version(None) = None
    BY DEF parse_version, None
  <2>2. QED
    BY <2>1 DEF Given
<1>2. Given \subseteq Numbers
  BY GivenNumbers
<1>3. \A g \in Given : ~Below(g, g)
  BY <1>2, BelowAsymmetric
<1>4. CASE drbd_version_other = None
  BY <1>1, <1>3, <1>4 DEF Lower
<1>5. CASE drbd_version_other # None /\ drbd_version = None
  BY <1>1, <1>3, <1>5 DEF Lower
<1>6. CASE drbd_version_other # None /\ drbd_version # None
  <2>1. v \in Numbers /\ w \in Numbers
    BY <1>1, <1>2, <1>6
  <2>2. is_lower(v, w) <=> Below(v, w)
    BY <2>1, LowerIsBelow
  <2>3. Below(v, w) => ~Below(w, v)
    BY <2>1, BelowAsymmetric
  <2>4. Lower = IF Below(v, w) THEN v ELSE w
    BY <1>6, <2>2 DEF Lower
  <2> HIDE DEF v, w
  <2>5. QED
    BY <1>1, <1>3, <1>6, <2>3, <2>4
<1>7. QED
  BY <1>4, <1>5, <1>6

\* The versions compared with a minimum, and a minimum with them.
LEMMA AllReach ==
    ASSUME GeneratorType, AllNumeric, NEW m \in Numbers, Given # {}
    PROVE  /\ is_lower(Lower, m) <=> \E g \in Given : Below(g, m)
           /\ is_lower(m, Lower) <=> \A g \in Given : Below(m, g)
<1>1. /\ Lower \in Given /\ Given \subseteq Numbers
      /\ \A g \in Given : ~Below(g, Lower)
  BY LowerLeast, GivenNumbers
<1>2. Lower \in Numbers
  BY <1>1
<1>3. /\ is_lower(Lower, m) <=> Below(Lower, m)
      /\ is_lower(m, Lower) <=> Below(m, Lower)
  BY <1>2, LowerIsBelow
<1>4. \A g \in Given : Below(g, m) => Below(Lower, m)
  BY <1>1, <1>2, BelowCut
<1>5. \A g \in Given : Below(m, Lower) => Below(m, g)
  BY <1>1, <1>2, BelowCut
<1>6. QED
  BY <1>1, <1>3, <1>4, <1>5

-----------------------------------------------------------------------------
(* A test is written as it is to be.                                       *)

LEMMA VmsRight ==
    ASSUME GeneratorType, AllNumeric, NEW c \in Configs,
           Lower # None => ~IsStr(Lower[1])
    PROVE  Vms(c) = RightVms(c)
<1>1. c.vms \subseteq Nat /\ Inf \in Nat /\ Inf > 9
  BY CiAssumption
<1>2. CASE Given = {}
  <2>1. Lower = None
    BY <1>2, LowerLeast
  <2>2. Vms(c) = c.vms
    BY <2>1 DEF Vms
  <2>3. RightVms(c) = c.vms
    BY <1>2 DEF RightVms
  <2>4. QED
    BY <2>2, <2>3
<1>3. CASE Given # {}
  <2>1. /\ Lower \in Given /\ Given \subseteq Numbers /\ Lower # None
        /\ \A g \in Given : ~Below(g, Lower)
    BY <1>3, LowerLeast, GivenNumbers
  <2>2. \A g \in Given : Digit(g, 1) \in Nat
    BY <2>1, DigitNat
  <2>3. \A g \in Given : ~(Digit(g, 1) < Digit(Lower, 1))
    <3>1. SUFFICES ASSUME NEW g \in Given, Digit(g, 1) < Digit(Lower, 1)
                   PROVE  FALSE
      OBVIOUS
    <3>2. Below(g, Lower)
      <4>1. \A j \in 1..(1 - 1) : Digit(g, j) = Digit(Lower, j)
        OBVIOUS
      <4>2. g \in Numbers /\ Lower \in Numbers /\ 1 \in Nat \ {0}
        BY <2>1
      <4>3. QED
        BY <3>1, <4>1, <4>2, BelowAt
    <3>3. QED
      BY <2>1, <3>2
  <2>4. Digit(Lower, 1) = Lower[1] + 1 /\ Lower[1] \in Nat
    <3>1. Lower \in Seq(Element) /\ Lower # <<>>
      BY <2>1 DEF Numbers, None
    <3>2. Len(Lower) >= 1 /\ Lower[1] \in Element
      BY <3>1
    <3>3. Lower[1] \in Nat
      BY <1>1, <2>1, <3>2 DEF Element, IsStr
    <3>4. Lower[1] # Star
      BY <3>3 DEF Star
    <3>5. QED
      BY <3>2, <3>3, <3>4 DEF Digit
  <2>5. (\A g \in Given : Digit(g, 1) > 9) <=> ~(Lower[1] < 9)
    <3>1. ASSUME ~(Lower[1] < 9), NEW g \in Given
          PROVE  Digit(g, 1) > 9
      BY <2>2, <2>3, <2>4, <3>1
    <3>2. ASSUME \A g \in Given : Digit(g, 1) > 9
          PROVE  ~(Lower[1] < 9)
      BY <2>1, <2>4, <3>2
    <3>3. QED
      BY <3>1, <3>2
  <2>6. QED
    BY <2>1, <2>5 DEF Vms, RightVms
<1>4. QED
  BY <1>2, <1>3

LEMMA FitsRight ==
    ASSUME GeneratorType, AllNumeric, NEW c \in Configs,
           Lower # None => ~IsStr(Lower[1])
    PROVE  Fits(c) <=> c.selected /\ Vms(c) # {} /\ ~TooLow(c)
<1>1. Vms(c) = RightVms(c)
  BY VmsRight
<1>2. c.min \in Seq(0..(Inf - 1))
  BY CiAssumption
<1>3. parse_version(c.min) \in Numbers /\ parse_version(c.min) = c.min
  BY <1>2, ParsedMinimum
<1>4. TooLow(c) <=> \E g \in Given : Below(g, parse_version(c.min))
  <2>1. c.min = None => \A g \in Given : ~Below(g, parse_version(c.min))
    BY <1>3 DEF Below, None
  <2>2. CASE Given = {}
    BY <2>2, LowerLeast DEF TooLow
  <2>3. CASE Given # {}
    <3>1. Lower # None
      BY <2>3, LowerLeast, GivenNumbers
    <3>2. is_lower(Lower, parse_version(c.min))
            <=> \E g \in Given : Below(g, parse_version(c.min))
      BY <1>3, <2>3, AllReach
    <3>3. QED
      BY <2>1, <3>1, <3>2 DEF TooLow
  <2>4. QED
    BY <2>2, <2>3
<1>5. QED
  BY <1>1, <1>4 DEF Fits

LEMMA VariantsRight ==
    ASSUME GeneratorType, AllNumeric, NEW c \in Configs
    PROVE  {"default"} \cup parse_variants_add(c) = RightVariants(c)
<1>1. ASSUME NEW b \in c.variants_add
      PROVE  (b.min = None \/ Lower = None
                \/ is_lower(parse_version(b.min), Lower))
             <=> (b.min = None
                    \/ \A v \in Given : Below(parse_version(b.min), v))
  <2>1. b.min \in Seq(0..(Inf - 1))
    BY CiAssumption
  <2>2. parse_version(b.min) \in Numbers
    BY <2>1, ParsedMinimum
  <2>3. CASE Given = {}
    BY <2>3, LowerLeast
  <2>4. CASE Given # {}
    BY <2>2, <2>4, AllReach, LowerLeast, GivenNumbers
  <2>5. QED
    BY <2>3, <2>4
<1>2. {b \in c.variants_add : b.min = None \/ Lower = None
                \/ is_lower(parse_version(b.min), Lower)}
      = {b \in c.variants_add : b.min = None
                    \/ \A v \in Given : Below(parse_version(b.min), v)}
  BY <1>1
<1>3. QED
  BY <1>2 DEF parse_variants_add, RightVariants

-----------------------------------------------------------------------------
(* The inductive invariant: what was written of the files so far.          *)

WrittenRight(t) ==
    LET c == config[t] IN
    IF Fits(c)
    THEN /\ t \in DOMAIN written
         /\ written[t] = [vms |-> RightVms(c), variants |-> RightVariants(c)]
    ELSE t \notin DOMAIN written

GeneratorInv ==
    /\ GeneratorType
    /\ DOMAIN written \subseteq 1..(next - 1)
    /\ AllNumeric => \A t \in 1..(next - 1) : WrittenRight(t)
    /\ stage = "done" => next = NumTests + 1

LEMMA GeneratorInit == Start => GeneratorInv
<1>1. SUFFICES ASSUME Start  PROVE GeneratorInv
  OBVIOUS
<1>2. GeneratorType
  BY <1>1, CiAssumption DEF Start, GeneratorType
<1>3. DOMAIN written = {} /\ next = 1 /\ stage = "start"
  BY <1>1 DEF Start
<1>4. QED
  BY <1>2, <1>3 DEF GeneratorInv

LEMMA WriteTestKeeps ==
    ASSUME GeneratorInv, WriteTest
    PROVE  GeneratorInv'
<1> DEFINE c == config[next]
<1>1. /\ next \in 1..NumTests /\ NumTests \in Nat /\ c \in Configs
      /\ UNCHANGED args
  BY CiAssumption DEF WriteTest, GeneratorInv, GeneratorType
<1>2. Given' = Given /\ Lower' = Lower
  BY <1>1 DEF args, Given, Lower
<1>3. AllNumeric' <=> AllNumeric
  BY <1>2 DEF AllNumeric
<1>4. /\ \A d : RightVms(d)' = RightVms(d)
      /\ \A d : RightVariants(d)' = RightVariants(d)
      /\ \A d : Fits(d)' <=> Fits(d)
  BY <1>2 DEF RightVms, RightVariants, Fits
<1>5. config' = config /\ stage # "done" /\ stage' # "done"
  BY DEF WriteTest, args
<1>6. CASE c.selected /\ WriteRaises(c)
  <2>1. UNCHANGED <<next, written>>
    BY <1>6 DEF WriteTest
  <2>2. GeneratorType'
    BY <1>1, <2>1 DEF GeneratorInv, GeneratorType, args
  <2>3. \A t : WrittenRight(t)' <=> WrittenRight(t)
    BY <1>4, <1>5, <2>1 DEF WrittenRight
  <2>4. QED
    BY <1>3, <1>5, <2>1, <2>2, <2>3 DEF GeneratorInv
<1>7. CASE ~(c.selected /\ WriteRaises(c))
  <2> DEFINE writes == c.selected /\ Vms(c) # {} /\ ~TooLow(c)
             new == [vms |-> Vms(c),
                     variants |-> {"default"} \cup parse_variants_add(c)]
  <2>1. /\ next' = next + 1
        /\ written' = IF writes
                THEN [t \in DOMAIN written \cup {next} |->
                        IF t = next THEN new ELSE written[t]]
                ELSE written
    BY <1>7 DEF WriteTest
  <2>2. GeneratorType'
    BY <1>1, <2>1 DEF GeneratorInv, GeneratorType, args
  <2>3. DOMAIN written \subseteq 1..(next - 1)
    BY DEF GeneratorInv
  <2> HIDE DEF writes, new
  <2>4. /\ DOMAIN written' = IF writes THEN DOMAIN written \cup {next}
                             ELSE DOMAIN written
        /\ \A t \in DOMAIN written : t # next => written'[t] = written[t]
        /\ writes => written'[next] = new
    BY <2>1
  <2>5. DOMAIN written' \subseteq 1..(next' - 1)
    BY <1>1, <2>1, <2>3, <2>4
  <2>6. ASSUME AllNumeric', NEW t, t = next  PROVE WrittenRight(t)'
    <3>1. t \notin DOMAIN written /\ config[t] = c
      BY <1>1, <2>3, <2>6
    <3>2. Fits(c) <=> writes
      <4>1. CASE c.selected
        <5>1. Lower # None => ~IsStr(Lower[1])
          BY <1>7, <4>1 DEF WriteRaises
        <5>2. QED
          BY <1>1, <1>3, <2>6, <5>1, FitsRight DEF GeneratorInv, writes
      <4>2. CASE ~c.selected
        BY <4>2 DEF Fits, writes
      <4>3. QED
        BY <4>1, <4>2
    <3>3. ASSUME writes
          PROVE  new = [vms |-> RightVms(c), variants |-> RightVariants(c)]
      <4>1. Lower # None => ~IsStr(Lower[1])
        BY <1>7, <3>3 DEF WriteRaises, writes
      <4>2. /\ Vms(c) = RightVms(c)
            /\ {"default"} \cup parse_variants_add(c) = RightVariants(c)
        BY <1>1, <1>3, <2>6, <4>1, VmsRight, VariantsRight DEF GeneratorInv
      <4>3. QED
        BY <4>2 DEF new
    <3>4. IF Fits(config[t])
          THEN /\ t \in DOMAIN written'
               /\ written'[t] = [vms |-> RightVms(config[t]),
                                 variants |-> RightVariants(config[t])]
          ELSE t \notin DOMAIN written'
      BY <2>4, <2>6, <3>1, <3>2, <3>3
    <3>5. QED
      BY <1>4, <1>5, <3>4 DEF WrittenRight
  <2>7. ASSUME NEW t \in 1..(next - 1), WrittenRight(t)
        PROVE  WrittenRight(t)'
    <3>1. t # next
      BY <1>1
    <3>2. /\ t \in DOMAIN written' <=> t \in DOMAIN written
          /\ t \in DOMAIN written => written'[t] = written[t]
      BY <2>4, <3>1
    <3>3. QED
      BY <1>4, <1>5, <2>7, <3>2 DEF WrittenRight
  <2>8. AllNumeric' => \A t \in 1..(next' - 1) : WrittenRight(t)'
    <3>1. \A t \in 1..(next' - 1) : t \in 1..(next - 1) \/ t = next
      BY <1>1, <2>1
    <3>2. AllNumeric => \A t \in 1..(next - 1) : WrittenRight(t)
      BY DEF GeneratorInv
    <3>3. QED
      BY <1>3, <2>6, <2>7, <3>1, <3>2
  <2>9. QED
    BY <1>5, <2>2, <2>5, <2>8 DEF GeneratorInv
<1>8. QED
  BY <1>6, <1>7

LEMMA GeneratorStep ==
    GeneratorInv /\ [Step]_generator => GeneratorInv'
<1>1. SUFFICES ASSUME GeneratorInv, [Step]_generator  PROVE GeneratorInv'
  OBVIOUS
<1>2. ASSUME UNCHANGED <<args, next, written>>,
             stage' = "done" => next = NumTests + 1
      PROVE  GeneratorInv'
  <2>1. Given' = Given
    BY <1>2 DEF args, Given
  <2>2. \A t : WrittenRight(t)' <=> WrittenRight(t)
    BY <1>2, <2>1 DEF args, WrittenRight, Fits, RightVms, RightVariants
  <2>3. QED
    BY <1>1, <1>2, <2>1, <2>2
       DEF args, GeneratorInv, GeneratorType, AllNumeric
<1>3. CASE Compare
  BY <1>2, <1>3 DEF Compare
<1>4. ASSUME NEW t \in 1..NumTests, Read(t)  PROVE GeneratorInv'
  BY <1>2, <1>4 DEF Read
<1>5. CASE WriteTest
  BY <1>1, <1>5, WriteTestKeeps
<1>6. CASE Finish
  <2>1. next = NumTests + 1
    BY SMTT(30), <1>1, <1>6, CiAssumption
       DEF Finish, GeneratorInv, GeneratorType
  <2>2. QED
    BY <1>2, <1>6, <2>1 DEF Finish
<1>7. CASE UNCHANGED generator
  <2>1. UNCHANGED <<args, next, written>> /\ stage' = stage
    BY <1>7 DEF generator
  <2>2. QED
    BY <1>1, <1>2, <2>1 DEF GeneratorInv
<1>8. QED
  BY <1>1, <1>3, <1>4, <1>5, <1>6, <1>7 DEF Step

\* The generator writes exactly the tests that can run with every version that
\* was given, with the VMs and the variants that all of them can have (main,
\* parse_variants_add).
THEOREM WritesWhatFits == Generates => []FitsAllVersions
<1>1. GeneratorInv => FitsAllVersions
  <2>1. SUFFICES ASSUME GeneratorInv, stage = "done", AllNumeric,
                        NEW t \in 1..NumTests
                 PROVE  WrittenRight(t)
    BY DEF FitsAllVersions, WrittenRight, AllNumeric
  <2>2. t \in 1..(next - 1)
    BY <2>1, CiAssumption DEF GeneratorInv
  <2>3. QED
    BY <2>1, <2>2 DEF GeneratorInv
<1>2. QED
  BY <1>1, GeneratorInit, GeneratorStep, PTL DEF Generates

\* is_lower() compares the given versions like numbers.
THEOREM VersionsAreOrdered == Generates => []LowerIsNumeric
<1>1. GeneratorInv => LowerIsNumeric
  <2>1. SUFFICES ASSUME GeneratorInv, NEW v \in Given, NEW w \in Given,
                        Numeric(v), Numeric(w)
                 PROVE  is_lower(v, w) <=> Below(v, w)
    BY DEF LowerIsNumeric
  <2>2. v \in Seq(Element) /\ w \in Seq(Element)
    BY <2>1, ParsedVersion DEF Given, GeneratorInv, GeneratorType
  <2>3. v \in Numbers /\ w \in Numbers
    BY <2>1, <2>2 DEF Numbers
  <2>4. QED
    BY <2>3, LowerIsBelow
<1>2. QED
  BY <1>1, GeneratorInit, GeneratorStep, PTL DEF Generates

\* A development build is above the releases of its series and below those of
\* the next one (parse_version).
THEOREM DevelopmentIsNewest == Generates => []DevelopmentNewest
<1>1. GeneratorInv => DevelopmentNewest
  <2> DEFINE v == drbd_version
             w == drbd_version_other
             d == parse_version(v)
  <2>1. SUFFICES ASSUME GeneratorInv,
                        Len(v) = 4, v[3] = 0, v[4] = Latest,
                        Len(w) > 1, \A i \in DOMAIN w : w[i] >= 0,
                        v[1] = w[1], v[2] \in 0..w[2]
                 PROVE  IF v[2] = w[2] THEN is_lower(w, d) ELSE is_lower(d, w)
    BY DEF DevelopmentNewest
  <2>2. /\ Inf \in Nat
        /\ v \in Seq(-3..(Inf - 1)) \ {None}
        /\ w \in Seq(-3..(Inf - 1)) \ {None}
    <3>1. Len(None) = 0
      BY DEF None
    <3>2. v # None /\ w # None
      BY <2>1, <3>1
    <3>3. QED
      BY <2>1, <3>2, CiAssumption DEF GeneratorInv, GeneratorType
  <2> HIDE DEF v, w
  <2>3. /\ DOMAIN w = 1..Len(w) /\ Len(w) \in Nat
        /\ \A i \in DOMAIN w : w[i] \in 0..(Inf - 1)
    BY <2>1, <2>2
  <2>4. d = <<v[1], v[2], Inf>>
    BY <2>1 DEF parse_version
  <2> HIDE DEF d
  <2>5. v[1] \in 0..(Inf - 1) /\ v[2] \in 0..(Inf - 1)
    <3>1. w[1] \in 0..(Inf - 1) /\ w[2] \in 0..(Inf - 1)
      BY <2>1, <2>3
    <3>2. QED
      BY <2>1, <2>2, <3>1
  <2>6. /\ d \in Seq(Element)
        /\ d[1] = v[1] /\ d[2] = v[2] /\ d[3] = Inf
        /\ DOMAIN d = 1..3 /\ Len(d) = 3
    BY SMTT(30), <2>2, <2>4, <2>5 DEF Element
  <2>7. w \in Numbers /\ d \in Numbers
    <3>1. w \in Seq(Element)
      BY <2>2 DEF Element
    <3>2. Numeric(w) /\ Numeric(d)
      BY SMTT(30), <2>2, <2>3, <2>5, <2>6 DEF Numeric, IsStr
    <3>3. QED
      BY <2>6, <3>1, <3>2 DEF Numbers
  <2>8. /\ Digit(w, 1) = w[1] + 1 /\ Digit(w, 2) = w[2] + 1
        /\ Digit(d, 1) = w[1] + 1 /\ Digit(d, 2) = v[2] + 1
        /\ Digit(d, 3) = Inf + 1
        /\ Digit(w, 3) < Inf + 1
    <3>1. \A i \in DOMAIN w : w[i] # Star
      BY <2>2, <2>3 DEF Star
    <3>2. \A i \in DOMAIN d : d[i] # Star
      BY <2>2, <2>5, <2>6 DEF Star
    <3>3. Digit(w, 1) = w[1] + 1 /\ Digit(w, 2) = w[2] + 1
      BY <2>1, <2>3, <3>1 DEF Digit
    <3>4. /\ Digit(d, 1) = d[1] + 1 /\ Digit(d, 2) = d[2] + 1
          /\ Digit(d, 3) = d[3] + 1
      BY <2>6, <3>2 DEF Digit
    <3>5. Digit(w, 3) = IF 3 > Len(w) THEN 0 ELSE w[3] + 1
      BY <2>3, <3>1 DEF Digit
    <3>6. QED
      BY SMTT(30), <2>1, <2>2, <2>3, <2>6, <3>3, <3>4, <3>5
  <2>9. CASE v[2] = w[2]
    <3>1. \A j \in 1..(3 - 1) : Digit(w, j) = Digit(d, j)
      BY <2>8, <2>9
    <3>2. Below(w, d)
      BY <2>7, <2>8, <3>1, BelowAt
    <3>3. QED
      BY <2>7, <2>9, <3>2, LowerIsBelow
  <2>10. CASE v[2] # w[2]
    <3>1. Digit(d, 2) < Digit(w, 2)
      BY SMTT(30), <2>1, <2>2, <2>3, <2>5, <2>8, <2>10
    <3>2. \A j \in 1..(2 - 1) : Digit(d, j) = Digit(w, j)
      BY <2>8
    <3>3. Below(d, w)
      BY <2>7, <3>1, <3>2, BelowAt
    <3>4. QED
      BY <2>7, <2>10, <3>3, LowerIsBelow
  <2>11. QED
    BY <2>9, <2>10
<1>2. QED
  BY <1>1, GeneratorInit, GeneratorStep, PTL DEF Generates
=============================================================================
