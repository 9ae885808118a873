-------------------------- MODULE NetFilterProofs ---------------------------
(***************************************************************************)
(* NetFilter for any paths, packets and numbers of blocks and shells: the  *)
(* rules in the chains are accounted for, and unblocking finds its rules.  *)
(*                                                                         *)
(* RulesAccounted speaks of the moments between two calls of the script.   *)
(* The invariant behind it holds in the middle of a call, too, and counts  *)
(* the rules that the call has inserted or deleted so far.  It needs to    *)
(* know how far each shell and the call have come.                         *)
(***************************************************************************)
EXTENDS NetFilter, Integers, FiniteSetTheorems, SequenceTheorems, TLAPS

\* Rules of a block of t.
NumRules(t) == IF t \in Paths THEN PathRules ELSE 2

Cmd == [op : {"-I", "-D"}, rule : Rule]

\* The m-th command of a timed block of t: the insertions, then the deletions.
Step(t, m) ==
    IF m <= NumRules(t) THEN [op |-> "-I", rule |-> <<t, m>>]
                        ELSE [op |-> "-D", rule |-> <<t, m - NumRules(t)>>]

\* The commands q are what is left of a timed block of t after the first k.
ShellAt(q, t, k) ==
    /\ q \in Seq(Cmd)
    /\ Len(q) = 2 * NumRules(t) - k
    /\ \A j \in 1..Len(q) : q[j] = Step(t, k + j)

\* The commands q are what is left of a call for t after the first k.
CallAt(q, t, op, k) ==
    /\ q \in Seq(Cmd)
    /\ Len(q) = NumRules(t) - k
    /\ \A j \in 1..Len(q) : q[j] = [op |-> op, rule |-> <<t, k + j>>]

\* Call kinds and what they do to the chains.
OpOf(kind) == IF kind = "unblock" THEN "-D" ELSE "-I"

\* No command of q is about rule r.
Past(q, r) == \A j \in 1..Len(q) : q[j].rule # r

\* The call in progress has dealt with rule r.
Done(r) == call # Idle /\ r[1] = call.target /\ Past(call.todo, r)

Added(r) == IF Done(r) /\ call.kind # "unblock" THEN 1 ELSE 0
Removed(r) == IF Done(r) /\ call.kind = "unblock" THEN 1 ELSE 0

TypeOK ==
    /\ running \in BOOLEAN
    /\ stale \in BOOLEAN
    /\ rules \in [Rule -> Nat]
    /\ blocks \in [Target -> Nat]
    /\ shells \in Seq(Seq(Cmd))
    /\ \/ call = Idle
       \/ call \in [kind : {"block", "unblock", "timed"}, target : Target,
                    todo : Seq(Cmd)]

\* Each shell is somewhere in a timed block.
ShellsKnown ==
    \A s \in 1..Len(shells) : \E t \in Target :
        \E k \in 0..(2 * NumRules(t)) : ShellAt(shells[s], t, k)

\* The call is somewhere in its commands; what it undoes was blocked.
CallKnown ==
    call # Idle =>
        /\ running
        /\ \E k \in 0..NumRules(call.target) :
            CallAt(call.todo, call.target, OpOf(call.kind), k)
        /\ call.kind = "unblock" => blocks[call.target] > 0

\* Between two tests nothing is blocked.
Cleared == ~running => \A t \in Target : blocks[t] = 0

\* At any time, the rules are those of the blocks that are not undone, of the
\* timed blocks that have not ended, and of the call as far as it has come.
Accounted ==
    running /\ ~stale =>
        \A r \in Rule : rules[r] + Removed(r) =
            blocks[r[1]] + Cardinality(Holding(r)) + Added(r)

IInv == TypeOK /\ ShellsKnown /\ CallKnown /\ Cleared /\ Accounted

-----------------------------------------------------------------------------
(* Rules and lists of commands.                                            *)

LEMMA NumRulesNat == \A t : NumRules(t) \in Nat \ {0}
BY NetFilterAssumption DEF NumRules

LEMMA RuleForm ==
    /\ \A t \in Target : \A i \in 1..NumRules(t) :
            <<t, i>> \in Rule /\ <<t, i>>[1] = t /\ <<t, i>>[2] = i
    /\ \A r \in Rule : /\ r[1] \in Target
                       /\ r[2] \in 1..NumRules(r[1])
                       /\ r = <<r[1], r[2]>>
BY DEF Rule, NumRules

LEMMA PairEqual ==
    \A t, u, i, j : <<t, i>> = <<u, j>> <=> t = u /\ i = j
OBVIOUS

LEMMA CmdEqual ==
    \A o, p, r, q :
        [op |-> o, rule |-> r] = [op |-> p, rule |-> q] <=> o = p /\ r = q
OBVIOUS

LEMMA CmdsOfCall ==
    ASSUME NEW t \in Target, NEW op \in {"-I", "-D"}
    PROVE  CallAt(IptablesCmd(t, op), t, op, 0)
<1> DEFINE q == IptablesCmd(t, op)
           n == NumRules(t)
<1>1. n \in Nat
  BY NumRulesNat
<1>2. q = [i \in 1..n |-> [op |-> op, rule |-> <<t, i>>]]
  BY DEF IptablesCmd, NumRules
<1>3. \A i \in 1..n : [op |-> op, rule |-> <<t, i>>] \in Cmd
  BY RuleForm DEF Cmd
<1> HIDE DEF q, n
<1>4. q \in Seq(Cmd) /\ Len(q) = n
  BY <1>1, <1>2, <1>3
<1>5. QED
  BY <1>1, <1>2, <1>4 DEF CallAt, q, n

\* A call runs its first command.
LEMMA CallNext ==
    ASSUME NEW q, NEW t \in Target, NEW op \in {"-I", "-D"},
           NEW k \in 0..NumRules(t), CallAt(q, t, op, k), q # <<>>
    PROVE  /\ k + 1 \in 1..NumRules(t)
           /\ Head(q) = [op |-> op, rule |-> <<t, k + 1>>]
           /\ CallAt(Tail(q), t, op, k + 1)
<1> USE NumRulesNat DEF CallAt
<1>1. Len(q) \in Nat /\ Len(q) > 0
  OBVIOUS
<1>2. k + 1 \in 1..NumRules(t)
  BY <1>1
<1>3. Head(q) = q[1]
  BY <1>1
<1>4. /\ Tail(q) \in Seq(Cmd) /\ Len(Tail(q)) = Len(q) - 1
      /\ \A j \in 1..Len(Tail(q)) : Tail(q)[j] = q[j + 1]
  BY <1>1
<1>5. Head(q) = [op |-> op, rule |-> <<t, k + 1>>]
  BY <1>1, <1>3
<1>6. \A j \in 1..Len(Tail(q)) :
         Tail(q)[j] = [op |-> op, rule |-> <<t, (k + 1) + j>>]
  <2> SUFFICES ASSUME NEW j \in 1..Len(Tail(q))
               PROVE  Tail(q)[j] = [op |-> op, rule |-> <<t, (k + 1) + j>>]
    OBVIOUS
  <2>1. j + 1 \in 1..Len(q) /\ k + (j + 1) = (k + 1) + j
    BY <1>1, <1>4
  <2>2. QED
    BY <1>4, <2>1
<1>7. QED
  BY <1>1, <1>2, <1>4, <1>5, <1>6

\* Which rules a call has dealt with after k commands.
LEMMA CallDone ==
    ASSUME NEW q, NEW t \in Target, NEW op \in {"-I", "-D"},
           NEW k \in 0..NumRules(t), CallAt(q, t, op, k), NEW r \in Rule
    PROVE  (r[1] = t /\ Past(q, r)) <=> (r[1] = t /\ r[2] <= k)
<1> USE NumRulesNat DEF CallAt, Past
<1>1. \A j \in 1..Len(q) : q[j].rule = <<t, k + j>>
  OBVIOUS
<1>2. ASSUME r[1] = t, r[2] <= k, NEW j \in 1..Len(q), q[j].rule = r
      PROVE  FALSE
  BY <1>1, <1>2, RuleForm, PairEqual
<1>3. ASSUME r[1] = t, r[2] > k PROVE \E j \in 1..Len(q) : q[j].rule = r
  <2>1. r[2] - k \in 1..Len(q) /\ k + (r[2] - k) = r[2] /\ r = <<t, r[2]>>
    BY <1>3, RuleForm
  <2>2. QED
    BY <1>1, <2>1
<1>4. r[2] \in Nat
  BY RuleForm
<1>5. QED
  BY <1>2, <1>3, <1>4

\* A shell runs its first command.
LEMMA ShellNext ==
    ASSUME NEW q, NEW t \in Target, NEW k \in 0..(2 * NumRules(t)),
           ShellAt(q, t, k), q # <<>>
    PROVE  /\ k + 1 \in 1..(2 * NumRules(t))
           /\ Head(q) = Step(t, k + 1)
           /\ ShellAt(Tail(q), t, k + 1)
<1> USE NumRulesNat DEF ShellAt
<1>1. Len(q) \in Nat /\ Len(q) > 0
  OBVIOUS
<1>2. k + 1 \in 1..(2 * NumRules(t))
  BY <1>1
<1>3. /\ Tail(q) \in Seq(Cmd) /\ Len(Tail(q)) = Len(q) - 1
      /\ \A j \in 1..Len(Tail(q)) : Tail(q)[j] = q[j + 1]
  BY <1>1
<1>4. Head(q) = Step(t, k + 1)
  BY <1>1
<1>5. \A j \in 1..Len(Tail(q)) : Tail(q)[j] = Step(t, (k + 1) + j)
  <2> SUFFICES ASSUME NEW j \in 1..Len(Tail(q))
               PROVE  Tail(q)[j] = Step(t, (k + 1) + j)
    OBVIOUS
  <2>1. j + 1 \in 1..Len(q) /\ k + (j + 1) = (k + 1) + j
    BY <1>1, <1>3
  <2>2. QED
    BY <1>3, <2>1
<1>6. QED
  BY <1>1, <1>2, <1>3, <1>4, <1>5

\* Commands q delete rule r and do not insert it.
Holds(q, r) ==
    /\ \E i \in 1..Len(q) : q[i] = [op |-> "-D", rule |-> r]
    /\ ~\E i \in 1..Len(q) : q[i] = [op |-> "-I", rule |-> r]

\* Which rules a shell holds after k commands.
LEMMA ShellHolds ==
    ASSUME NEW q, NEW t \in Target, NEW k \in 0..(2 * NumRules(t)),
           ShellAt(q, t, k), NEW r \in Rule
    PROVE  Holds(q, r)
           <=> r[1] = t /\ r[2] <= k /\ k < NumRules(t) + r[2]
<1> DEFINE n == NumRules(t)
<1>1. n \in Nat /\ Len(q) = 2 * n - k /\ Len(q) \in Nat
      /\ \A j \in 1..Len(q) : q[j] = Step(t, k + j)
  BY NumRulesNat DEF ShellAt
<1>2. r[2] \in Nat /\ r[2] >= 1 /\ r = <<r[1], r[2]>>
      /\ (r[1] = t => r[2] <= n)
  BY RuleForm, NumRulesNat
<1>3. \A j \in 1..Len(q) :
         /\ q[j] = [op |-> "-D", rule |-> r]
              <=> r[1] = t /\ k + j > n /\ r[2] = (k + j) - n
         /\ q[j] = [op |-> "-I", rule |-> r]
              <=> r[1] = t /\ k + j <= n /\ r[2] = k + j
  <2> SUFFICES ASSUME NEW j \in 1..Len(q)
               PROVE  /\ q[j] = [op |-> "-D", rule |-> r]
                           <=> r[1] = t /\ k + j > n /\ r[2] = (k + j) - n
                      /\ q[j] = [op |-> "-I", rule |-> r]
                           <=> r[1] = t /\ k + j <= n /\ r[2] = k + j
    OBVIOUS
  <2>1. q[j] = Step(t, k + j)
    BY <1>1
  <2>2. CASE k + j <= n
    <3>1. q[j] = [op |-> "-I", rule |-> <<t, k + j>>]
      BY <2>1, <2>2 DEF Step
    <3>2. QED
      BY <1>1, <1>2, <2>2, <3>1, CmdEqual, PairEqual
  <2>3. CASE ~(k + j <= n)
    <3>1. q[j] = [op |-> "-D", rule |-> <<t, (k + j) - n>>]
      BY <1>1, <2>1, <2>3 DEF Step
    <3>2. /\ r = <<t, (k + j) - n>> <=> r[1] = t /\ r[2] = (k + j) - n
          /\ k + j > n
      BY <1>1, <1>2, <2>3, PairEqual
    <3>3. q[j] = [op |-> "-D", rule |-> r] <=> r = <<t, (k + j) - n>>
      BY <3>1, CmdEqual
    <3>4. q[j] # [op |-> "-I", rule |-> r]
      BY <3>1, CmdEqual
    <3>5. q[j] = [op |-> "-D", rule |-> r]
            <=> r[1] = t /\ k + j > n /\ r[2] = (k + j) - n
      BY <3>2, <3>3, Zenon
    <3>6. QED
      BY <2>3, <3>4, <3>5, Zenon
  <2>4. QED
    BY <2>2, <2>3
<1> HIDE DEF n
<1>4. (\E i \in 1..Len(q) : q[i] = [op |-> "-D", rule |-> r])
      <=> r[1] = t /\ k < n + r[2]
  <2>1. ASSUME r[1] = t, k < n + r[2]
        PROVE  \E i \in 1..Len(q) : q[i] = [op |-> "-D", rule |-> r]
    <3>1. n + r[2] - k \in 1..Len(q)
      BY <1>1, <1>2, <2>1
    <3>2. q[n + r[2] - k] = [op |-> "-D", rule |-> r]
      BY <1>1, <1>2, <1>3, <2>1, <3>1
    <3>3. QED
      BY <3>1, <3>2
  <2>2. QED
    BY <1>1, <1>2, <1>3, <2>1
<1>5. (\E i \in 1..Len(q) : q[i] = [op |-> "-I", rule |-> r])
      <=> r[1] = t /\ k < r[2]
  <2>1. ASSUME r[1] = t, k < r[2]
        PROVE  \E i \in 1..Len(q) : q[i] = [op |-> "-I", rule |-> r]
    <3>1. r[2] - k \in 1..Len(q)
      BY <1>1, <1>2, <2>1
    <3>2. q[r[2] - k] = [op |-> "-I", rule |-> r]
      BY <1>1, <1>2, <1>3, <2>1, <3>1
    <3>3. QED
      BY <3>1, <3>2
  <2>2. QED
    BY <1>1, <1>2, <1>3, <2>1
<1>6. QED
  BY <1>1, <1>2, <1>4, <1>5 DEF Holds, n

\* The commands of a timed block of a path, and those that end one of a packet.
LEMMA CmdsOfShell ==
    ASSUME NEW t \in Target
    PROVE  /\ ShellAt(IptablesCmd(t, "-I") \o UnblockCmds(t), t, 0)
           /\ ShellAt(UnblockCmds(t), t, NumRules(t))
<1> DEFINE a == IptablesCmd(t, "-I")
           b == IptablesCmd(t, "-D")
           n == NumRules(t)
<1>1. n \in Nat
  BY NumRulesNat
<1>2. CallAt(a, t, "-I", 0) /\ CallAt(b, t, "-D", 0)
  BY CmdsOfCall
<1> HIDE DEF a, b
<1>3. /\ a \in Seq(Cmd) /\ Len(a) = n
      /\ \A j \in 1..n : a[j] = [op |-> "-I", rule |-> <<t, j>>]
  BY <1>1, <1>2 DEF CallAt
<1>4. /\ b \in Seq(Cmd) /\ Len(b) = n
      /\ \A j \in 1..n : b[j] = [op |-> "-D", rule |-> <<t, j>>]
  BY <1>1, <1>2 DEF CallAt
<1>5. ShellAt(b, t, n)
  <2> SUFFICES ASSUME NEW j \in 1..n PROVE b[j] = Step(t, n + j)
    BY <1>1, <1>4 DEF ShellAt
  <2>1. ~(n + j <= n) /\ (n + j) - n = j
    BY <1>1
  <2>2. QED
    BY <1>4, <2>1 DEF Step
<1>6. ShellAt(a \o b, t, 0)
  <2>1. /\ a \o b \in Seq(Cmd) /\ Len(a \o b) = 2 * n
        /\ \A j \in 1..(2 * n) :
              (a \o b)[j] = IF j <= n THEN a[j] ELSE b[j - n]
    BY <1>1, <1>3, <1>4
  <2> SUFFICES ASSUME NEW j \in 1..(2 * n) PROVE (a \o b)[j] = Step(t, 0 + j)
    BY <1>1, <2>1 DEF ShellAt
  <2>2. CASE j <= n
    BY <1>1, <1>3, <2>1, <2>2 DEF Step
  <2>3. CASE ~(j <= n)
    <3>1. j - n \in 1..n
      BY <1>1, <2>3
    <3>2. (a \o b)[j] = [op |-> "-D", rule |-> <<t, j - n>>]
      BY <1>4, <2>1, <2>3, <3>1
    <3>3. QED
      BY <2>3, <3>2 DEF Step
  <2>4. QED
    BY <2>2, <2>3
<1>7. QED
  BY <1>5, <1>6 DEF UnblockCmds, a, b

-----------------------------------------------------------------------------
(* The shells that hold a rule.                                            *)

LEMMA HoldingFinite ==
    ASSUME TypeOK, NEW r \in Rule
    PROVE  /\ IsFiniteSet(Holding(r))
           /\ Cardinality(Holding(r)) \in Nat
           /\ \A s \in Holding(r) : Cardinality(Holding(r)) > 0
<1>1. IsFiniteSet(1..Len(shells))
  BY FS_Interval DEF TypeOK
<1>2. Holding(r) \in SUBSET (1..Len(shells))
  BY DEF Holding
<1>3. IsFiniteSet(Holding(r))
  BY <1>1, <1>2, FS_Subset
<1>4. QED
  BY <1>3, FS_CardinalityType, FS_EmptySet

LEMMA HoldingHolds ==
    ASSUME NEW r
    PROVE  /\ Holding(r) = {s \in 1..Len(shells) : Holds(shells[s], r)}
           /\ Holding(r)' = {s \in 1..Len(shells') : Holds(shells'[s], r)}
BY DEF Holding, Holds, Has

\* A new shell holds the rules that its commands delete without having
\* inserted them.
LEMMA HoldingNew ==
    ASSUME TypeOK, NEW q \in Seq(Cmd), shells' = Append(shells, q),
           NEW r \in Rule
    PROVE  Cardinality(Holding(r)') =
             IF Holds(q, r) THEN Cardinality(Holding(r)) + 1
                            ELSE Cardinality(Holding(r))
<1> DEFINE n == Len(shells)
<1>1. /\ n \in Nat /\ Len(shells') = n + 1 /\ shells'[n + 1] = q
      /\ \A s \in 1..n : shells'[s] = shells[s]
  BY DEF TypeOK
<1>2. n + 1 \notin Holding(r)
  BY <1>1, HoldingHolds
<1>3. CASE Holds(q, r)
  <2>1. Holding(r)' = Holding(r) \cup {n + 1}
    BY <1>1, <1>3, HoldingHolds
  <2>2. QED
    BY <1>2, <1>3, <2>1, HoldingFinite, FS_AddElement
<1>4. CASE ~Holds(q, r)
  <2>1. Holding(r)' = Holding(r)
    <3>1. ASSUME NEW u PROVE u \in Holding(r)' <=> u \in Holding(r)
      BY <1>1, <1>4, HoldingHolds
    <3>2. QED
      BY <3>1
  <2>2. QED
    BY <1>4, <2>1
<1>5. QED
  BY <1>3, <1>4

\* A command of shell s changes what this shell holds, and no other.
LEMMA HoldingMoved ==
    ASSUME TypeOK, NEW s \in 1..Len(shells), NEW q,
           shells' = [shells EXCEPT ![s] = q], NEW r \in Rule
    PROVE  Cardinality(Holding(r)') =
             CASE Holds(q, r) /\ ~Holds(shells[s], r) ->
                      Cardinality(Holding(r)) + 1
               [] ~Holds(q, r) /\ Holds(shells[s], r) ->
                      Cardinality(Holding(r)) - 1
               [] OTHER -> Cardinality(Holding(r))
<1>1. /\ Len(shells') = Len(shells) /\ shells'[s] = q
      /\ \A u \in 1..Len(shells) : u # s => shells'[u] = shells[u]
  BY DEF TypeOK
<1>2. s \in Holding(r) <=> Holds(shells[s], r)
  BY HoldingHolds
<1>3. CASE Holds(q, r) /\ ~Holds(shells[s], r)
  <2>1. Holding(r)' = Holding(r) \cup {s}
    BY <1>1, <1>3, HoldingHolds
  <2>2. QED
    BY <1>2, <1>3, <2>1, HoldingFinite, FS_AddElement
<1>4. CASE ~Holds(q, r) /\ Holds(shells[s], r)
  <2>1. Holding(r)' = Holding(r) \ {s}
    BY <1>1, <1>4, HoldingHolds
  <2>2. QED
    BY <1>2, <1>4, <2>1, HoldingFinite, FS_RemoveElement
<1>5. CASE Holds(q, r) <=> Holds(shells[s], r)
  <2>1. Holding(r)' = Holding(r)
    <3>1. ASSUME NEW u PROVE u \in Holding(r)' <=> u \in Holding(r)
      BY <1>1, <1>5, HoldingHolds
    <3>2. QED
      BY <3>1
  <2>2. QED
    BY <1>5, <2>1
<1>6. QED
  BY <1>3, <1>4, <1>5

-----------------------------------------------------------------------------
(* The steps.                                                              *)

LEMMA InitIInv == Init => IInv
<1> SUFFICES ASSUME Init PROVE IInv
  OBVIOUS
<1>1. TypeOK
  <2>1. rules \in [Rule -> Nat] /\ blocks \in [Target -> Nat]
    BY DEF Init, NoRules
  <2>2. shells \in Seq(Seq(Cmd))
    BY EmptySeq DEF Init
  <2>3. QED
    BY <2>1, <2>2 DEF Init, TypeOK
<1>2. ShellsKnown /\ CallKnown /\ Cleared
  BY DEF Init, ShellsKnown, CallKnown, Cleared
<1>3. ASSUME NEW r \in Rule PROVE Holding(r) = {}
  BY DEF Init, Holding
<1>4. Accounted
  <2> SUFFICES ASSUME NEW r \in Rule
               PROVE  rules[r] + Removed(r) =
                        blocks[r[1]] + Cardinality(Holding(r)) + Added(r)
    BY DEF Accounted
  <2>1. Cardinality(Holding(r)) = 0
    BY <1>3, FS_EmptySet
  <2>2. Added(r) = 0 /\ Removed(r) = 0
    BY DEF Init, Added, Removed, Done
  <2>3. rules[r] = 0 /\ blocks[r[1]] = 0
    BY RuleForm DEF Init, NoRules
  <2>4. QED
    BY <2>1, <2>2, <2>3
<1>5. QED
  BY <1>1, <1>2, <1>4 DEF IInv

LEMMA IdleKind ==
    \A c \in [kind : {"block", "unblock", "timed"}, target : Target,
              todo : Seq(Cmd)] : c # Idle
BY DEF Idle

\* A call begins: its first command is still to come.
LEMMA CallBegins ==
    ASSUME IInv, running, call = Idle,
           NEW t \in Target, NEW kind \in {"block", "unblock", "timed"},
           kind = "unblock" => blocks[t] > 0,
           call' = [kind |-> kind, target |-> t,
                    todo |-> IptablesCmd(t, OpOf(kind))],
           UNCHANGED <<running, rules, blocks, shells, stale>>
    PROVE  IInv'
<1>1. OpOf(kind) \in {"-I", "-D"}
  BY DEF OpOf
<1>2. CallAt(IptablesCmd(t, OpOf(kind)), t, OpOf(kind), 0)
  BY <1>1, CmdsOfCall
<1>3. call' \in [kind : {"block", "unblock", "timed"}, target : Target,
                 todo : Seq(Cmd)]
  BY <1>2 DEF CallAt
<1>4. TypeOK'
  BY <1>3 DEF IInv, TypeOK
<1>5. ShellsKnown' /\ Cleared'
  BY DEF IInv, ShellsKnown, Cleared
<1>6. CallKnown'
  <2>1. 0 \in 0..NumRules(t)
    BY NumRulesNat
  <2>2. /\ call'.kind = kind /\ call'.target = t
        /\ call'.todo = IptablesCmd(t, OpOf(kind))
    OBVIOUS
  <2>3. CallAt(call'.todo, call'.target, OpOf(call'.kind), 0)
    BY <1>2, <2>2
  <2>4. QED
    BY <2>1, <2>2, <2>3 DEF CallKnown
<1>7. Accounted'
  <2> SUFFICES ASSUME running', ~stale', NEW r \in Rule
               PROVE  rules'[r] + Removed(r)' =
                        blocks'[r[1]] + Cardinality(Holding(r)') + Added(r)'
    BY DEF Accounted
  <2>1. Holding(r)' = Holding(r)
    BY HoldingHolds
  <2>2. ~Done(r)
    BY DEF Done
  <2>3. ~Done(r)'
    <3>1. r[2] \in Nat \ {0}
      BY RuleForm, NumRulesNat
    <3>2. 0 \in 0..NumRules(t) /\ ~(r[2] <= 0)
      BY <3>1, NumRulesNat
    <3>3. ~(r[1] = t /\ Past(IptablesCmd(t, OpOf(kind)), r))
      BY <1>1, <1>2, <3>2, CallDone
    <3>4. QED
      BY <3>3 DEF Done
  <2>4. rules[r] + Removed(r) =
           blocks[r[1]] + Cardinality(Holding(r)) + Added(r)
    BY DEF IInv, Accounted
  <2>5. Added(r)' = Added(r) /\ Removed(r)' = Removed(r)
    BY <2>2, <2>3 DEF Added, Removed
  <2>6. QED
    BY <2>1, <2>4, <2>5
<1>8. QED
  BY <1>4, <1>5, <1>6, <1>7 DEF IInv

LEMMA CallStep ==
    ASSUME IInv, NEW t \in Target, Block(t) \/ Unblock(t) \/ BlockPacketFor(t)
    PROVE  IInv'
<1>1. CASE Block(t)
  BY <1>1, CallBegins DEF Block, OpOf
<1>2. CASE Unblock(t)
  BY <1>2, CallBegins DEF Unblock, UnblockCmds, OpOf
<1>3. CASE BlockPacketFor(t)
  BY <1>3, CallBegins DEF BlockPacketFor, OpOf
<1>4. QED
  BY <1>1, <1>2, <1>3

\* A shell is started with commands q of a timed block.
LEMMA ShellBegins ==
    ASSUME TypeOK, ShellsKnown, NEW t \in Target, NEW q,
           NEW k \in 0..(2 * NumRules(t)), ShellAt(q, t, k),
           shells' = Append(shells, q)
    PROVE  shells' \in Seq(Seq(Cmd)) /\ ShellsKnown'
<1>1. q \in Seq(Cmd)
  BY DEF ShellAt
<1>2. /\ shells' \in Seq(Seq(Cmd)) /\ Len(shells') = Len(shells) + 1
      /\ Len(shells) \in Nat
      /\ shells'[Len(shells) + 1] = q
      /\ \A s \in 1..Len(shells) : shells'[s] = shells[s]
  BY <1>1 DEF TypeOK
<1>3. ASSUME NEW s \in 1..Len(shells')
      PROVE  \E u \in Target : \E m \in 0..(2 * NumRules(u)) :
                ShellAt(shells'[s], u, m)
  <2>1. CASE s \in 1..Len(shells)
    BY <1>2, <2>1 DEF ShellsKnown
  <2>2. CASE s = Len(shells) + 1
    BY <1>2, <2>2
  <2>3. QED
    BY <1>2, <2>1, <2>2
<1>4. QED
  BY <1>2, <1>3 DEF ShellsKnown

LEMMA BlockPathForStep ==
    ASSUME IInv, NEW t \in Target, BlockPathFor(t)
    PROVE  IInv'
<1> DEFINE q == IptablesCmd(t, "-I") \o UnblockCmds(t)
<1>1. ShellAt(q, t, 0)
  BY CmdsOfShell
<1>2. shells' = Append(shells, q)
  BY DEF BlockPathFor
<1> HIDE DEF q
<1>3. 0 \in 0..(2 * NumRules(t))
  BY NumRulesNat
<1>4. shells' \in Seq(Seq(Cmd)) /\ ShellsKnown'
  BY <1>1, <1>2, <1>3, ShellBegins DEF IInv
<1>5. TypeOK'
  BY <1>4 DEF BlockPathFor, IInv, TypeOK
<1>6. CallKnown' /\ Cleared'
  BY DEF BlockPathFor, IInv, CallKnown, Cleared
<1>7. Accounted'
  <2> SUFFICES ASSUME running', ~stale', NEW r \in Rule
               PROVE  rules'[r] + Removed(r)' =
                        blocks'[r[1]] + Cardinality(Holding(r)') + Added(r)'
    BY DEF Accounted
  <2>1. r[2] \in Nat \ {0} /\ ~(r[2] <= 0)
    BY RuleForm, NumRulesNat
  <2>2. ~Holds(q, r)
    <3>1. Holds(q, r) => r[2] <= 0
      BY <1>1, <1>3, ShellHolds
    <3>2. QED
      BY <2>1, <3>1
  <2>3. Cardinality(Holding(r)') = Cardinality(Holding(r))
    BY <1>1, <1>2, <2>2, HoldingNew DEF IInv, ShellAt
  <2>4. Added(r)' = Added(r) /\ Removed(r)' = Removed(r)
    BY DEF BlockPathFor, Added, Removed, Done
  <2>5. QED
    BY <2>3, <2>4 DEF BlockPathFor, IInv, Accounted
<1>8. QED
  BY <1>4, <1>5, <1>6, <1>7 DEF IInv

\* Which rules the call in progress has dealt with.
LEMMA DoneUpTo ==
    ASSUME TypeOK, call # Idle, NEW k \in 0..NumRules(call.target),
           CallAt(call.todo, call.target, OpOf(call.kind), k), NEW r \in Rule
    PROVE  Done(r) <=> r[1] = call.target /\ r[2] <= k
<1>1. OpOf(call.kind) \in {"-I", "-D"} /\ call.target \in Target
  BY DEF OpOf, TypeOK
<1>2. (r[1] = call.target /\ Past(call.todo, r))
      <=> (r[1] = call.target /\ r[2] <= k)
  BY <1>1, CallDone
<1>3. QED
  BY <1>2 DEF Done

LEMMA CommandStep == ASSUME IInv, Command PROVE IInv'
<1>1. call # Idle
  BY DEF Command, Idle
<1>2. call \in [kind : {"block", "unblock", "timed"}, target : Target,
                todo : Seq(Cmd)]
  BY <1>1 DEF IInv, TypeOK
<1> DEFINE t == call.target
           op == OpOf(call.kind)
           d == Head(call.todo)
<1>3. PICK k \in 0..NumRules(t) : CallAt(call.todo, t, op, k)
  BY <1>1 DEF IInv, CallKnown
<1>4. t \in Target /\ op \in {"-I", "-D"} /\ k \in Nat
  BY <1>2, NumRulesNat DEF OpOf
<1>5. /\ k + 1 \in 1..NumRules(t) /\ k + 1 \in 0..NumRules(t)
      /\ d = [op |-> op, rule |-> <<t, k + 1>>]
      /\ CallAt(Tail(call.todo), t, op, k + 1)
  <2> HIDE DEF t, op
  <2>1. call.todo # <<>>
    BY DEF Command
  <2> DEFINE q == call.todo
  <2>2. CallAt(q, t, op, k) /\ q # <<>>
    BY <1>3, <2>1
  <2> HIDE DEF q
  <2>3. /\ k + 1 \in 1..NumRules(t)
        /\ Head(q) = [op |-> op, rule |-> <<t, k + 1>>]
        /\ CallAt(Tail(q), t, op, k + 1)
    BY <1>3, <1>4, <2>2, CallNext
  <2>4. k + 1 \in 0..NumRules(t)
    BY <1>4, <2>3, NumRulesNat
  <2>5. QED
    BY <2>3, <2>4 DEF q
<1>6. /\ call' \in [kind : {"block", "unblock", "timed"}, target : Target,
                    todo : Seq(Cmd)]
      /\ call'.kind = call.kind /\ call'.target = t
      /\ call'.todo = Tail(call.todo)
  BY <1>2, <1>5 DEF Command, CallAt
<1>7. call' # Idle
  BY <1>6, IdleKind
<1> DEFINE c == <<t, k + 1>>
<1>8. c \in Rule /\ d.rule = c /\ d.op = op
  BY <1>4, <1>5, RuleForm
<1>9. /\ rules' = [rules EXCEPT ![c] =
                       IF op = "-I" THEN rules[c] + 1 ELSE rules[c] - 1]
      /\ op = "-D" => rules[c] > 0
      /\ UNCHANGED <<running, blocks, shells, stale>>
  BY <1>8 DEF Command, Applied, Works
<1>10. TypeOK'
  <2>1. rules' \in [Rule -> Nat]
    BY <1>4, <1>8, <1>9 DEF IInv, TypeOK
  <2>2. QED
    BY <1>6, <1>9, <2>1 DEF IInv, TypeOK
<1>11. ShellsKnown' /\ Cleared'
  BY <1>9 DEF IInv, ShellsKnown, Cleared
<1>12. CallKnown'
  <2>1. CallAt(call'.todo, call'.target, OpOf(call'.kind), k + 1)
    BY <1>5, <1>6
  <2>2. k + 1 \in 0..NumRules(call'.target)
    BY <1>5, <1>6
  <2>3. QED
    BY <1>1, <1>6, <1>9, <2>1, <2>2 DEF IInv, CallKnown
<1>13. Accounted'
  <2> SUFFICES ASSUME running', ~stale', NEW r \in Rule
               PROVE  rules'[r] + Removed(r)' =
                        blocks'[r[1]] + Cardinality(Holding(r)') + Added(r)'
    BY DEF Accounted
  <2>1. rules[r] + Removed(r) =
           blocks[r[1]] + Cardinality(Holding(r)) + Added(r)
    BY <1>9 DEF IInv, Accounted
  <2>2. Holding(r)' = Holding(r)
    BY <1>9, HoldingHolds
  <2>3. Done(r) <=> r[1] = t /\ r[2] <= k
    BY <1>1, <1>3, DoneUpTo DEF IInv
  <2>4. Done(r)' <=> r[1] = t /\ r[2] <= k + 1
    <3>1. Done(r)' <=> r[1] = t /\ Past(Tail(call.todo), r)
      BY <1>6, <1>7 DEF Done, Past
    <3> DEFINE q == Tail(call.todo)
    <3>2. CallAt(q, t, op, k + 1) /\ k + 1 \in 0..NumRules(t)
      BY <1>5
    <3> HIDE DEF t, op, q
    <3>3. (r[1] = t /\ Past(q, r)) <=> (r[1] = t /\ r[2] <= k + 1)
      BY <1>4, <3>2, CallDone
    <3>4. QED
      BY <3>1, <3>3 DEF q
  <2>5. r = c <=> r[1] = t /\ r[2] = k + 1
    BY RuleForm, PairEqual
  <2>6. /\ rules[r] \in Nat /\ blocks[r[1]] \in Nat /\ r[2] \in Nat
        /\ Cardinality(Holding(r)) \in Nat
    BY RuleForm, NumRulesNat, HoldingFinite DEF IInv, TypeOK
  <2>7. rules'[r] = IF r = c THEN (IF op = "-I" THEN rules[r] + 1
                                                ELSE rules[r] - 1)
                             ELSE rules[r]
    BY <1>8, <1>9 DEF IInv, TypeOK
  <2>8. op = "-I" <=> call.kind # "unblock"
    BY DEF OpOf
  <2> HIDE DEF t, op, c
  <2>9. CASE r = c
    <3>1. ~Done(r) /\ Done(r)'
      BY <1>4, <2>3, <2>4, <2>5, <2>6, <2>9
    <3>2. /\ Added(r) = 0 /\ Removed(r) = 0
          /\ Added(r)' = (IF op = "-I" THEN 1 ELSE 0)
          /\ Removed(r)' = (IF op = "-I" THEN 0 ELSE 1)
      BY <1>6, <2>8, <3>1 DEF Added, Removed
    <3>3. QED
      BY <1>9, <2>1, <2>2, <2>6, <2>7, <2>9, <3>2
  <2>10. CASE r # c
    <3>1. Done(r) <=> Done(r)'
      BY <1>4, <2>3, <2>4, <2>5, <2>6, <2>10
    <3>2. Added(r)' = Added(r) /\ Removed(r)' = Removed(r)
      BY <1>6, <3>1 DEF Added, Removed
    <3>3. QED
      BY <1>9, <2>1, <2>2, <2>7, <2>10, <3>2
  <2>11. QED
    BY <2>9, <2>10
<1>14. QED
  BY <1>10, <1>11, <1>12, <1>13 DEF IInv

LEMMA ReturnStep == ASSUME IInv, Return PROVE IInv'
<1> DEFINE t == call.target
<1>1. /\ call # Idle /\ call.todo = <<>> /\ call' = Idle
      /\ UNCHANGED <<running, rules, stale>>
  BY DEF Return
<1>2. call \in [kind : {"block", "unblock", "timed"}, target : Target,
                todo : Seq(Cmd)]
  BY <1>1 DEF IInv, TypeOK
<1>3. t \in Target /\ blocks[t] \in Nat /\ running
      /\ (call.kind = "unblock" => blocks[t] > 0)
  BY <1>1, <1>2 DEF IInv, TypeOK, CallKnown
<1>4. blocks' = [blocks EXCEPT ![t] =
           CASE call.kind = "block" -> blocks[t] + 1
             [] call.kind = "unblock" -> blocks[t] - 1
             [] OTHER -> blocks[t]]
  BY DEF Return
<1>5. blocks' \in [Target -> Nat]
  BY <1>3, <1>4 DEF IInv, TypeOK
<1>6. /\ shells' \in Seq(Seq(Cmd)) /\ ShellsKnown'
      /\ \A r \in Rule : Cardinality(Holding(r)') =
            IF call.kind = "timed" /\ r[1] = t
            THEN Cardinality(Holding(r)) + 1 ELSE Cardinality(Holding(r))
  <2>1. CASE call.kind = "timed"
    <3> DEFINE q == UnblockCmds(t)
    <3>1. shells' = Append(shells, q)
      BY <2>1 DEF Return
    <3> HIDE DEF t
    <3>2. ShellAt(q, t, NumRules(t)) /\ q \in Seq(Cmd)
      BY <1>3, CmdsOfShell DEF ShellAt
    <3>3. NumRules(t) \in 0..(2 * NumRules(t))
      BY NumRulesNat
    <3> HIDE DEF q
    <3>4. shells' \in Seq(Seq(Cmd)) /\ ShellsKnown'
      BY <1>3, <3>1, <3>2, <3>3, ShellBegins DEF IInv
    <3>5. ASSUME NEW r \in Rule PROVE Holds(q, r) <=> r[1] = t
      <4>1. r[2] \in Nat \ {0} /\ (r[1] = t => r[2] <= NumRules(t))
            /\ NumRules(t) \in Nat
        BY RuleForm, NumRulesNat
      <4>2. Holds(q, r) <=> r[1] = t /\ r[2] <= NumRules(t)
                            /\ NumRules(t) < NumRules(t) + r[2]
        BY <1>3, <3>2, <3>3, ShellHolds
      <4>3. QED
        BY <4>1, <4>2
    <3>6. QED
      BY <2>1, <3>1, <3>2, <3>4, <3>5, HoldingNew DEF IInv
  <2>2. CASE call.kind # "timed"
    <3>1. shells' = shells
      BY <2>2 DEF Return
    <3>2. QED
      BY <2>2, <3>1, HoldingHolds DEF IInv, TypeOK, ShellsKnown
  <2>3. QED
    BY <2>1, <2>2
<1>7. TypeOK'
  BY <1>1, <1>5, <1>6 DEF IInv, TypeOK
<1>8. CallKnown' /\ Cleared'
  BY <1>1, <1>3 DEF CallKnown, Cleared
<1>9. Accounted'
  <2> SUFFICES ASSUME running', ~stale', NEW r \in Rule
               PROVE  rules'[r] + Removed(r)' =
                        blocks'[r[1]] + Cardinality(Holding(r)') + Added(r)'
    BY DEF Accounted
  <2>1. rules[r] + Removed(r) =
           blocks[r[1]] + Cardinality(Holding(r)) + Added(r)
    BY <1>1 DEF IInv, Accounted
  <2>2. Done(r) <=> r[1] = t
    BY <1>1 DEF Done, Past
  <2>3. Added(r)' = 0 /\ Removed(r)' = 0
    BY <1>1 DEF Added, Removed, Done
  <2>4. /\ rules[r] \in Nat /\ blocks[r[1]] \in Nat /\ r[1] \in Target
        /\ Cardinality(Holding(r)) \in Nat
    BY RuleForm, HoldingFinite DEF IInv, TypeOK
  <2>5. CASE r[1] = t
    <3>1. blocks'[r[1]] = CASE call.kind = "block" -> blocks[r[1]] + 1
                            [] call.kind = "unblock" -> blocks[r[1]] - 1
                            [] OTHER -> blocks[r[1]]
      BY <1>3, <1>4, <2>5 DEF IInv, TypeOK
    <3>2. /\ Added(r) = (IF call.kind = "unblock" THEN 0 ELSE 1)
          /\ Removed(r) = (IF call.kind = "unblock" THEN 1 ELSE 0)
      BY <2>2, <2>5 DEF Added, Removed
    <3>3. Cardinality(Holding(r)') =
             IF call.kind = "timed" THEN Cardinality(Holding(r)) + 1
                                    ELSE Cardinality(Holding(r))
      BY <1>6, <2>5
    <3>4. call.kind \in {"block", "unblock", "timed"}
      BY <1>2
    <3>5. rules'[r] = rules[r]
      BY <1>1
    <3>6. CASE call.kind = "block"
      BY <2>1, <2>3, <2>4, <3>1, <3>2, <3>3, <3>5, <3>6
    <3>7. CASE call.kind = "unblock"
      BY <2>1, <2>3, <2>4, <3>1, <3>2, <3>3, <3>5, <3>7
    <3>8. CASE call.kind = "timed"
      BY <2>1, <2>3, <2>4, <3>1, <3>2, <3>3, <3>5, <3>8
    <3>9. QED
      BY <3>4, <3>6, <3>7, <3>8
  <2>6. CASE r[1] # t
    <3>1. blocks'[r[1]] = blocks[r[1]]
      BY <1>4, <2>4, <2>6 DEF IInv, TypeOK
    <3>2. Added(r) = 0 /\ Removed(r) = 0
      BY <2>2, <2>6 DEF Added, Removed
    <3>3. Cardinality(Holding(r)') = Cardinality(Holding(r))
      BY <1>6, <2>6
    <3>4. rules'[r] = rules[r]
      BY <1>1
    <3>5. QED
      BY <2>1, <2>3, <2>4, <3>1, <3>2, <3>3, <3>4
  <2>7. QED
    BY <2>5, <2>6
<1>10. QED
  BY <1>6, <1>7, <1>8, <1>9 DEF IInv

LEMMA ShellStep ==
    ASSUME IInv, NEW s \in 1..Len(shells), Shell(s)
    PROVE  IInv'
<1> DEFINE q == shells[s]
           d == Head(q)
<1>1. /\ q # <<>> /\ shells' = [shells EXCEPT ![s] = Tail(q)]
      /\ UNCHANGED <<running, call, blocks, stale>>
      /\ IF running /\ Works(d) THEN Applied(d) ELSE UNCHANGED rules
  BY DEF Shell
<1>2. PICK t \in Target : \E k \in 0..(2 * NumRules(t)) : ShellAt(q, t, k)
  BY DEF IInv, ShellsKnown
<1>3. PICK k \in 0..(2 * NumRules(t)) : ShellAt(q, t, k)
  BY <1>2
<1> DEFINE n == NumRules(t)
<1>4. n \in Nat \ {0} /\ k \in Nat
  BY NumRulesNat
<1> HIDE DEF q
<1>5. /\ k + 1 \in 1..(2 * n) /\ d = Step(t, k + 1)
      /\ ShellAt(Tail(q), t, k + 1)
  BY <1>1, <1>3, ShellNext
<1>6. Tail(q) \in Seq(Cmd) /\ k + 1 \in 0..(2 * n)
  BY <1>4, <1>5 DEF ShellAt
<1> DEFINE i == IF k + 1 <= n THEN k + 1 ELSE (k + 1) - n
           c == <<t, i>>
           op == IF k + 1 <= n THEN "-I" ELSE "-D"
<1>7. i \in 1..n /\ c \in Rule /\ d = [op |-> op, rule |-> c]
  <2>1. i \in 1..n
    BY <1>4, <1>5
  <2>2. c \in Rule
    BY <2>1, RuleForm
  <2>3. d = [op |-> op, rule |-> c]
    BY <1>5 DEF Step
  <2>4. QED
    BY <2>1, <2>2, <2>3
<1>8. d.op = op /\ d.rule = c
  BY <1>7
<1>9. /\ rules' = IF running /\ (op = "-D" => rules[c] > 0)
                  THEN [rules EXCEPT ![c] = IF op = "-I" THEN rules[c] + 1
                                                         ELSE rules[c] - 1]
                  ELSE rules
  BY <1>1, <1>8 DEF Works, Applied
<1> HIDE DEF d, c
<1>10. shells' \in Seq(Seq(Cmd)) /\ ShellsKnown'
  <2>1. /\ shells' \in Seq(Seq(Cmd)) /\ Len(shells') = Len(shells)
        /\ shells'[s] = Tail(q)
        /\ \A u \in 1..Len(shells) : u # s => shells'[u] = shells[u]
    BY <1>1, <1>6 DEF IInv, TypeOK
  <2>2. ASSUME NEW u \in 1..Len(shells')
        PROVE  \E v \in Target : \E m \in 0..(2 * NumRules(v)) :
                  ShellAt(shells'[u], v, m)
    <3>1. CASE u = s
      BY <1>5, <1>6, <2>1, <3>1
    <3>2. CASE u # s
      BY <2>1, <3>2 DEF IInv, ShellsKnown
    <3>3. QED
      BY <3>1, <3>2
  <2>3. QED
    BY <2>1, <2>2 DEF ShellsKnown
<1>11. TypeOK'
  <2>1. rules' \in [Rule -> Nat]
    BY <1>7, <1>9 DEF IInv, TypeOK
  <2>2. QED
    BY <1>1, <1>10, <2>1 DEF IInv, TypeOK
<1>12. CallKnown' /\ Cleared'
  BY <1>1 DEF IInv, CallKnown, Cleared
<1>13. Accounted'
  <2> SUFFICES ASSUME running', ~stale', NEW r \in Rule
               PROVE  rules'[r] + Removed(r)' =
                        blocks'[r[1]] + Cardinality(Holding(r)') + Added(r)'
    BY DEF Accounted
  <2>0. /\ running /\ rules[r] + Removed(r) =
                blocks[r[1]] + Cardinality(Holding(r)) + Added(r)
    BY <1>1 DEF IInv, Accounted
  <2>1. Added(r)' = Added(r) /\ Removed(r)' = Removed(r)
    BY <1>1 DEF Added, Removed, Done
  <2>2. /\ rules[r] \in Nat /\ blocks[r[1]] \in Nat
        /\ Cardinality(Holding(r)) \in Nat
        /\ r[2] \in 1..NumRules(r[1])
    BY RuleForm, HoldingFinite DEF IInv, TypeOK
  <2>3. Holds(q, r) <=> r[1] = t /\ r[2] <= k /\ k < n + r[2]
    BY <1>3, ShellHolds
  <2>4. Holds(Tail(q), r) <=> r[1] = t /\ r[2] <= k + 1 /\ k + 1 < n + r[2]
    BY <1>5, <1>6, ShellHolds
  <2>5. r = c <=> r[1] = t /\ r[2] = i
    BY RuleForm, PairEqual DEF c
  <2>6. Cardinality(Holding(r)') =
           CASE Holds(Tail(q), r) /\ ~Holds(q, r) ->
                    Cardinality(Holding(r)) + 1
             [] ~Holds(Tail(q), r) /\ Holds(q, r) ->
                    Cardinality(Holding(r)) - 1
             [] OTHER -> Cardinality(Holding(r))
    BY <1>1, HoldingMoved DEF IInv, q
  <2>7. CASE r # c
    <3>1. Holds(q, r) <=> Holds(Tail(q), r)
      BY SMTT(30), <1>4, <2>2, <2>3, <2>4, <2>5, <2>7
    <3>2. rules'[r] = rules[r]
      BY <1>9, <2>7 DEF IInv, TypeOK
    <3>3. QED
      BY <1>1, <2>0, <2>1, <2>6, <3>1, <3>2
  <2>8. CASE r = c /\ k + 1 <= n
    <3>1. ~Holds(q, r) /\ Holds(Tail(q), r)
      BY <1>4, <2>2, <2>3, <2>4, <2>5, <2>8
    <3>2. rules'[r] = rules[r] + 1
      BY <1>9, <2>0, <2>8 DEF IInv, TypeOK
    <3>3. Added(r) \in {0, 1} /\ Removed(r) \in {0, 1}
      BY DEF Added, Removed
    <3>4. Cardinality(Holding(r)') = Cardinality(Holding(r)) + 1
      BY <2>6, <3>1
    <3>5. (rules[r] + 1) + Removed(r) =
             blocks[r[1]] + (Cardinality(Holding(r)) + 1) + Added(r)
      <4> DEFINE m == rules[r]
                 x == Removed(r)
                 b == blocks[r[1]]
                 h == Cardinality(Holding(r))
                 a == Added(r)
      <4>1. /\ m \in Nat /\ x \in {0, 1} /\ b \in Nat /\ h \in Nat
            /\ a \in {0, 1} /\ m + x = b + h + a
        BY <2>0, <2>2, <3>3
      <4> HIDE DEF m, x, b, h, a
      <4>2. (m + 1) + x = b + (h + 1) + a
        BY <4>1
      <4>3. QED
        BY <4>2 DEF m, x, b, h, a
    <3>6. QED
      BY <1>1, <2>1, <3>2, <3>4, <3>5
  <2>9. CASE r = c /\ ~(k + 1 <= n)
    <3>1. Holds(q, r) /\ ~Holds(Tail(q), r)
      BY <1>4, <2>2, <2>3, <2>4, <2>5, <2>9
    <3>2. s \in Holding(r)
      BY <3>1, HoldingHolds DEF q
    <3>3. Cardinality(Holding(r)) > 0
      BY <3>2, HoldingFinite DEF IInv
    <3>4. /\ Added(r) \in {0, 1} /\ Removed(r) \in {0, 1}
          /\ Removed(r) <= blocks[r[1]]
      BY <2>2 DEF Added, Removed, Done, IInv, CallKnown
    <3>5. rules[r] > 0
      BY <2>0, <2>2, <3>3, <3>4
    <3>6. rules'[r] = rules[r] - 1
      BY <1>9, <2>0, <2>9, <3>5 DEF IInv, TypeOK
    <3>7. Cardinality(Holding(r)') = Cardinality(Holding(r)) - 1
      BY <2>6, <3>1
    <3>8. (rules[r] - 1) + Removed(r) =
             blocks[r[1]] + (Cardinality(Holding(r)) - 1) + Added(r)
      <4> DEFINE m == rules[r]
                 x == Removed(r)
                 b == blocks[r[1]]
                 h == Cardinality(Holding(r))
                 a == Added(r)
      <4>1. /\ m \in Nat /\ x \in {0, 1} /\ b \in Nat /\ h \in Nat
            /\ a \in {0, 1} /\ m + x = b + h + a
        BY <2>0, <2>2, <3>4
      <4> HIDE DEF m, x, b, h, a
      <4>2. (m - 1) + x = b + (h - 1) + a
        BY <4>1
      <4>3. QED
        BY <4>2 DEF m, x, b, h, a
    <3>9. QED
      BY <1>1, <2>1, <3>6, <3>7, <3>8
  <2>10. QED
    BY <2>7, <2>8, <2>9
<1>14. QED
  BY <1>10, <1>11, <1>12, <1>13 DEF IInv

LEMMA EndTestStep == ASSUME IInv, EndTest PROVE IInv'
<1> USE DEF EndTest
<1>1. TypeOK'
  BY DEF IInv, TypeOK, NoRules
<1>2. ShellsKnown' /\ CallKnown'
  BY DEF IInv, ShellsKnown, CallKnown
<1>3. Cleared' /\ Accounted'
  BY DEF Cleared, Accounted
<1>4. QED
  BY <1>1, <1>2, <1>3 DEF IInv

LEMMA NextTestStep == ASSUME IInv, NextTest PROVE IInv'
<1>1. TypeOK'
  BY DEF NextTest, IInv, TypeOK, NoRules
<1>2. ShellsKnown' /\ Cleared' /\ call' = call /\ call = Idle
  BY DEF NextTest, IInv, ShellsKnown, Cleared, CallKnown
<1>3. CallKnown'
  BY <1>2 DEF CallKnown
<1>4. Accounted'
  <2> SUFFICES ASSUME running', ~stale', NEW r \in Rule
               PROVE  rules'[r] + Removed(r)' =
                        blocks'[r[1]] + Cardinality(Holding(r)') + Added(r)'
    BY DEF Accounted
  <2>1. \A s \in 1..Len(shells) : shells[s] = <<>>
    BY DEF NextTest
  <2>2. Holding(r)' = {}
    BY <2>1 DEF NextTest, Holding, Has
  <2>3. Added(r)' = 0 /\ Removed(r)' = 0
    BY <1>2 DEF Added, Removed, Done
  <2>4. rules'[r] = 0 /\ blocks'[r[1]] = 0
    BY RuleForm DEF NextTest, NoRules, IInv, Cleared
  <2>5. QED
    BY <2>2, <2>3, <2>4, FS_EmptySet
<1>5. QED
  BY <1>1, <1>2, <1>3, <1>4 DEF IInv

LEMMA NextIInv == IInv /\ [Next]_vars => IInv'
<1> SUFFICES ASSUME IInv, [Next]_vars PROVE IInv'
  OBVIOUS
<1>1. CASE Next
  BY <1>1, CallStep, BlockPathForStep, CommandStep, ReturnStep, ShellStep,
     EndTestStep, NextTestStep DEF Next
<1>2. CASE UNCHANGED vars
  <2> USE <1>2 DEF vars
  <2>1. TypeOK' /\ ShellsKnown' /\ CallKnown' /\ Cleared'
    BY DEF IInv, TypeOK, ShellsKnown, CallKnown, Cleared
  <2>2. Accounted'
    <3>1. \A r : /\ Holding(r)' = Holding(r)
                 /\ Added(r)' = Added(r) /\ Removed(r)' = Removed(r)
      BY HoldingHolds DEF Added, Removed, Done
    <3>2. QED
      BY <3>1 DEF IInv, Accounted
  <2>3. QED
    BY <2>1, <2>2 DEF IInv
<1>3. QED
  BY <1>1, <1>2

LEMMA AlwaysIInv == Spec => []IInv
BY InitIInv, NextIInv, PTL DEF Spec

-----------------------------------------------------------------------------
(* What follows.                                                           *)

\* Between two calls the rules in the chains are exactly those of the blocks
\* that the script has not undone and of the timed blocks that have not ended,
\* however the shells of timed blocks run beside the script (block_path,
\* unblock_path, block_packet_type).
THEOREM RulesAlwaysAccounted == Spec => []RulesAccounted
<1>1. IInv => RulesAccounted
  <2> SUFFICES ASSUME IInv, running, call = Idle, ~stale, NEW r \in Rule
               PROVE  rules[r] = blocks[r[1]] + Cardinality(Holding(r))
    BY DEF RulesAccounted
  <2>1. Added(r) = 0 /\ Removed(r) = 0
    BY DEF Added, Removed, Done
  <2>2. /\ rules[r] \in Nat /\ blocks[r[1]] \in Nat
        /\ Cardinality(Holding(r)) \in Nat
    BY RuleForm, HoldingFinite DEF IInv, TypeOK
  <2>3. QED
    BY <2>1, <2>2 DEF IInv, Accounted
<1>2. QED
  BY AlwaysIInv, <1>1, PTL

\* Unless a shell of an earlier test interferes, every iptables -D of
\* unblock_path() and unblock_packet_type() finds its rule.
THEOREM UnblockAlwaysWorks == Spec => []UnblockWorks
<1>1. IInv => UnblockWorks
  <2> SUFFICES ASSUME IInv, call.todo # <<>>, ~stale,
                      Head(call.todo).op = "-D"
               PROVE  rules[Head(call.todo).rule] > 0
    BY DEF UnblockWorks, Works
  <2>1. call # Idle
    BY DEF Idle
  <2> DEFINE t == call.target
             op == OpOf(call.kind)
             q == call.todo
  <2>2. PICK k \in 0..NumRules(t) : CallAt(q, t, op, k)
    BY <2>1 DEF IInv, CallKnown
  <2>3. t \in Target /\ op \in {"-I", "-D"} /\ running
    BY <2>1 DEF IInv, TypeOK, OpOf, CallKnown
  <2>4. Done(<<t, k + 1>>) <=> <<t, k + 1>>[1] = t /\ <<t, k + 1>>[2] <= k
    <3>1. k + 1 \in 1..NumRules(t)
      <4> HIDE DEF t, op, q
      <4>1. q # <<>>
        BY DEF q
      <4>2. QED
        BY <2>2, <2>3, <4>1, CallNext
    <3>2. <<t, k + 1>> \in Rule
      BY <2>3, <3>1, RuleForm
    <3>3. QED
      BY <2>1, <2>2, <3>2, DoneUpTo DEF IInv
  <2>5. /\ k + 1 \in 1..NumRules(t) /\ k \in Nat
        /\ Head(q) = [op |-> op, rule |-> <<t, k + 1>>]
    <3> HIDE DEF t, op, q
    <3>1. q # <<>>
      BY DEF q
    <3>2. /\ k + 1 \in 1..NumRules(t)
          /\ Head(q) = [op |-> op, rule |-> <<t, k + 1>>]
      BY <2>2, <2>3, <3>1, CallNext
    <3>3. QED
      BY <3>2, NumRulesNat
  <2> DEFINE c == <<t, k + 1>>
  <2>6. op = "-D" /\ call.kind = "unblock" /\ Head(q).rule = c
    BY <2>5 DEF OpOf
  <2>7. c \in Rule /\ c[1] = t /\ c[2] = k + 1
    BY <2>3, <2>5, RuleForm
  <2>8. Added(c) = 0 /\ Removed(c) = 0
    BY <2>4, <2>5, <2>6, <2>7 DEF Added, Removed
  <2>9. blocks[t] \in Nat /\ blocks[t] > 0
    BY <2>1, <2>3, <2>6 DEF IInv, TypeOK, CallKnown
  <2>10. Cardinality(Holding(c)) \in Nat /\ rules[c] \in Nat
    BY <2>7, HoldingFinite DEF IInv, TypeOK
  <2>11. rules[c] + Removed(c) =
            blocks[t] + Cardinality(Holding(c)) + Added(c)
    BY <2>3, <2>7 DEF IInv, Accounted
  <2>12. QED
    BY <2>6, <2>8, <2>9, <2>10, <2>11
<1>2. QED
  BY AlwaysIInv, <1>1, PTL
=============================================================================
