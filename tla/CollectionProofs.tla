-------------------------- MODULE CollectionProofs --------------------------
(***************************************************************************)
(* Collections of nodes, volumes, connections and peer devices.  First the *)
(* OrderedSet that they are made of: its two representations stay          *)
(* consistent for every set of keys, and the class implements              *)
(* InsertionOrder.  Then the operations of collections that wait in        *)
(* event(): the patterns that end a wait, that what is waited for was not  *)
(* taken before, and that it is of the operation itself, for every set of  *)
(* nodes, volumes and calls.                                               *)
(***************************************************************************)
EXTENDS OrderedSet, Events, FiniteSetTheorems, TLAPS

\* What the three facts about the contents need of each other.
Consistent == TypeOK /\ NoDuplicates /\ MapMatchesItems

SetInv == Consistent /\ IndexNeverLow

\* In a list without repetitions, FirstAt finds the one place of a member.
LEMMA FirstAtIsPlace ==
    ASSUME NEW s \in Seq(Key), NEW k \in ToSet(s),
           \A i, j \in DOMAIN s : s[i] = s[j] => i = j
    PROVE  FirstAt(s, k) \in DOMAIN s /\ s[FirstAt(s, k)] = k
<1>1. PICK i \in DOMAIN s : s[i] = k
  BY DEF ToSet
<1>2. \A j \in 1..(i - 1) : s[j] # k
  BY <1>1
<1>3. QED
  BY <1>1, <1>2 DEF FirstAt

\* Removing one place keeps the entries before it and shifts those behind it.
LEMMA RemoveAtEntries ==
    ASSUME NEW s \in Seq(Key), NEW p \in DOMAIN s
    PROVE  /\ RemoveAt(s, p) \in Seq(Key)
           /\ Len(RemoveAt(s, p)) = Len(s) - 1
           /\ \A i \in 1..(Len(s) - 1) :
                 RemoveAt(s, p)[i] = IF i < p THEN s[i] ELSE s[i + 1]
<1> DEFINE a == SubSeq(s, 1, p - 1)
           b == SubSeq(s, p + 1, Len(s))
<1>1. /\ a \in Seq(Key) /\ Len(a) = p - 1
      /\ \A i \in 1..(p - 1) : a[i] = s[i]
  OBVIOUS
<1>2. /\ b \in Seq(Key) /\ Len(b) = Len(s) - p
      /\ \A i \in 1..(Len(s) - p) : b[i] = s[p + i]
  OBVIOUS
<1>3. RemoveAt(s, p) = a \o b
  BY DEF RemoveAt
<1> HIDE DEF a, b
<1>4. a \o b \in Seq(Key) /\ Len(a \o b) = Len(s) - 1
  BY <1>1, <1>2
<1>5. ASSUME NEW i \in 1..(Len(s) - 1)
      PROVE  (a \o b)[i] = IF i < p THEN s[i] ELSE s[i + 1]
  <2>1. CASE i < p
    BY <1>1, <1>2, <2>1
  <2>2. CASE i >= p
    <3>1. (a \o b)[i] = b[i - (p - 1)]
      BY <1>1, <1>2, <2>2
    <3>2. b[i - (p - 1)] = s[i + 1]
      BY <1>2, <2>2
    <3>3. QED
      BY <2>2, <3>1, <3>2
  <2>3. i < p \/ i >= p
    OBVIOUS
  <2>4. QED
    BY <2>1, <2>2, <2>3
<1>6. QED
  BY <1>3, <1>4, <1>5

\* A member leaves a list without repetitions and nothing else does.
LEMMA RemoveAtMembers ==
    ASSUME NEW s \in Seq(Key), NEW p \in DOMAIN s,
           \A i, j \in DOMAIN s : s[i] = s[j] => i = j
    PROVE  /\ ToSet(RemoveAt(s, p)) = ToSet(s) \ {s[p]}
           /\ \A i, j \in DOMAIN RemoveAt(s, p) :
                 RemoveAt(s, p)[i] = RemoveAt(s, p)[j] => i = j
<1> DEFINE r == RemoveAt(s, p)
<1>1. /\ r \in Seq(Key) /\ DOMAIN r = 1..(Len(s) - 1)
      /\ \A i \in 1..(Len(s) - 1) : r[i] = IF i < p THEN s[i] ELSE s[i + 1]
  BY RemoveAtEntries
<1> HIDE DEF r
<1>2. \A i, j \in DOMAIN r : r[i] = r[j] => i = j
  <2> SUFFICES ASSUME NEW i \in DOMAIN r, NEW j \in DOMAIN r, r[i] = r[j]
               PROVE  i = j
    OBVIOUS
  <2>1. CASE i < p /\ j < p
    BY <1>1, <2>1
  <2>2. CASE i < p /\ ~(j < p)
    BY <1>1, <2>2
  <2>3. CASE ~(i < p) /\ j < p
    BY <1>1, <2>3
  <2>4. CASE ~(i < p) /\ ~(j < p)
    <3>1. s[i + 1] = s[j + 1] /\ i + 1 \in DOMAIN s /\ j + 1 \in DOMAIN s
      BY <1>1, <2>4
    <3>2. QED
      BY <1>1, <3>1
  <2>5. QED
    BY <2>1, <2>2, <2>3, <2>4
<1>3. ASSUME NEW i \in DOMAIN r PROVE r[i] \in ToSet(s) \ {s[p]}
  BY <1>1, <1>3 DEF ToSet
<1>4. ASSUME NEW i \in DOMAIN s, s[i] # s[p]
      PROVE  \E j \in DOMAIN r : r[j] = s[i]
  <2>1. CASE i < p
    <3>1. i \in DOMAIN r /\ r[i] = s[i]
      BY <1>1, <2>1
    <3>2. QED
      BY <3>1
  <2>2. CASE i > p
    <3>1. i - 1 \in DOMAIN r /\ r[i - 1] = s[i]
      BY <1>1, <2>2
    <3>2. QED
      BY <3>1
  <2>3. QED
    BY <1>4, <2>1, <2>2
<1>5. ToSet(r) = ToSet(s) \ {s[p]}
  BY <1>3, <1>4 DEF ToSet
<1>6. QED
  BY <1>2, <1>5 DEF r

\* An OrderedSet() starts empty.
LEMMA SetInvInit == Empty => SetInv
BY DEF Empty, SetInv, Consistent, TypeOK, NoDuplicates, MapMatchesItems,
       IndexNeverLow, ToSet

\* add() of a key that is not in the set.
LEMMA AddSetInv ==
    ASSUME SetInv, NEW k \in Key, Add(k) PROVE SetInv'
<1>1. k \notin ToSet(items)
  BY DEF SetInv, Consistent, MapMatchesItems, Add, Has
<1>2. /\ items \in Seq(Key) /\ items' \in Seq(Key)
      /\ Len(items') = Len(items) + 1
      /\ \A i \in DOMAIN items : items'[i] = items[i]
      /\ items'[Len(items) + 1] = k
      /\ DOMAIN items' = DOMAIN items \cup {Len(items) + 1}
  BY DEF SetInv, Consistent, TypeOK, Add
<1>3. ToSet(items') = ToSet(items) \cup {k}
  BY <1>2 DEF ToSet
<1>4. TypeOK'
  BY <1>2 DEF SetInv, Consistent, TypeOK, Add
<1>5. NoDuplicates'
  BY <1>1, <1>2 DEF SetInv, Consistent, NoDuplicates, ToSet
<1>6. MapMatchesItems'
  BY <1>3 DEF SetInv, Consistent, MapMatchesItems, Add
<1>7. IndexNeverLow'
  <2> SUFFICES ASSUME NEW i \in DOMAIN items'
               PROVE  map'[items'[i]] >= i - 1
    BY DEF IndexNeverLow
  <2>1. CASE i = Len(items) + 1
    BY <1>2, <2>1 DEF Add
  <2>2. CASE i \in DOMAIN items
    <3>1. items[i] # k /\ items[i] \in DOMAIN map
      BY <1>1, <2>2 DEF SetInv, Consistent, MapMatchesItems, ToSet
    <3>2. map'[items'[i]] = map[items[i]]
      BY <1>2, <2>2, <3>1 DEF Add
    <3>3. QED
      BY <2>2, <3>2 DEF SetInv, IndexNeverLow
  <2>3. QED
    BY <1>2, <2>1, <2>2
<1>8. QED
  BY <1>4, <1>5, <1>6, <1>7 DEF SetInv, Consistent

\* What discard() of a member does to the list.
LEMMA DiscardDrops ==
    ASSUME SetInv, NEW k \in ToSet(items), Discard(k)
    PROVE  \E p \in DOMAIN items : items[p] = k /\ items' = RemoveAt(items, p)
<1>1. /\ FirstAt(items, k) \in DOMAIN items
      /\ items[FirstAt(items, k)] = k
  BY FirstAtIsPlace DEF SetInv, Consistent, TypeOK, NoDuplicates
<1>2. items' = RemoveAt(items, FirstAt(items, k))
  BY DEF Discard, ListRemove
<1>3. QED
  BY <1>1, <1>2

\* discard(), of a member and of a key that is none.
LEMMA DiscardSetInv ==
    ASSUME SetInv, NEW k \in Key, Discard(k) PROVE SetInv'
<1>1. CASE k \notin ToSet(items)
  <2>1. items' = items /\ map' = map
    BY <1>1 DEF SetInv, Consistent, TypeOK, MapMatchesItems, Discard,
                ListRemove
  <2>2. QED
    BY <2>1 DEF SetInv, Consistent, TypeOK, NoDuplicates, MapMatchesItems,
                IndexNeverLow
<1>2. CASE k \in ToSet(items)
  <2>1. PICK p \in DOMAIN items :
            items[p] = k /\ items' = RemoveAt(items, p)
    BY <1>2, DiscardDrops
  <2>2. items \in Seq(Key)
    BY DEF SetInv, Consistent, TypeOK
  <2>3. /\ items' \in Seq(Key) /\ DOMAIN items' = 1..(Len(items) - 1)
        /\ \A i \in 1..(Len(items) - 1) :
              items'[i] = IF i < p THEN items[i] ELSE items[i + 1]
    BY <2>1, <2>2, RemoveAtEntries
  <2>4. ToSet(items') = ToSet(items) \ {k} /\ NoDuplicates'
    BY <2>1, <2>2, RemoveAtMembers DEF SetInv, Consistent, NoDuplicates
  <2>5. TypeOK'
    BY <2>3 DEF SetInv, Consistent, TypeOK, Discard
  <2>6. MapMatchesItems'
    BY <2>4 DEF SetInv, Consistent, MapMatchesItems, Discard
  <2>7. IndexNeverLow'
    <3> SUFFICES ASSUME NEW i \in DOMAIN items'
                 PROVE  map'[items'[i]] >= i - 1
      BY DEF IndexNeverLow
    <3>1. items'[i] \in DOMAIN map'
      BY <2>6 DEF MapMatchesItems, ToSet
    <3>2. map'[items'[i]] = map[items'[i]]
      BY <3>1 DEF Discard
    <3>3. PICK q \in DOMAIN items : q >= i /\ items'[i] = items[q]
      BY <2>2, <2>3
    <3>4. map[items[q]] >= q - 1 /\ map[items[q]] \in Nat
      BY DEF SetInv, Consistent, IndexNeverLow, TypeOK, MapMatchesItems, ToSet
    <3>5. QED
      BY <2>2, <2>3, <3>2, <3>3, <3>4
  <2>8. QED
    BY <2>4, <2>5, <2>6, <2>7 DEF SetInv, Consistent
<1>3. QED
  BY <1>1, <1>2

\* A slice, which makes a new set of some of the entries.
LEMMA SliceSetInv ==
    ASSUME SetInv,
           NEW i \in 1..(Len(items) + 1), NEW j \in 0..Len(items), Slice(i, j)
    PROVE  SetInv'
<1>1. items \in Seq(Key)
  BY DEF SetInv, Consistent, TypeOK
<1>2. /\ items' \in Seq(Key)
      /\ \A x \in DOMAIN items' :
            x + i - 1 \in DOMAIN items /\ items'[x] = items[x + i - 1]
  BY <1>1 DEF Slice
<1>3. NoDuplicates'
  BY <1>1, <1>2 DEF SetInv, Consistent, NoDuplicates
<1>4. map' = [k \in ToSet(items') |-> FirstAt(items', k) - 1]
  BY DEF Slice, Numbered
<1>5. \A k \in ToSet(items') :
         FirstAt(items', k) \in DOMAIN items' /\ items'[FirstAt(items', k)] = k
  BY <1>2, <1>3, FirstAtIsPlace DEF NoDuplicates
<1>6. \A k \in ToSet(items') : FirstAt(items', k) - 1 \in Nat /\ k \in Key
  BY <1>2, <1>5
<1>7. TypeOK' /\ MapMatchesItems'
  BY <1>2, <1>4, <1>6 DEF TypeOK, MapMatchesItems
<1>8. IndexNeverLow'
  <2> SUFFICES ASSUME NEW x \in DOMAIN items'
               PROVE  map'[items'[x]] >= x - 1
    BY DEF IndexNeverLow
  <2>1. items'[x] \in ToSet(items')
    BY DEF ToSet
  <2>2. FirstAt(items', items'[x]) = x
    BY <1>3, <1>5, <2>1 DEF NoDuplicates
  <2>3. map'[items'[x]] = x - 1
    BY <1>4, <2>1, <2>2
  <2>4. QED
    BY <1>2, <2>3
<1>9. QED
  BY <1>3, <1>7, <1>8 DEF SetInv, Consistent

\* Every operation keeps the invariant.
LEMMA SetInvStep == SetInv /\ [Operation]_object => SetInv'
<1> SUFFICES ASSUME SetInv, [Operation]_object PROVE SetInv'
  OBVIOUS
<1>1. ASSUME NEW k \in Key, Add(k) PROVE SetInv'
  BY <1>1, AddSetInv
<1>2. ASSUME NEW k \in Key, Discard(k) PROVE SetInv'
  BY <1>2, DiscardSetInv
<1>3. CASE Pop
  <2>1. items[1] \in Key
    BY <1>3 DEF Pop, SetInv, Consistent, TypeOK
  <2>2. QED
    BY <1>3, <2>1, DiscardSetInv DEF Pop
<1>4. ASSUME NEW i \in 1..(Len(items) + 1), NEW j \in 0..Len(items),
             Slice(i, j)
      PROVE  SetInv'
  BY <1>4, SliceSetInv
<1>5. CASE UNCHANGED object
  BY <1>5 DEF object, SetInv, Consistent, TypeOK, NoDuplicates,
              MapMatchesItems,
              IndexNeverLow
<1>6. QED
  BY <1>1, <1>2, <1>3, <1>4, <1>5 DEF Operation

\* The inductive invariant holds in every reachable state of an OrderedSet.
LEMMA SetInvAlways == SetSpec => []SetInv
BY SetInvInit, SetInvStep, PTL DEF SetSpec

\* The list and the dictionary of an OrderedSet have the same members, for
\* every set of keys: `in' and iteration never disagree.
THEOREM OrderedSetConsistent == SetSpec => []MapMatchesItems
<1>1. SetInv => MapMatchesItems
  BY DEF SetInv, Consistent
<1>2. QED
  BY <1>1, SetInvAlways, PTL

\* A member is listed once, and its recorded index is at least its position.
THEOREM OrderedSetDistinct == SetSpec => [](NoDuplicates /\ IndexNeverLow)
<1>1. SetInv => NoDuplicates /\ IndexNeverLow
  BY DEF SetInv, Consistent
<1>2. QED
  BY <1>1, SetInvAlways, PTL

\* Every step of an OrderedSet is a step of the list of distinct members in
\* insertion order, or leaves that list alone.
LEMMA StepRefines == SetInv /\ [Operation]_object => [Order!Next]_items
<1> SUFFICES ASSUME SetInv, [Operation]_object PROVE [Order!Next]_items
  OBVIOUS
<1>1. ASSUME NEW k \in Key, Add(k) PROVE Order!Next
  <2>1. k \notin ToSet(items)
    BY <1>1 DEF SetInv, Consistent, MapMatchesItems, Add, Has
  <2>2. Order!Insert(k)
    BY <1>1, <2>1 DEF Order!Insert, Order!ToSet, ToSet, Add
  <2>3. QED
    BY <2>2 DEF Order!Next
<1>2. ASSUME NEW k \in Key, Discard(k) PROVE [Order!Next]_items
  <2>1. CASE k \notin ToSet(items)
    BY <1>2, <2>1 DEF Discard, ListRemove
  <2>2. CASE k \in ToSet(items)
    <3>1. PICK p \in DOMAIN items : items' = RemoveAt(items, p)
      BY <1>2, <2>2, DiscardDrops
    <3>2. Order!Drop(p)
      BY <3>1 DEF Order!Drop, Order!RemoveAt, RemoveAt
    <3>3. QED
      BY <3>2 DEF Order!Next
  <2>3. QED
    BY <2>1, <2>2
<1>3. CASE Pop
  <2>1. items[1] \in Key
    BY <1>3 DEF Pop, SetInv, Consistent, TypeOK
  <2>2. QED
    BY <1>2, <1>3, <2>1 DEF Pop
<1>4. ASSUME NEW i \in 1..(Len(items) + 1), NEW j \in 0..Len(items),
             Slice(i, j)
      PROVE  Order!Next
  <2>1. Order!Take(i, j)
    BY <1>4 DEF Order!Take, Slice
  <2>2. QED
    BY <2>1 DEF Order!Next
<1>5. CASE UNCHANGED object
  BY <1>5 DEF object
<1>6. QED
  BY <1>1, <1>2, <1>3, <1>4, <1>5 DEF Operation

\* OrderedSet, with its two representations, implements InsertionOrder.
THEOREM OrderedSetRefines == SetSpec => OrderSpec
<1>1. Empty => Order!Init
  BY DEF Empty, Order!Init
<1>2. QED
  BY <1>1, SetInvAlways, StepRefines, PTL DEF SetSpec, OrderSpec, Order!Spec

-----------------------------------------------------------------------------
(* Operations that wait for events.  The inductive invariant, EventsInv,   *)
(* is the conjunction of the following parts.                              *)

Name == DOMAIN Awaited
Kind == {"destroy", "create", "peer-disk", "Attaching", "Inconsistent",
         "disk:Failed", "Detaching", "Diskless", "Connecting", "StandAlone",
         "Primary", "UpToDate", "Secondary", "VerifyS",
         "peer-disk:Failed", "connection:BrokenPipe"}
Line == [kind : Kind, vol : Volume, by : Nat]

EventsType ==
    /\ pc \in {"idle", "busy", "raised"}
    /\ op \in [name : Name \cup {"none"}, nodes : SUBSET Node,
               vols : SUBSET Volume, id : Nat]
    /\ pc = "busy" => op.id > 0 /\ op.name \in Name
    /\ todo \subseteq op.nodes
    /\ pc # "busy" => todo = {} /\ calls = <<>> /\ goals = {} /\ mask = {}
    /\ \A g \in goals : g.node \in op.nodes /\ g.vol \in op.vols
    /\ unread \in [Node -> Seq(Line)]
    /\ coming \in [Node \X Volume -> Seq(Line)]
    /\ \A n \in Node, v \in Volume :
            \A i \in DOMAIN coming[<<n, v>>] : coming[<<n, v>>][i].vol = v

\* The patterns.
Masked ==
    /\ forbidden = declared \ (mask \cup leaked)
    /\ mask \subseteq declared \ leaked

\* The event() calls: none was made yet, one of two, or all; what the last one
\* waits for.
CallsMade ==
    pc = "busy" =>
        /\ \/ calls = <<>>
           \/ calls = Awaited[op.name]
           \/ op.name = "detach" /\ calls = <<{"Diskless"}>>
           \/ op.name = "up_unconnected"
              /\ calls = <<Settled \cup {"disk:Failed"}>>
        /\ todo # {} \/ calls = Awaited[op.name] => goals = {}
        /\ todo # {} => \/ calls = Awaited[op.name]
                        \/ calls = <<>> /\ op.nodes \subseteq abandoned
        /\ \A g \in goals :
            CASE op.name = "up_unconnected" ->
                    g.kinds = IF calls = <<>>
                              THEN Settled \cup {"disk:Failed"}
                              ELSE {"Attaching"}
              [] op.name = "detach" ->
                    g.kinds = IF calls = <<>> THEN {"Diskless"}
                              ELSE {"disk:Failed", "Detaching"}
              [] op.name = "primary_force" ->
                    calls = <<>> /\ g.kinds \in {{"Primary"}, {"UpToDate"}}
              [] OTHER -> calls = <<>> /\ g.kinds = Awaited[op.name][1]

\* The lines of a volume that are still to be taken.
Lines(n, v) ==
    {x \in ToSet(unread[n]) \cup ToSet(coming[<<n, v>>]) : x.vol = v}

\* Which ones the command of an operation is followed by.
KindsOf(name, n) ==
    CASE name \in {"attach", "up_unconnected"} -> {"Attaching"} \cup Settled
      [] name = "detach" ->
            {IF n \in Old THEN "disk:Failed" ELSE "Detaching", "Diskless"}
      [] name = "down" ->
            {IF n \in Old THEN "disk:Failed" ELSE "Detaching", "Diskless",
             "destroy"}
      [] name = "primary_force" -> {"Primary", "UpToDate"}
      [] OTHER -> Awaited[name][1]

\* What its calls wait for.
Needs(name) ==
    IF name = "primary_force" THEN {{"Primary"}, {"UpToDate"}}
    ELSE ToSet(Awaited[name])

Own(x) == x.by # 0 /\ x.by = op.id
Stale(x) == x.by # 0 /\ x.by # op.id

WhoseLines ==
    \A n \in Node, v \in Volume : \A x \in Lines(n, v) :
        /\ x.by <= op.id
        /\ x.by = 0 => x.kind \in Pattern
        /\ Own(x) => /\ n \in op.nodes \ todo /\ v \in op.vols
                     /\ x.kind \in KindsOf(op.name, n)

\* With which line what an operation makes the kernel write ends.
Final(name) ==
    CASE name = "down" -> {"destroy"}
      [] name = "detach" -> {"Diskless"}
      [] name \in {"attach", "up_unconnected"} -> Settled
      [] OTHER -> {}

\* What may follow a line of the operation o.
Behind(x, y, o) ==
    x.by = o.id /\ o.id # 0 /\ x.vol = y.vol =>
        /\ y.by \in {0, o.id}
        /\ y.by = o.id => x.kind # y.kind /\ x.kind \notin Final(o.name)

Ordered(s, o) ==
    \A i, j \in DOMAIN s : i < j => Behind(s[i], s[j], o)
InOrder(s, t, o) ==
    \A x \in ToSet(s), y \in ToSet(t) : Behind(x, y, o)

LineOrder ==
    \A n \in Node :
        /\ Ordered(unread[n], op)
        /\ \A v \in Volume : /\ Ordered(coming[<<n, v>>], op)
                             /\ InOrder(unread[n], coming[<<n, v>>], op)

\* What operations leave behind that have waited to the end.
LeftOver ==
    \A n \in Node \ abandoned, v \in Volume : \A x \in Lines(n, v) :
        Stale(x) => x.kind \in Settled

\* An own line is left only if the operation still waits for it, or for a later
\* one.
Waits(n, v, x) ==
    /\ pc = "busy"
    /\ \/ calls = Awaited[op.name]
       \/ calls # <<>> /\ op.name # "up_unconnected"
       \/ \E g \in goals : /\ g.node = n /\ g.vol = v
                           /\ \/ x.kind \in g.kinds
                              \/ g.kinds \in {{"Diskless"}, {"destroy"}}
WaitedFor ==
    \A n \in Node \ abandoned, v \in Volume : \A x \in Lines(n, v) :
        Own(x) /\ x.kind \notin Settled => Waits(n, v, x)

\* What was left over is gone when up_unconnected() has seen "Attaching".
PassedOver ==
    pc = "busy" /\ op.name = "up_unconnected" =>
        \A n \in op.nodes \ abandoned, v \in op.vols :
            \/ calls = Awaited["up_unconnected"]
            \/ calls # <<>> /\ \E g \in goals : g.node = n /\ g.vol = v
            \/ \A x \in Lines(n, v) : ~Stale(x)

\* What is waited for, or will be.
Simple == Len(Awaited[op.name]) = 1 \/ \E v : op.vols = {v}
Available(g) == \E x \in Lines(g.node, g.vol) : Own(x) /\ x.kind \in g.kinds
ToBeSeen ==
    pc = "busy" /\ Simple =>
        /\ \A g \in goals : Available(g)
        /\ \A K \in ToSet(calls) : \A g \in GoalsOf(op, K) :
                g.node \notin todo => Available(g)

-----------------------------------------------------------------------------
(* Sequences of lines.                                                     *)

\* Taking the first line leaves the others, one place further on.
LEMMA TailMembers ==
    ASSUME NEW s \in Seq(Line), s # <<>>
    PROVE  /\ Tail(s) \in Seq(Line) /\ Head(s) \in Line
           /\ Head(s) \in ToSet(s)
           /\ ToSet(s) = ToSet(Tail(s)) \cup {Head(s)}
           /\ Len(Tail(s)) = Len(s) - 1
           /\ \A i \in DOMAIN Tail(s) : i + 1 \in DOMAIN s
                                        /\ Tail(s)[i] = s[i + 1]
<1>1. /\ Len(s) \in Nat \ {0} /\ DOMAIN s = 1..Len(s) /\ Head(s) = s[1]
      /\ Tail(s) \in Seq(Line) /\ Len(Tail(s)) = Len(s) - 1
      /\ DOMAIN Tail(s) = 1..(Len(s) - 1)
      /\ \A i \in 1..(Len(s) - 1) : Tail(s)[i] = s[i + 1]
  OBVIOUS
<1>2. 1 \in DOMAIN s /\ Head(s) \in Line
  BY <1>1
<1>3. \A i \in DOMAIN Tail(s) : i + 1 \in DOMAIN s /\ Tail(s)[i] = s[i + 1]
  BY <1>1
<1>4. ToSet(Tail(s)) \subseteq ToSet(s) /\ Head(s) \in ToSet(s)
  BY <1>1, <1>2, <1>3 DEF ToSet
<1>5. ToSet(s) \subseteq ToSet(Tail(s)) \cup {Head(s)}
  <2>1. SUFFICES ASSUME NEW i \in DOMAIN s, i # 1
                 PROVE  s[i] \in ToSet(Tail(s))
    BY <1>1 DEF ToSet
  <2>2. i - 1 \in DOMAIN Tail(s) /\ Tail(s)[i - 1] = s[i]
    BY <1>1, <2>1
  <2>3. QED
    BY <2>2 DEF ToSet
<1>6. QED
  BY <1>1, <1>2, <1>3, <1>4, <1>5

\* A function on 1..n is a sequence.
LEMMA SeqOfFunction ==
    ASSUME NEW S, NEW n \in Nat, NEW f \in [1..n -> S]
    PROVE  f \in Seq(S)
  OBVIOUS

\* Writing a line to a stream adds that line.
LEMMA AppendMembers ==
    ASSUME NEW s \in Seq(Line), NEW x \in Line
    PROVE  /\ Append(s, x) \in Seq(Line)
           /\ ToSet(Append(s, x)) = ToSet(s) \cup {x}
<1>1. /\ Append(s, x) \in Seq(Line) /\ Len(s) \in Nat
      /\ DOMAIN s = 1..Len(s)
      /\ DOMAIN Append(s, x) = 1..(Len(s) + 1)
      /\ \A i \in 1..Len(s) : Append(s, x)[i] = s[i]
      /\ Append(s, x)[Len(s) + 1] = x
  OBVIOUS
<1>2. ToSet(Append(s, x)) \subseteq ToSet(s) \cup {x}
  BY <1>1 DEF ToSet
<1>3. ToSet(s) \subseteq ToSet(Append(s, x))
  BY <1>1 DEF ToSet
<1>4. x \in ToSet(Append(s, x))
  BY <1>1 DEF ToSet
<1>5. QED
  BY <1>1, <1>2, <1>3, <1>4

\* A line of a joined stream is a line of one of its parts.
LEMMA ConcatMembers ==
    ASSUME NEW s \in Seq(Line), NEW t \in Seq(Line)
    PROVE  /\ s \o t \in Seq(Line)
           /\ ToSet(s \o t) = ToSet(s) \cup ToSet(t)
<1>1. /\ s \o t \in Seq(Line) /\ Len(s) \in Nat /\ Len(t) \in Nat
      /\ DOMAIN s = 1..Len(s) /\ DOMAIN t = 1..Len(t)
      /\ DOMAIN (s \o t) = 1..(Len(s) + Len(t))
      /\ \A i \in 1..Len(s) : (s \o t)[i] = s[i]
  OBVIOUS
<1>2. \A i \in 1..Len(t) : i + Len(s) \in DOMAIN (s \o t)
                           /\ (s \o t)[i + Len(s)] = t[i]
  BY <1>1
<1>3. ToSet(s) \subseteq ToSet(s \o t)
  BY <1>1 DEF ToSet
<1>4. ToSet(t) \subseteq ToSet(s \o t)
  BY <1>1, <1>2 DEF ToSet
<1>5. ToSet(s \o t) \subseteq ToSet(s) \cup ToSet(t)
  <2>1. SUFFICES ASSUME NEW i \in DOMAIN (s \o t), i > Len(s)
                 PROVE  (s \o t)[i] \in ToSet(t)
    BY <1>1 DEF ToSet
  <2>2. i - Len(s) \in 1..Len(t) /\ (s \o t)[i] = t[i - Len(s)]
    BY <1>1, <2>1
  <2>3. QED
    BY <1>1, <2>2 DEF ToSet
<1>6. QED
  BY <1>1, <1>3, <1>4, <1>5

\* Taking the first line keeps the others in order.
LEMMA OrderedTail ==
    ASSUME NEW s \in Seq(Line), s # <<>>, NEW o, Ordered(s, o)
    PROVE  /\ Ordered(Tail(s), o)
           /\ \A y \in ToSet(Tail(s)) : Behind(Head(s), y, o)
<1>1. /\ Len(s) \in Nat \ {0} /\ DOMAIN s = 1..Len(s) /\ Head(s) = s[1]
      /\ DOMAIN Tail(s) = 1..(Len(s) - 1)
      /\ \A i \in 1..(Len(s) - 1) : Tail(s)[i] = s[i + 1]
  OBVIOUS
<1>2. Ordered(Tail(s), o)
  <2>1. SUFFICES ASSUME NEW i \in DOMAIN Tail(s), NEW j \in DOMAIN Tail(s),
                        i < j
                 PROVE  Behind(Tail(s)[i], Tail(s)[j], o)
    BY DEF Ordered
  <2>2. /\ i + 1 \in DOMAIN s /\ j + 1 \in DOMAIN s /\ i + 1 < j + 1
        /\ Tail(s)[i] = s[i + 1] /\ Tail(s)[j] = s[j + 1]
    BY <1>1, <2>1
  <2>3. Behind(s[i + 1], s[j + 1], o)
    BY <2>2 DEF Ordered
  <2>4. QED
    BY <2>2, <2>3
<1>3. ASSUME NEW i \in DOMAIN Tail(s)
      PROVE  Behind(Head(s), Tail(s)[i], o)
  <2>1. 1 \in DOMAIN s /\ i + 1 \in DOMAIN s /\ 1 < i + 1
    BY <1>1
  <2>2. Behind(s[1], s[i + 1], o)
    BY <2>1 DEF Ordered
  <2>3. QED
    BY <1>1, <2>2
<1>4. QED
  BY <1>2, <1>3 DEF ToSet

\* A line that may follow all others keeps them in order.
LEMMA OrderedAppend ==
    ASSUME NEW s \in Seq(Line), NEW x \in Line, NEW o, Ordered(s, o),
           \A y \in ToSet(s) : Behind(y, x, o)
    PROVE  Ordered(Append(s, x), o)
<1>1. /\ Len(s) \in Nat /\ DOMAIN s = 1..Len(s)
      /\ DOMAIN Append(s, x) = 1..(Len(s) + 1)
      /\ \A i \in 1..Len(s) : Append(s, x)[i] = s[i]
      /\ Append(s, x)[Len(s) + 1] = x
  OBVIOUS
<1>2. SUFFICES ASSUME NEW i \in DOMAIN Append(s, x),
                      NEW j \in DOMAIN Append(s, x), i < j
               PROVE  Behind(Append(s, x)[i], Append(s, x)[j], o)
  BY DEF Ordered
<1>3. i \in DOMAIN s /\ Append(s, x)[i] = s[i] /\ s[i] \in ToSet(s)
  BY <1>1, <1>2 DEF ToSet
<1>4. CASE j = Len(s) + 1
  BY <1>1, <1>3, <1>4
<1>5. CASE j # Len(s) + 1
  <2>1. j \in DOMAIN s /\ Append(s, x)[j] = s[j]
    BY <1>1, <1>2, <1>5
  <2>2. QED
    BY <1>2, <1>3, <2>1 DEF Ordered
<1>6. QED
  BY <1>4, <1>5

\* Two ordered streams, the second of which may follow the first.
LEMMA OrderedConcat ==
    ASSUME NEW s \in Seq(Line), NEW t \in Seq(Line), NEW o,
           Ordered(s, o), Ordered(t, o), InOrder(s, t, o)
    PROVE  Ordered(s \o t, o)
<1>1. /\ Len(s) \in Nat /\ Len(t) \in Nat
      /\ DOMAIN s = 1..Len(s) /\ DOMAIN t = 1..Len(t)
      /\ DOMAIN (s \o t) = 1..(Len(s) + Len(t))
      /\ \A i \in 1..Len(s) : (s \o t)[i] = s[i]
  OBVIOUS
<1>2. \A i \in DOMAIN (s \o t) : i > Len(s) =>
            i - Len(s) \in DOMAIN t /\ (s \o t)[i] = t[i - Len(s)]
  BY <1>1
<1>3. SUFFICES ASSUME NEW i \in DOMAIN (s \o t),
                      NEW j \in DOMAIN (s \o t), i < j
               PROVE  Behind((s \o t)[i], (s \o t)[j], o)
  BY DEF Ordered
<1>4. CASE j <= Len(s)
  <2>1. i \in DOMAIN s /\ j \in DOMAIN s
    BY <1>1, <1>3, <1>4
  <2>2. QED
    BY <1>1, <1>3, <2>1 DEF Ordered
<1>5. CASE i <= Len(s) /\ j > Len(s)
  <2>1. i \in DOMAIN s /\ (s \o t)[i] = s[i]
    BY <1>1, <1>3, <1>5
  <2>2. j - Len(s) \in DOMAIN t /\ (s \o t)[j] = t[j - Len(s)]
    BY <1>2, <1>5
  <2>3. (s \o t)[i] \in ToSet(s) /\ (s \o t)[j] \in ToSet(t)
    BY <2>1, <2>2 DEF ToSet
  <2>4. QED
    BY <2>3 DEF InOrder
<1>6. CASE i > Len(s)
  <2>1. /\ i - Len(s) \in DOMAIN t /\ (s \o t)[i] = t[i - Len(s)]
        /\ j - Len(s) \in DOMAIN t /\ (s \o t)[j] = t[j - Len(s)]
        /\ i - Len(s) < j - Len(s)
    BY <1>1, <1>2, <1>3, <1>6
  <2>2. Behind(t[i - Len(s)], t[j - Len(s)], o)
    BY <2>1 DEF Ordered
  <2>3. QED
    BY <2>1, <2>2
<1>7. QED
  BY <1>1, <1>3, <1>4, <1>5, <1>6

-----------------------------------------------------------------------------
(* What operations wait for and what the kernel writes.                    *)

\* The operations with one event() call and one kind of line.
OneKind == Name \ {"up_unconnected", "detach", "primary_force"}

\* The table of the operations, as the provers need it.
LEMMA AwaitedOf ==
    /\ Name = {"down", "new_resource", "up_wait", "attach", "up_unconnected",
               "detach", "connect", "disconnect", "primary", "primary_force",
               "secondary", "verify"}
    /\ Awaited["up_unconnected"] =
            <<{"Attaching"}, Settled \cup {"disk:Failed"}>>
    /\ Awaited["detach"] = <<{"disk:Failed", "Detaching"}, {"Diskless"}>>
    /\ Awaited["primary_force"] = <<{"Primary", "UpToDate"}>>
    /\ Awaited["attach"] = <<{"Attaching"}>>
    /\ Awaited["down"] = <<{"destroy"}>>
    /\ \A name \in OneKind : \E k \in Kind :
            /\ Awaited[name] = <<{k}>>
            /\ k \notin Settled \cup {"Diskless"} \cup Pattern
<1>1. Name = {"down", "new_resource", "up_wait", "attach", "up_unconnected",
               "detach", "connect", "disconnect", "primary", "primary_force",
               "secondary", "verify"}
  BY DEF Name, Awaited
<1>2. /\ Awaited["up_unconnected"] =
            <<{"Attaching"}, Settled \cup {"disk:Failed"}>>
      /\ Awaited["detach"] = <<{"disk:Failed", "Detaching"}, {"Diskless"}>>
      /\ Awaited["primary_force"] = <<{"Primary", "UpToDate"}>>
  BY DEF Awaited, PrimaryForce
<1>3. /\ Awaited["down"] = <<{"destroy"}>>
      /\ Awaited["new_resource"] = <<{"create"}>>
      /\ Awaited["up_wait"] = <<{"peer-disk"}>>
      /\ Awaited["attach"] = <<{"Attaching"}>>
      /\ Awaited["connect"] = <<{"Connecting"}>>
      /\ Awaited["disconnect"] = <<{"StandAlone"}>>
      /\ Awaited["primary"] = <<{"Primary"}>>
      /\ Awaited["secondary"] = <<{"Secondary"}>>
      /\ Awaited["verify"] = <<{"VerifyS"}>>
  BY DEF Awaited
<1>4. ASSUME NEW name \in OneKind
      PROVE  \E k \in Kind :
                /\ Awaited[name] = <<{k}>>
                /\ k \notin Settled \cup {"Diskless"} \cup Pattern
  <2>1. name \in {"down", "new_resource", "up_wait", "attach", "connect",
                  "disconnect", "primary", "secondary", "verify"}
    BY <1>1, <1>4 DEF OneKind
  <2> DEFINE Bad == Settled \cup {"Diskless"} \cup Pattern
             Is(k) == Awaited[name] = <<{k}>> /\ k \in Kind /\ k \notin Bad
  <2>2. Bad = {"Inconsistent", "UpToDate", "Diskless", "disk:Failed",
               "peer-disk:Failed", "connection:BrokenPipe"}
    BY DEF Pattern, InitialPatterns, WhenConnected, Settled
  <2>3. CASE name = "down"
    <3>1. Is("destroy")
      BY <1>3, <2>2, <2>3 DEF Kind
    <3>2. QED
      BY <3>1
  <2>4. CASE name = "new_resource"
    <3>1. Is("create")
      BY <1>3, <2>2, <2>4 DEF Kind
    <3>2. QED
      BY <3>1
  <2>5. CASE name = "up_wait"
    <3>1. Is("peer-disk")
      BY <1>3, <2>2, <2>5 DEF Kind
    <3>2. QED
      BY <3>1
  <2>6. CASE name = "attach"
    <3>1. Is("Attaching")
      BY <1>3, <2>2, <2>6 DEF Kind
    <3>2. QED
      BY <3>1
  <2>7. CASE name = "connect"
    <3>1. Is("Connecting")
      BY <1>3, <2>2, <2>7 DEF Kind
    <3>2. QED
      BY <3>1
  <2>8. CASE name = "disconnect"
    <3>1. Is("StandAlone")
      BY <1>3, <2>2, <2>8 DEF Kind
    <3>2. QED
      BY <3>1
  <2>9. CASE name = "primary"
    <3>1. Is("Primary")
      BY <1>3, <2>2, <2>9 DEF Kind
    <3>2. QED
      BY <3>1
  <2>10. CASE name = "secondary"
    <3>1. Is("Secondary")
      BY <1>3, <2>2, <2>10 DEF Kind
    <3>2. QED
      BY <3>1
  <2>11. CASE name = "verify"
    <3>1. Is("VerifyS")
      BY <1>3, <2>2, <2>11 DEF Kind
    <3>2. QED
      BY <3>1
  <2>12. QED
    BY <2>1, <2>3, <2>4, <2>5, <2>6, <2>7,
       <2>8, <2>9, <2>10, <2>11
<1>5. QED
  BY <1>1, <1>2, <1>3, <1>4

\* Only up_unconnected() and detach() wait twice.
LEMMA CallCount ==
    ASSUME NEW name \in Name
    PROVE  /\ Awaited[name] # <<>>
           /\ Len(Awaited[name]) = IF name \in {"up_unconnected", "detach"}
                                   THEN 2 ELSE 1
<1>1. CASE name \in OneKind
  <2>1. PICK k \in Kind : Awaited[name] = <<{k}>>
    BY <1>1, AwaitedOf
  <2>2. <<{k}>> # <<>> /\ Len(<<{k}>>) = 1
    OBVIOUS
  <2>3. name \notin {"up_unconnected", "detach"}
    BY <1>1 DEF OneKind
  <2>4. QED
    BY <2>1, <2>2, <2>3
<1>2. CASE name = "up_unconnected"
  BY <1>2, AwaitedOf
<1>3. CASE name = "detach"
  BY <1>3, AwaitedOf
<1>4. CASE name = "primary_force"
  BY <1>4, AwaitedOf
<1>5. QED
  BY <1>1, <1>2, <1>3, <1>4 DEF OneKind

\* Lists of one and of two calls.
LEMMA TwoCalls ==
    ASSUME NEW a, NEW b
    PROVE  /\ Head(<<a, b>>) = a /\ Tail(<<a, b>>) = <<b>>
           /\ Head(<<b>>) = b /\ Tail(<<b>>) = <<>>
           /\ <<a, b>> # <<b>> /\ <<a, b>> # <<>> /\ <<b>> # <<>>
<1>1. Head(<<a, b>>) = a /\ Tail(<<a, b>>) = <<b>>
  OBVIOUS
<1>2. Head(<<b>>) = b /\ Tail(<<b>>) = <<>>
  OBVIOUS
<1>3. Len(<<a, b>>) = 2 /\ Len(<<b>>) = 1 /\ Len(<<>>) = 0
  OBVIOUS
<1>4. QED
  BY <1>1, <1>2, <1>3

\* A list of two kinds of lines.
LEMMA TwoKinds ==
    ASSUME NEW a \in Kind, NEW b \in Kind, NEW lines, lines = <<a, b>>
    PROVE  /\ lines \in Seq(Kind) /\ DOMAIN lines = {1, 2}
           /\ lines[1] = a /\ lines[2] = b
<1>1. DOMAIN lines = 1..2 /\ 1..2 = {1, 2}
  OBVIOUS
<1>2. lines \in Seq(Kind)
  OBVIOUS
<1>3. lines[1] = a /\ lines[2] = b
  OBVIOUS
<1>4. QED
  BY <1>1, <1>2, <1>3

\* A list of three kinds of lines, in two parts.
LEMMA ThreeKinds ==
    ASSUME NEW a \in Kind, NEW b \in Kind, NEW c \in Kind, NEW lines,
           lines = <<a, b>> \o <<c>>
    PROVE  /\ lines \in Seq(Kind) /\ DOMAIN lines = {1, 2, 3}
           /\ lines[1] = a /\ lines[2] = b /\ lines[3] = c
<1>1. ASSUME NEW s \in Seq(Kind), NEW t \in Seq(Kind), Len(s) = 2, Len(t) = 1
      PROVE  /\ s \o t \in Seq(Kind) /\ DOMAIN (s \o t) = 1..3
             /\ (s \o t)[1] = s[1] /\ (s \o t)[2] = s[2]
             /\ (s \o t)[3] = t[1]
  <2>1. /\ s \o t \in Seq(Kind) /\ DOMAIN (s \o t) = 1..(Len(s) + Len(t))
        /\ \A i \in 1..Len(s) : (s \o t)[i] = s[i]
        /\ \A i \in 1..(Len(s) + Len(t)) :
                i > Len(s) => (s \o t)[i] = t[i - Len(s)]
    OBVIOUS
  <2>2. 1 \in 1..Len(s) /\ 2 \in 1..Len(s) /\ 3 \in 1..(Len(s) + Len(t))
        /\ 3 > Len(s) /\ 3 - Len(s) = 1 /\ Len(s) + Len(t) = 3
    BY <1>1
  <2>3. QED
    BY <2>1, <2>2
<1>2. /\ <<a, b>> \in Seq(Kind) /\ Len(<<a, b>>) = 2
      /\ <<a, b>>[1] = a /\ <<a, b>>[2] = b
  OBVIOUS
<1>3. <<c>> \in Seq(Kind) /\ Len(<<c>>) = 1 /\ <<c>>[1] = c
  OBVIOUS
<1>4. 1..3 = {1, 2, 3}
  OBVIOUS
<1>5. QED
  BY <1>1, <1>2, <1>3, <1>4

\* "Diskless" and "destroy" are only written as the last line, but for the
\* "Diskless" of down.
LEMMA LastOf ==
    ASSUME NEW name \in Name, NEW n \in Node, NEW k \in KindsOf(name, n),
           k = "destroy" \/ (k = "Diskless" /\ name # "down")
    PROVE  k \in Final(name)
<1>1. CASE name \in {"down", "detach"}
  BY <1>1 DEF Final, KindsOf
<1>2. CASE name \in {"attach", "up_unconnected", "primary_force"}
  BY <1>2 DEF KindsOf, Settled
<1>3. CASE name \notin {"down", "detach", "attach", "up_unconnected",
                        "primary_force"}
  <2>1. name \in {"new_resource", "up_wait", "connect", "disconnect",
                  "primary", "secondary", "verify"}
    BY <1>3, AwaitedOf
  <2>2. KindsOf(name, n) = Awaited[name][1]
    BY <1>3 DEF KindsOf
  <2>3. /\ Awaited["new_resource"][1] = {"create"}
        /\ Awaited["up_wait"][1] = {"peer-disk"}
        /\ Awaited["connect"][1] = {"Connecting"}
        /\ Awaited["disconnect"][1] = {"StandAlone"}
        /\ Awaited["primary"][1] = {"Primary"}
        /\ Awaited["secondary"][1] = {"Secondary"}
        /\ Awaited["verify"][1] = {"VerifyS"}
    BY DEF Awaited
  <2>4. QED
    BY <2>1, <2>2, <2>3
<1>4. QED
  BY <1>1, <1>2, <1>3

\* What a command makes the kernel write for a node or a volume is of its
\* kinds, answers each of its calls, has no kind twice and ends with Final.
Fits(name, n, lines) ==
    /\ lines \in Seq(Kind)
    /\ \A i \in DOMAIN lines : lines[i] \in KindsOf(name, n)
    /\ \A K \in Needs(name) : \E i \in DOMAIN lines : lines[i] \in K
    /\ \A i, j \in DOMAIN lines : i < j =>
            lines[i] # lines[j] /\ lines[i] \notin Final(name)

\* The lines of one node or volume, operation by operation.
LEMMA WrittenLines ==
    ASSUME NEW name \in Name, NEW n \in Node,
           NEW lines \in Written(name, n)
    PROVE  Fits(name, n, lines)
<1> DEFINE d == IF n \in Old THEN "disk:Failed" ELSE "Detaching"
           Good(a, b) ==
                /\ a \in Kind /\ b \in Kind /\ a # b /\ a \notin Final(name)
                /\ lines = <<a, b>>
                /\ a \in KindsOf(name, n) /\ b \in KindsOf(name, n)
                /\ \A K \in Needs(name) : a \in K \/ b \in K
<1>1. ASSUME NEW a, NEW b, Good(a, b)
      PROVE  Fits(name, n, lines)
  <2>1. /\ lines \in Seq(Kind) /\ DOMAIN lines = {1, 2}
        /\ lines[1] = a /\ lines[2] = b
    BY <1>1, TwoKinds
  <2>2. QED
    BY <1>1, <2>1 DEF Fits
<1>2. CASE name \in {"attach", "up_unconnected"}
  <2>1. PICK s \in Settled : lines = <<"Attaching", s>>
    BY <1>2 DEF Written
  <2>2. s \in Kind /\ "Attaching" \in Kind /\ "Attaching" \notin Settled
    BY DEF Settled, Kind
  <2>3. /\ KindsOf(name, n) = {"Attaching"} \cup Settled
        /\ Final(name) = Settled
    BY <1>2 DEF KindsOf, Final
  <2>4. \A K \in Needs(name) : "Attaching" \in K \/ s \in K
    <3>1. CASE name = "attach"
      BY <3>1, AwaitedOf DEF Needs, ToSet
    <3>2. CASE name = "up_unconnected"
      <4>1. Awaited[name] = <<{"Attaching"}, Settled \cup {"disk:Failed"}>>
        BY <3>2, AwaitedOf
      <4>2. \A K \in ToSet(Awaited[name]) :
                K = {"Attaching"} \/ K = Settled \cup {"disk:Failed"}
        BY <4>1 DEF ToSet
      <4>3. QED
        BY <3>2, <4>2 DEF Needs
    <3>3. QED
      BY <1>2, <3>1, <3>2
  <2>5. Good("Attaching", s)
    BY <2>1, <2>2, <2>3, <2>4
  <2>6. QED
    BY <1>1, <2>5
<1>3. CASE name = "detach"
  <2>1. lines = <<d, "Diskless">> /\ KindsOf(name, n) = {d, "Diskless"}
    BY <1>3 DEF Written, KindsOf
  <2>2. d \in {"disk:Failed", "Detaching"} /\ Final(name) = {"Diskless"}
    BY <1>3 DEF Final
  <2>3. Needs(name) = {{"disk:Failed", "Detaching"}, {"Diskless"}}
    BY <1>3, AwaitedOf DEF Needs, ToSet
  <2> HIDE DEF d
  <2>4. Good(d, "Diskless")
    BY <2>1, <2>2, <2>3 DEF Kind
  <2>5. QED
    BY <1>1, <2>4
<1>4. CASE name = "down"
  <2>1. \/ lines = <<"destroy">>
        \/ lines = <<d, "Diskless">> \o <<"destroy">>
    BY <1>4 DEF Written
  <2>2. /\ KindsOf(name, n) = {d, "Diskless", "destroy"}
        /\ d \in {"disk:Failed", "Detaching"} /\ Final(name) = {"destroy"}
    BY <1>4 DEF KindsOf, Final
  <2>3. Needs(name) = {{"destroy"}}
    BY <1>4, AwaitedOf DEF Needs, ToSet
  <2> HIDE DEF d
  <2>4. d \in Kind /\ "Diskless" \in Kind /\ "destroy" \in Kind
    BY <2>2 DEF Kind
  <2>5. CASE lines = <<"destroy">>
    <3>1. /\ lines \in Seq(Kind) /\ DOMAIN lines = {1}
          /\ lines[1] = "destroy"
      <4>1. DOMAIN lines = 1..1 /\ 1..1 = {1}
        BY <2>5
      <4>2. QED
        BY <2>4, <2>5, <4>1
    <3>2. QED
      BY <2>2, <2>3, <3>1 DEF Fits
  <2>6. CASE lines = <<d, "Diskless">> \o <<"destroy">>
    <3>1. /\ lines \in Seq(Kind) /\ DOMAIN lines = {1, 2, 3}
          /\ lines[1] = d /\ lines[2] = "Diskless" /\ lines[3] = "destroy"
      BY <2>4, <2>6, ThreeKinds
    <3>2. QED
      BY <2>2, <2>3, <3>1 DEF Fits
  <2>7. QED
    BY <2>1, <2>5, <2>6
<1>5. CASE name = "primary_force"
  <2>1. /\ lines = <<"Primary", "UpToDate">>
           \/ lines = <<"UpToDate", "Primary">>
        /\ KindsOf(name, n) = {"Primary", "UpToDate"} /\ Final(name) = {}
        /\ Needs(name) = {{"Primary"}, {"UpToDate"}}
    BY <1>5 DEF Written, KindsOf, Final, Needs
  <2>2. Good("Primary", "UpToDate") \/ Good("UpToDate", "Primary")
    BY <2>1 DEF Kind
  <2>3. QED
    BY <1>1, <2>2
<1>6. CASE name \in OneKind \ {"attach", "down"}
  <2>1. PICK k \in Kind : Awaited[name] = <<{k}>>
    BY <1>6, AwaitedOf
  <2>2. Awaited[name][1] = {k} /\ ToSet(Awaited[name]) = {{k}}
    BY <2>1 DEF ToSet
  <2>3. /\ lines = [i \in 1..1 |-> k] /\ KindsOf(name, n) = {k}
        /\ Needs(name) = {{k}}
    BY <1>6, <2>2 DEF Written, KindsOf, OneKind, Needs
  <2>4. lines \in Seq(Kind) /\ DOMAIN lines = {1} /\ lines[1] = k
    <3>1. lines \in [1..1 -> Kind] /\ 1..1 = {1} /\ 1 \in Nat
      BY <2>3
    <3>2. lines \in Seq(Kind)
      <4>1. <<k>> \in Seq(Kind) /\ lines = <<k>>
        BY <2>1, <2>3
      <4>2. QED
        BY <4>1
    <3>3. QED
      BY <2>3, <3>1, <3>2
  <2>5. QED
    BY <2>3, <2>4 DEF Fits
<1>7. QED
  BY <1>2, <1>3, <1>4, <1>5, <1>6 DEF OneKind

\* The lines that a command makes the kernel write for one volume.
Marked(lines, v, id) ==
    [i \in DOMAIN lines |-> [kind |-> lines[i], vol |-> v, by |-> id]]

\* What a command writes for a volume is marked as its own.
LEMMA MarkedLines ==
    ASSUME NEW o \in [name : Name, nodes : SUBSET Node,
                      vols : SUBSET Volume, id : Nat],
           NEW n \in Node,
           NEW lines \in Written(o.name, n), NEW v \in Volume
    PROVE  /\ Marked(lines, v, o.id) \in Seq(Line)
           /\ \A x \in ToSet(Marked(lines, v, o.id)) :
                    x.vol = v /\ x.by = o.id /\ x.kind \in KindsOf(o.name, n)
           /\ \A K \in Needs(o.name) :
                    \E x \in ToSet(Marked(lines, v, o.id)) : x.kind \in K
           /\ Ordered(Marked(lines, v, o.id), o)
<1> DEFINE s == Marked(lines, v, o.id)
<1>1. /\ lines \in Seq(Kind)
      /\ \A i \in DOMAIN lines : lines[i] \in KindsOf(o.name, n)
      /\ \A K \in Needs(o.name) : \E i \in DOMAIN lines : lines[i] \in K
      /\ \A i, j \in DOMAIN lines : i < j =>
            lines[i] # lines[j] /\ lines[i] \notin Final(o.name)
  <2>1. o.name \in Name
    OBVIOUS
  <2>2. QED
    BY <2>1, WrittenLines DEF Fits
<1>2. /\ DOMAIN s = DOMAIN lines
      /\ \A i \in DOMAIN s :
            s[i] = [kind |-> lines[i], vol |-> v, by |-> o.id]
  BY DEF Marked
<1>3. s \in Seq(Line)
  <2>1. Len(lines) \in Nat /\ DOMAIN lines = 1..Len(lines)
    BY <1>1
  <2>2. \A i \in 1..Len(lines) : lines[i] \in Kind
    BY <1>1
  <2>3. s = [i \in 1..Len(lines) |-> s[i]]
    BY <1>2, <2>1 DEF Marked
  <2>4. \A i \in 1..Len(lines) : s[i] \in Line
    <3>1. \A k \in Kind : [kind |-> k, vol |-> v, by |-> o.id] \in Line
      <4>1. o.id \in Nat
        OBVIOUS
      <4>2. QED
        BY <4>1 DEF Line
    <3> HIDE DEF s
    <3>2. QED
      BY <1>2, <2>1, <2>2, <3>1
  <2> HIDE DEF s
  <2>5. s \in [1..Len(lines) -> Line]
    BY <2>3, <2>4
  <2>6. QED
    BY <2>1, <2>5, SeqOfFunction
<1> HIDE DEF s
<1>4. \A x \in ToSet(s) :
        x.vol = v /\ x.by = o.id /\ x.kind \in KindsOf(o.name, n)
  BY <1>1, <1>2 DEF ToSet
<1>5. ASSUME NEW K \in Needs(o.name)
      PROVE  \E x \in ToSet(s) : x.kind \in K
  <2>1. PICK i \in DOMAIN lines : lines[i] \in K
    BY <1>1
  <2>2. i \in DOMAIN s /\ s[i].kind \in K
    BY <1>2, <2>1
  <2>3. QED
    BY <2>2 DEF ToSet
<1>6. Ordered(s, o)
  BY <1>1, <1>2 DEF Ordered, Behind
<1>7. QED
  BY <1>3, <1>4, <1>5, <1>6 DEF s

-----------------------------------------------------------------------------
(* What the actions do to the lines of a node.                             *)

\* The lines of a node and volume that are not taken yet.
LEMMA LinesOf ==
    ASSUME EventsType, NEW n \in Node, NEW v \in Volume
    PROVE  /\ unread[n] \in Seq(Line) /\ coming[<<n, v>>] \in Seq(Line)
           /\ ToSet(unread[n]) \subseteq Line
           /\ ToSet(coming[<<n, v>>]) \subseteq Line
           /\ \A x \in ToSet(coming[<<n, v>>]) : x.vol = v
           /\ Lines(n, v) \subseteq Line
           /\ \A x \in Lines(n, v) : x.vol = v
<1>1. /\ unread[n] \in Seq(Line) /\ <<n, v>> \in Node \X Volume
      /\ coming[<<n, v>>] \in Seq(Line)
  BY DEF EventsType
<1>2. /\ \A i \in DOMAIN unread[n] : unread[n][i] \in Line
      /\ \A i \in DOMAIN coming[<<n, v>>] : coming[<<n, v>>][i] \in Line
  BY <1>1
<1>3. \A x \in ToSet(coming[<<n, v>>]) : x.vol = v
  BY DEF EventsType, ToSet
<1>4. /\ ToSet(unread[n]) \subseteq Line
      /\ ToSet(coming[<<n, v>>]) \subseteq Line
  BY <1>2 DEF ToSet
<1>5. QED
  BY <1>1, <1>3, <1>4 DEF Lines

\* The command on node n makes the kernel write lines for the volumes u.
Adds(n, u) ==
    IF u[1] = n /\ u[2] \in op.vols
    THEN \E s \in Seq(Line) :
            /\ coming'[u] = coming[u] \o s
            /\ \A x \in ToSet(s) : /\ x.vol = u[2] /\ x.by = op.id
                                   /\ x.kind \in KindsOf(op.name, n)
            /\ \A K \in Needs(op.name) : \E x \in ToSet(s) : x.kind \in K
            /\ Ordered(s, op)
    ELSE coming'[u] = coming[u]

\* A command is run on one node and adds lines for that node only.
LEMMA CommandEffect ==
    ASSUME EventsType, Command
    PROVE  \E n \in todo :
            /\ n \in Node /\ todo' = todo \ {n}
            /\ \A u \in Node \X Volume : Adds(n, u)
<1> DEFINE n == CHOOSE m \in todo : TRUE
<1>1. n \in todo /\ n \in Node /\ todo' = todo \ {n}
  BY DEF Command, EventsType
<1>2. PICK lines \in Written(op.name, n) :
        coming' = [u \in Node \X Volume |->
            IF u[1] = n /\ u[2] \in op.vols
            THEN coming[u] \o Marked(lines, u[2], op.id)
            ELSE coming[u]]
  BY DEF Command, Marked
<1>3. op \in [name : Name, nodes : SUBSET Node, vols : SUBSET Volume,
              id : Nat]
  BY DEF Command, EventsType
<1> HIDE DEF n
<1>4. ASSUME NEW u \in Node \X Volume
      PROVE  Adds(n, u)
  <2>1. CASE u[1] = n /\ u[2] \in op.vols
    <3> DEFINE s == Marked(lines, u[2], op.id)
    <3>1. u[2] \in Volume
      OBVIOUS
    <3>2. coming'[u] = coming[u] \o s
      BY <1>2, <2>1
    <3>3. /\ s \in Seq(Line)
          /\ \A x \in ToSet(s) : /\ x.vol = u[2] /\ x.by = op.id
                                 /\ x.kind \in KindsOf(op.name, n)
          /\ \A K \in Needs(op.name) : \E x \in ToSet(s) : x.kind \in K
          /\ Ordered(s, op)
      BY <1>1, <1>2, <1>3, <3>1, MarkedLines
    <3> HIDE DEF s
    <3>4. QED
      BY <2>1, <3>2, <3>3 DEF Adds
  <2>2. CASE ~(u[1] = n /\ u[2] \in op.vols)
    BY <1>2, <2>2 DEF Adds
  <2>3. QED
    BY <2>1, <2>2
<1>5. QED
  BY <1>1, <1>4

-----------------------------------------------------------------------------
(* The type.                                                               *)

\* The script changes the patterns, or nothing happens.
Quiet == UNCHANGED <<pc, control, unread, coming, abandoned>>

\* The script has called nothing yet.
LEMMA EventsTypeInit == Init => EventsType
<1> SUFFICES ASSUME Init PROVE EventsType
  OBVIOUS
<1>1. /\ unread \in [Node -> Seq(Line)]
      /\ coming \in [Node \X Volume -> Seq(Line)]
  BY DEF Init
<1>2. ASSUME NEW n \in Node, NEW v \in Volume
      PROVE  DOMAIN coming[<<n, v>>] = {}
  <2>1. coming[<<n, v>>] = <<>>
    BY DEF Init
  <2>2. QED
    BY <2>1
<1>3. QED
  BY <1>1, <1>2 DEF Init, EventsType

\* What an exception leaves of the operation it ends.
LEMMA UnwindType ==
    ASSUME EventsType, Unwind
    PROVE  /\ pc' = "raised" /\ op' = op /\ todo' = {} /\ calls' = <<>>
           /\ goals' = {} /\ mask' = {}
  BY DEF Unwind

\* Every step keeps the types of the state.
LEMMA EventsTypeStep == EventsType /\ [Next]_vars => EventsType'
<1> SUFFICES ASSUME EventsType, [Next]_vars PROVE EventsType'
  OBVIOUS
<1>1. CASE Command
  <2>1. PICK n \in todo :
            /\ n \in Node /\ todo' = todo \ {n}
            /\ \A u \in Node \X Volume : Adds(n, u)
    BY <1>1, CommandEffect
  <2>2. coming' = [u \in Node \X Volume |-> coming'[u]]
    BY <1>1 DEF Command
  <2>3. ASSUME NEW u \in Node \X Volume
        PROVE  /\ coming'[u] \in Seq(Line)
               /\ \A x \in ToSet(coming'[u]) : x.vol = u[2]
    <3>1. PICK m \in Node, v \in Volume : u = <<m, v>>
      OBVIOUS
    <3>2. /\ coming[u] \in Seq(Line) /\ u[2] = v
          /\ \A x \in ToSet(coming[u]) : x.vol = u[2]
      BY <3>1, LinesOf
    <3>3. CASE u[1] = n /\ u[2] \in op.vols
      <4>1. PICK s \in Seq(Line) : /\ coming'[u] = coming[u] \o s
                                   /\ \A x \in ToSet(s) : x.vol = u[2]
        BY <2>1, <3>3 DEF Adds
      <4>2. QED
        BY <3>2, <4>1, ConcatMembers
    <3>4. CASE ~(u[1] = n /\ u[2] \in op.vols)
      BY <2>1, <3>2, <3>4 DEF Adds
    <3>5. QED
      BY <3>3, <3>4
  <2>4. coming' \in [Node \X Volume -> Seq(Line)]
    BY <2>2, <2>3
  <2>5. \A m \in Node, v \in Volume :
            \A i \in DOMAIN coming'[<<m, v>>] : coming'[<<m, v>>][i].vol = v
    BY <2>3 DEF ToSet
  <2>6. QED
    BY <1>1, <2>1, <2>4, <2>5 DEF Command, EventsType
<1>2. CASE NextCall
  <2>1. \A g \in goals' : g.node \in op.nodes /\ g.vol \in op.vols
    BY <1>2 DEF NextCall, Filters, GoalsOf
  <2>2. QED
    BY <1>2, <2>1 DEF NextCall, EventsType
<1>3. CASE Return
  BY <1>3 DEF Return, EventsType
<1>4. CASE Raise
  BY <1>4 DEF Raise, Unwind, EventsType
<1>5. CASE Catch
  BY <1>5 DEF Catch, control, EventsType
<1>6. ASSUME NEW c \in Calls, Call(c) PROVE EventsType'
  <2>1. PICK wait \in {TRUE, c.name \notin MayNotWait} :
            Begin(c.name, c.nodes, c.vols, wait)
    BY <1>6 DEF Call
  <2>2. /\ c.name \in Name /\ c.nodes \subseteq Node /\ c.vols \subseteq Volume
    BY EventsAssumption DEF Name
  <2>3. /\ pc = "idle" /\ pc' = "busy" /\ todo' = c.nodes
        /\ op' = [name |-> c.name, nodes |-> c.nodes, vols |-> c.vols,
                  id |-> op.id + 1]
        /\ UNCHANGED <<goals, unread, coming>>
    BY <2>1 DEF Begin
  <2>4. op.id \in Nat /\ goals = {}
    BY <2>3 DEF EventsType
  <2>5. /\ op' \in [name : Name \cup {"none"}, nodes : SUBSET Node,
                    vols : SUBSET Volume, id : Nat]
        /\ op'.id > 0 /\ op'.name \in Name /\ todo' \subseteq op'.nodes
    BY <2>2, <2>3, <2>4
  <2>6. QED
    BY <2>3, <2>4, <2>5 DEF EventsType
<1>7. ASSUME NEW n \in Node, Take(n) PROVE EventsType'
  <2>1. /\ unread[n] # <<>> /\ unread' = [unread EXCEPT ![n] = Tail(@)]
        /\ coming' = coming /\ pc = "busy"
    BY <1>7 DEF Take
  <2>2. Tail(unread[n]) \in Seq(Line)
    BY <2>1, TailMembers DEF EventsType
  <2>3. unread' \in [Node -> Seq(Line)]
    BY <2>1, <2>2 DEF EventsType
  <2>4. CASE Unwind
    BY <2>1, <2>3, <2>4 DEF EventsType, Unwind
  <2>5. CASE ~Unwind
    <3>1. goals' \subseteq goals /\ UNCHANGED <<pc, op, todo, calls, mask>>
      BY <1>7, <2>5 DEF Take
    <3>2. QED
      BY <2>1, <2>3, <3>1 DEF EventsType
  <2>6. QED
    BY <2>4, <2>5
<1>8. ASSUME NEW u \in Node \X Volume, Write(u) PROVE EventsType'
  <2>1. PICK n \in Node, v \in Volume : u = <<n, v>>
    OBVIOUS
  <2>2. /\ coming[u] # <<>> /\ coming[u] \in Seq(Line)
        /\ coming' = [coming EXCEPT ![u] = Tail(@)]
        /\ unread' = [unread EXCEPT ![n] = Append(@, Head(coming[u]))]
        /\ UNCHANGED <<pc, op, todo, calls, goals, mask>>
    BY <1>8, <2>1 DEF Write, control, EventsType
  <2>3. /\ Tail(coming[u]) \in Seq(Line) /\ Head(coming[u]) \in Line
        /\ ToSet(Tail(coming[u])) \subseteq ToSet(coming[u])
    BY <2>2, TailMembers
  <2>4. Append(unread[n], Head(coming[u])) \in Seq(Line)
    BY <2>3, AppendMembers DEF EventsType
  <2>5. /\ unread' \in [Node -> Seq(Line)]
        /\ coming' \in [Node \X Volume -> Seq(Line)]
    BY <2>2, <2>3, <2>4 DEF EventsType
  <2>6. ASSUME NEW m \in Node, NEW w \in Volume
        PROVE  \A i \in DOMAIN coming'[<<m, w>>] : coming'[<<m, w>>][i].vol = w
    <3>1. \A x \in ToSet(coming[<<m, w>>]) : x.vol = w
      BY LinesOf
    <3>2. ToSet(coming'[<<m, w>>]) \subseteq ToSet(coming[<<m, w>>])
      BY <2>2, <2>3 DEF EventsType
    <3>3. QED
      BY <3>1, <3>2 DEF ToSet
  <2>7. QED
    BY <2>2, <2>5, <2>6 DEF EventsType
<1>9. ASSUME NEW n \in Node, NEW p \in Pattern, Fault(n, p) PROVE EventsType'
  <2> DEFINE x == [kind |-> p, vol |-> AVolume, by |-> 0]
  <2>1. x \in Line
    <3>1. AVolume \in Volume
      BY EventsAssumption DEF AVolume
    <3>2. p \in Kind
      BY DEF Pattern, InitialPatterns, WhenConnected, Kind
    <3>3. QED
      BY <3>1, <3>2 DEF Line
  <2>2. /\ unread' = [unread EXCEPT ![n] = Append(@, x)]
        /\ UNCHANGED <<pc, op, todo, calls, goals, mask, coming>>
    BY <1>9 DEF Fault, control
  <2> HIDE DEF x
  <2>3. Append(unread[n], x) \in Seq(Line)
    BY <2>1, AppendMembers DEF EventsType
  <2>4. unread' \in [Node -> Seq(Line)]
    BY <2>2, <2>3 DEF EventsType
  <2>5. QED
    BY <2>2, <2>4 DEF EventsType
<1>10. CASE Quiet
  BY <1>10 DEF Quiet, control, EventsType
<1>11. ASSUME NEW p \in Pattern, Forbid(p) \/ Allow(p) PROVE Quiet
  BY <1>11 DEF Forbid, Allow, Quiet
<1>12. UNCHANGED vars => Quiet
  BY DEF vars, Quiet, history
<1>13. QED
  BY <1>1, <1>2, <1>3, <1>4, <1>5, <1>6, <1>7, <1>8, <1>9, <1>10, <1>11,
     <1>12 DEF Next

-----------------------------------------------------------------------------
(* Forbidden patterns.                                                     *)

\* What is forbidden is what was declared, without what an operation masks or
\* has left out.
LEMMA MaskedStep == EventsType /\ Masked /\ [Next]_vars => Masked'
<1> SUFFICES ASSUME EventsType, Masked, [Next]_vars PROVE Masked'
  OBVIOUS
<1>1. pc # "busy" => mask = {}
  BY DEF EventsType
<1>2. CASE UNCHANGED <<mask, forbidden, declared, leaked>>
  BY <1>2 DEF Masked
<1>3. Command \/ NextCall \/ Catch \/ UNCHANGED vars
        => UNCHANGED <<mask, forbidden, declared, leaked>>
  BY DEF Command, NextCall, Catch, vars, control, history
<1>4. CASE Return
  BY <1>4 DEF Return, Masked
<1>5. Unwind => Masked'
  BY DEF Unwind, Masked
<1>6. ASSUME NEW c \in Calls, Call(c) PROVE Masked'
  <2>1. PICK wait \in {TRUE, c.name \notin MayNotWait} :
            Begin(c.name, c.nodes, c.vols, wait)
    BY <1>6 DEF Call
  <2> DEFINE R == RemovePatterns(c.name, c.nodes)
  <2>2. /\ pc = "idle" /\ mask' = R /\ forbidden' = forbidden \ R
        /\ UNCHANGED <<declared, leaked>>
    BY <2>1 DEF Begin
  <2>3. R \subseteq forbidden
    BY DEF RemovePatterns
  <2> HIDE DEF R
  <2>4. QED
    BY <1>1, <2>2, <2>3 DEF Masked
<1>7. ASSUME NEW n \in Node, Take(n) PROVE Masked'
  <2>1. Unwind \/ UNCHANGED <<mask, forbidden, declared, leaked>>
    BY <1>7 DEF Take, history
  <2>2. QED
    BY <1>2, <1>5, <2>1
<1>8. ASSUME NEW p \in Pattern, Forbid(p) \/ Allow(p) PROVE Masked'
  BY <1>1, <1>8 DEF Forbid, Allow, control, Masked
<1>9. ASSUME NEW u \in Node \X Volume, Write(u)
      PROVE  UNCHANGED <<mask, forbidden, declared, leaked>>
  BY <1>9 DEF Write, control, history
<1>10. ASSUME NEW n \in Node, NEW p \in Pattern, Fault(n, p)
       PROVE  UNCHANGED <<mask, forbidden, declared, leaked>>
  BY <1>10 DEF Fault, control, history
<1>11. QED
  BY <1>2, <1>3, <1>4, <1>5, <1>6, <1>7, <1>8, <1>9, <1>10 DEF Next, Raise

\* A line goes only when event() takes it.
LEMMA OnlyTaken ==
    ASSUME EventsType, Next, NEW n \in Node,
           Len(unread'[n]) < Len(unread[n])
    PROVE  Take(n)
<1>1. /\ unread \in [Node -> Seq(Line)] /\ unread[n] \in Seq(Line)
      /\ Len(unread[n]) \in Nat
  BY DEF EventsType
<1>2. unread'[n] # unread[n]
  BY <1>1
<1>3. Command \/ NextCall \/ Return \/ Raise \/ Catch => unread' = unread
  BY DEF Command, NextCall, Return, Raise, Catch
<1>4. ASSUME NEW c \in Calls, Call(c) PROVE unread' = unread
  BY <1>4 DEF Call, Begin
<1>5. ASSUME NEW m \in Node, Take(m), m # n PROVE unread'[n] = unread[n]
  BY <1>1, <1>5 DEF Take
<1>6. ASSUME NEW p \in Pattern, Forbid(p) \/ Allow(p) PROVE unread' = unread
  BY <1>6 DEF Forbid, Allow
<1>7. \A x : Len(Append(unread[n], x)) = Len(unread[n]) + 1
  BY <1>1
<1>8. ASSUME NEW u \in Node \X Volume PROVE ~Write(u)
  <2>1. Write(u) => \/ unread'[n] = unread[n]
                    \/ unread'[n] = Append(unread[n], Head(coming[u]))
    BY <1>1 DEF Write
  <2>2. QED
    BY <1>1, <1>7, <2>1
<1>9. ASSUME NEW m \in Node, NEW p \in Pattern PROVE ~Fault(m, p)
  <2> DEFINE x == [kind |-> p, vol |-> AVolume, by |-> 0]
  <2>1. Fault(m, p) => \/ unread'[n] = unread[n]
                       \/ unread'[n] = Append(unread[n], x)
    BY <1>1 DEF Fault
  <2> HIDE DEF x
  <2>2. QED
    BY <1>1, <1>7, <2>1
<1>10. QED
  BY <1>2, <1>3, <1>4, <1>5, <1>6, <1>8, <1>9 DEF Next

\* ForbiddenRaises for every set of nodes, volumes and calls and any number of
\* operations: a line that is taken ends the wait exactly if it is to
\* (Nodes.down, Volumes.detach, Resource.logscan).
THEOREM ForbiddenAlwaysRaises == Spec => ForbiddenRaises
<1>1. Init => EventsType /\ Masked
  BY EventsTypeInit DEF Init, Masked
<1>2. EventsType /\ Masked /\ [Next]_vars => (EventsType /\ Masked)'
  BY EventsTypeStep, MaskedStep
<1>3. EventsType /\ Masked /\ [Next]_vars =>
        [\A n \in Node : Len(unread'[n]) < Len(unread[n]) =>
            LET kind == Head(unread[n]).kind IN
            (pc' = "raised") = (kind \in declared \ (mask \cup leaked))]_vars
  <2>1. SUFFICES ASSUME EventsType, Masked, Next, NEW n \in Node,
                        Len(unread'[n]) < Len(unread[n])
                 PROVE  (pc' = "raised")
                        = (Head(unread[n]).kind \in forbidden)
    BY DEF Masked
  <2>2. Take(n)
    BY <2>1, OnlyTaken
  <2>3. CASE Head(unread[n]).kind \in forbidden
    BY <2>2, <2>3 DEF Take, Unwind
  <2>4. CASE Head(unread[n]).kind \notin forbidden
    BY <2>2, <2>4 DEF Take
  <2>5. QED
    BY <2>3, <2>4
<1>4. QED
  BY <1>1, <1>2, <1>3, PTL DEF Spec, ForbiddenRaises

-----------------------------------------------------------------------------
(* The lines of a node, step by step.                                      *)

\* The lines that are left depend on the streams only.
LEMMA SameLines ==
    ASSUME unread' = unread, coming' = coming, NEW n, NEW v
    PROVE  Lines(n, v)' = Lines(n, v)
  BY DEF Lines

\* The same for the lines that are still to be taken.
NewLines(n, m, v) ==
    /\ Lines(m, v) \subseteq Lines(m, v)'
    /\ \A x \in Lines(m, v)' :
        \/ x \in Lines(m, v)
        \/ /\ m = n /\ v \in op.vols /\ x.by = op.id
           /\ x.kind \in KindsOf(op.name, n)
    /\ m = n /\ v \in op.vols => \A K \in Needs(op.name) :
            \E x \in Lines(m, v)' : x.by = op.id /\ x.kind \in K

\* A command adds lines of its operation, on its node.
LEMMA CommandLines ==
    ASSUME EventsType, Command
    PROVE  \E n \in todo :
            /\ n \in Node /\ todo' = todo \ {n}
            /\ \A m \in Node, v \in Volume : NewLines(n, m, v)
<1>1. PICK n \in todo :
            /\ n \in Node /\ todo' = todo \ {n}
            /\ \A u \in Node \X Volume : Adds(n, u)
  BY CommandEffect
<1>2. ASSUME NEW m \in Node, NEW v \in Volume
      PROVE  NewLines(n, m, v)
  <2> DEFINE u == <<m, v>>
  <2>1. u \in Node \X Volume /\ u[1] = m /\ u[2] = v
    OBVIOUS
  <2>2. unread' = unread
    BY DEF Command
  <2>3. coming[u] \in Seq(Line)
    BY LinesOf
  <2>4. Lines(m, v) =
            {x \in ToSet(unread[m]) \cup ToSet(coming[u]) : x.vol = v}
    BY DEF Lines
  <2>5. Lines(m, v)' =
            {x \in ToSet(unread[m]) \cup ToSet(coming'[u]) : x.vol = v}
    BY <2>2 DEF Lines
  <2> HIDE DEF u
  <2>6. CASE m = n /\ v \in op.vols
    <3>1. PICK s \in Seq(Line) :
                        /\ coming'[u] = coming[u] \o s
                        /\ \A x \in ToSet(s) :
                            /\ x.vol = v /\ x.by = op.id
                            /\ x.kind \in KindsOf(op.name, n)
                        /\ \A K \in Needs(op.name) :
                            \E x \in ToSet(s) : x.kind \in K
      BY <1>1, <2>1, <2>6 DEF Adds
    <3>2. ToSet(coming'[u]) = ToSet(coming[u]) \cup ToSet(s)
      BY <2>3, <3>1, ConcatMembers
    <3>3. ToSet(s) \subseteq Lines(m, v)'
      BY <2>5, <3>1, <3>2
    <3>4. \A K \in Needs(op.name) :
                \E x \in Lines(m, v)' : x.by = op.id /\ x.kind \in K
      BY <3>1, <3>3
    <3>5. QED
      BY <2>4, <2>5, <2>6, <3>1, <3>2, <3>4 DEF NewLines
  <2>7. CASE ~(m = n /\ v \in op.vols)
    <3>1. coming'[u] = coming[u]
      BY <1>1, <2>1, <2>7 DEF Adds
    <3>2. QED
      BY <2>4, <2>5, <2>7, <3>1 DEF NewLines
  <2>8. QED
    BY <2>6, <2>7
<1>3. QED
  BY <1>1, <1>2

\* event() takes the first line of a stream, and what is left may follow it.
LEMMA TakeLines ==
    ASSUME EventsType, LineOrder, NEW n \in Node, Take(n)
    PROVE  /\ Head(unread[n]) \in Line
           /\ Head(unread[n]) \in Lines(n, Head(unread[n]).vol)
           /\ \A m \in Node, v \in Volume :
                /\ Lines(m, v)' \subseteq Lines(m, v)
                /\ \A x \in Lines(m, v) :
                    x \in Lines(m, v)' \/ (m = n /\ x = Head(unread[n]))
           /\ \A v \in Volume : \A y \in Lines(n, v)' :
                    Behind(Head(unread[n]), y, op)
<1> DEFINE s == unread[n]
<1>1. /\ s \in Seq(Line) /\ s # <<>> /\ coming' = coming
      /\ unread' = [unread EXCEPT ![n] = Tail(s)]
      /\ unread \in [Node -> Seq(Line)]
  BY DEF Take, EventsType
<1>2. /\ Head(s) \in Line /\ Head(s) \in ToSet(s)
      /\ ToSet(s) = ToSet(Tail(s)) \cup {Head(s)}
  BY <1>1, TailMembers
<1>3. Head(s) \in Lines(n, Head(s).vol)
  BY <1>2 DEF Lines
<1>4. ASSUME NEW m \in Node, NEW v \in Volume
      PROVE  /\ Lines(m, v)' \subseteq Lines(m, v)
             /\ \A x \in Lines(m, v) :
                    x \in Lines(m, v)' \/ (m = n /\ x = Head(s))
  <2> DEFINE t == ToSet(coming[<<m, v>>])
  <2>0. /\ Lines(m, v) = {x \in ToSet(unread[m]) \cup t : x.vol = v}
        /\ Lines(m, v)' = {x \in ToSet(unread'[m]) \cup t : x.vol = v}
    BY <1>1 DEF Lines
  <2> HIDE DEF t
  <2>1. CASE m = n
    <3>1. unread'[m] = Tail(s)
      BY <1>1, <2>1
    <3> HIDE DEF s
    <3>2. unread[m] = s
      BY <2>1 DEF s
    <3>3. QED
      BY <1>2, <2>1, <2>0, <3>1, <3>2
  <2>2. CASE m # n
    <3>1. unread'[m] = unread[m]
      BY <1>1, <2>2
    <3>2. QED
      BY <2>0, <3>1
  <2>3. QED
    BY <2>1, <2>2
<1>5. ASSUME NEW v \in Volume, NEW y \in Lines(n, v)'
      PROVE  Behind(Head(s), y, op)
  <2>1. unread'[n] = Tail(s)
    BY <1>1
  <2>2. y \in ToSet(Tail(s)) \cup ToSet(coming[<<n, v>>])
    BY <1>1, <2>1 DEF Lines
  <2>3. Ordered(s, op) /\ InOrder(s, coming[<<n, v>>], op)
    BY DEF LineOrder
  <2> HIDE DEF s
  <2>4. \A z \in ToSet(Tail(s)) : Behind(Head(s), z, op)
    BY <1>1, <2>3, OrderedTail
  <2>5. \A z \in ToSet(coming[<<n, v>>]) : Behind(Head(s), z, op)
    BY <1>2, <2>3 DEF InOrder
  <2>6. QED
    BY <2>2, <2>4, <2>5
<1>6. QED
  BY <1>2, <1>3, <1>4, <1>5

\* A line that reaches the log is still to be taken.
LEMMA WriteLines ==
    ASSUME EventsType, NEW u \in Node \X Volume, Write(u),
           NEW m \in Node, NEW v \in Volume
    PROVE  Lines(m, v)' = Lines(m, v)
<1>1. PICK n \in Node, w \in Volume : u = <<n, w>>
  OBVIOUS
<1> DEFINE s == coming[u]
           h == Head(s)
<1>2. /\ s \in Seq(Line) /\ s # <<>>
      /\ coming' = [coming EXCEPT ![u] = Tail(s)]
      /\ unread' = [unread EXCEPT ![n] = Append(unread[n], h)]
      /\ unread \in [Node -> Seq(Line)]
      /\ coming \in [Node \X Volume -> Seq(Line)]
  BY <1>1 DEF Write, EventsType
<1>3. /\ h \in Line /\ ToSet(s) = ToSet(Tail(s)) \cup {h} /\ h.vol = w
  <2>1. /\ h \in Line /\ h \in ToSet(s)
        /\ ToSet(s) = ToSet(Tail(s)) \cup {h}
    BY <1>2, TailMembers
  <2>2. QED
    BY <1>1, <2>1, LinesOf
<1>4. ToSet(Append(unread[n], h)) = ToSet(unread[n]) \cup {h}
  BY <1>2, <1>3, AppendMembers
<1> HIDE DEF h, s
<1>5. Lines(m, v) = {x \in ToSet(unread[m]) \cup ToSet(coming[<<m, v>>]) :
                        x.vol = v}
  BY DEF Lines
<1>6. Lines(m, v)' = {x \in ToSet(unread'[m]) \cup ToSet(coming'[<<m, v>>]) :
                        x.vol = v}
  BY DEF Lines
<1>7. CASE m # n
  <2>1. unread'[m] = unread[m] /\ coming'[<<m, v>>] = coming[<<m, v>>]
    BY <1>1, <1>2, <1>7
  <2>2. QED
    BY <1>5, <1>6, <2>1
<1>8. CASE m = n /\ v # w
  <2>1. /\ coming'[<<m, v>>] = coming[<<m, v>>]
        /\ unread'[m] = Append(unread[m], h)
    BY <1>1, <1>2, <1>8
  <2>2. QED
    BY <1>3, <1>4, <1>5, <1>6, <1>8, <2>1
<1>9. CASE m = n /\ v = w
  <2>1. /\ coming'[<<m, v>>] = Tail(s) /\ coming[<<m, v>>] = s
        /\ unread'[m] = Append(unread[m], h)
    BY <1>1, <1>2, <1>9 DEF s
  <2>2. QED
    BY <1>3, <1>4, <1>5, <1>6, <1>9, <2>1
<1>10. QED
  BY <1>7, <1>8, <1>9

\* A failure adds a line that belongs to no operation.
LEMMA FaultLines ==
    ASSUME EventsType, NEW n \in Node, NEW p \in Pattern, Fault(n, p),
           NEW m \in Node, NEW v \in Volume
    PROVE  /\ Lines(m, v) \subseteq Lines(m, v)'
           /\ \A x \in Lines(m, v)' :
                x \in Lines(m, v) \/ (x.by = 0 /\ x.kind \in Pattern)
<1> DEFINE f == [kind |-> p, vol |-> AVolume, by |-> 0]
<1>1. /\ unread' = [unread EXCEPT ![n] = Append(unread[n], f)]
      /\ unread \in [Node -> Seq(Line)] /\ coming' = coming
  BY DEF Fault, EventsType
<1>2. f \in Line /\ f.by = 0 /\ f.kind \in Pattern
  <2>1. AVolume \in Volume
    BY EventsAssumption DEF AVolume
  <2>2. p \in Kind
    BY DEF Pattern, InitialPatterns, WhenConnected, Kind
  <2>3. QED
    BY <2>1, <2>2 DEF Line
<1> HIDE DEF f
<1>3. ToSet(Append(unread[n], f)) = ToSet(unread[n]) \cup {f}
  BY <1>1, <1>2, AppendMembers
<1>4. /\ ToSet(unread[m]) \subseteq ToSet(unread'[m])
      /\ ToSet(unread'[m]) \subseteq ToSet(unread[m]) \cup {f}
  BY <1>1, <1>3
<1> DEFINE t == ToSet(coming[<<m, v>>])
<1>5. /\ Lines(m, v) = {x \in ToSet(unread[m]) \cup t : x.vol = v}
      /\ Lines(m, v)' = {x \in ToSet(unread'[m]) \cup t : x.vol = v}
  BY <1>1 DEF Lines
<1> HIDE DEF t
<1>6. QED
  BY <1>2, <1>4, <1>5

-----------------------------------------------------------------------------
(* The calls of event().                                                   *)

\* Every step keeps the calls that are left in step with the operation.
LEMMA CallsMadeStep == EventsType /\ CallsMade /\ [Next]_vars => CallsMade'
<1> SUFFICES ASSUME EventsType, CallsMade, [Next]_vars PROVE CallsMade'
  OBVIOUS
<1>1. ASSUME pc' = pc, op' = op, calls' = calls, abandoned' = abandoned,
             goals' \subseteq goals, todo' \subseteq todo
      PROVE  CallsMade'
  BY <1>1 DEF CallsMade
<1>2. CASE Command
  BY <1>1, <1>2 DEF Command, history
<1>3. CASE NextCall
  <2>1. /\ pc = "busy" /\ op.name \in Name /\ calls # <<>>
        /\ goals' = GoalsOf(op, Head(calls)) /\ calls' = Tail(calls)
        /\ todo' = {} /\ op' = op
    BY <1>3 DEF NextCall, EventsType, Filters
  <2>2. CASE op.name \in OneKind
    <3>1. PICK k : Awaited[op.name] = <<{k}>>
      BY <2>2, AwaitedOf
    <3>2. op.name \notin {"up_unconnected", "detach", "primary_force"}
      BY <2>2 DEF OneKind
    <3>3. calls = <<{k}>>
      BY <2>1, <3>1, <3>2 DEF CallsMade
    <3>4. calls' = <<>> /\ Head(calls) = {k} /\ Awaited[op.name][1] = {k}
      BY <2>1, <3>1, <3>3
    <3>5. \A g \in goals' : g.kinds = {k}
      BY <2>1, <3>2, <3>4 DEF GoalsOf
    <3>6. calls' # Awaited[op.name]
      BY <2>1, <3>4, CallCount
    <3>7. QED
      BY <2>1, <3>2, <3>4, <3>5, <3>6 DEF CallsMade
  <2>3. CASE op.name = "primary_force"
    <3>1. calls = <<{"Primary", "UpToDate"}>>
      BY <2>1, <2>3, AwaitedOf DEF CallsMade
    <3>2. calls' = <<>> /\ Head(calls) = {"Primary", "UpToDate"}
      BY <2>1, <3>1
    <3>3. \A g \in goals' : g.kinds \in {{"Primary"}, {"UpToDate"}}
      BY <2>1, <2>3, <3>2 DEF GoalsOf
    <3>4. calls' # Awaited[op.name]
      BY <2>1, <3>2, CallCount
    <3>5. QED
      BY <2>1, <2>3, <3>2, <3>3, <3>4 DEF CallsMade
  <2>4. CASE op.name = "detach"
    <3> DEFINE a == {"disk:Failed", "Detaching"}
               b == {"Diskless"}
    <3>1. Awaited[op.name] = <<a, b>>
      BY <2>4, AwaitedOf
    <3>2. calls = <<a, b>> \/ calls = <<b>>
      BY <2>1, <2>4, <3>1 DEF CallsMade
    <3>3. \A g \in goals' : g.kinds = Head(calls)
      BY <2>1, <2>4 DEF GoalsOf
    <3>4. CASE calls = <<a, b>>
      <4>1. calls' = <<b>> /\ (\A g \in goals' : g.kinds = a)
        BY <2>1, <3>3, <3>4, TwoCalls
      <4>2. calls' # <<>> /\ calls' # Awaited[op.name]
        BY <3>1, <4>1, TwoCalls
      <4>3. QED
        BY <2>1, <2>4, <4>1, <4>2 DEF CallsMade
    <3>5. CASE calls = <<b>>
      <4>1. calls' = <<>> /\ (\A g \in goals' : g.kinds = b)
        BY <2>1, <3>3, <3>5, TwoCalls
      <4>2. calls' # Awaited[op.name]
        BY <3>1, <4>1, TwoCalls
      <4>3. QED
        BY <2>1, <2>4, <4>1, <4>2 DEF CallsMade
    <3>6. QED
      BY <3>2, <3>4, <3>5
  <2>5. CASE op.name = "up_unconnected"
    <3> DEFINE a == {"Attaching"}
               b == Settled \cup {"disk:Failed"}
    <3>1. Awaited[op.name] = <<a, b>>
      BY <2>5, AwaitedOf
    <3>2. calls = <<a, b>> \/ calls = <<b>>
      BY <2>1, <2>5, <3>1 DEF CallsMade
    <3>3. \A g \in goals' : g.kinds = Head(calls)
      BY <2>1, <2>5 DEF GoalsOf
    <3>4. CASE calls = <<a, b>>
      <4>1. calls' = <<b>> /\ (\A g \in goals' : g.kinds = a)
        BY <2>1, <3>3, <3>4, TwoCalls
      <4>2. calls' # <<>> /\ calls' # Awaited[op.name]
        BY <3>1, <4>1, TwoCalls
      <4>3. QED
        BY <2>1, <2>5, <4>1, <4>2 DEF CallsMade
    <3>5. CASE calls = <<b>>
      <4>1. calls' = <<>> /\ (\A g \in goals' : g.kinds = b)
        BY <2>1, <3>3, <3>5, TwoCalls
      <4>2. calls' # Awaited[op.name]
        BY <3>1, <4>1, TwoCalls
      <4>3. QED
        BY <2>1, <2>5, <4>1, <4>2 DEF CallsMade
    <3>6. QED
      BY <3>2, <3>4, <3>5
  <2>6. QED
    BY <2>1, <2>2, <2>3, <2>4, <2>5 DEF OneKind
<1>4. pc' # "busy" => CallsMade'
  BY DEF CallsMade
<1>5. Return \/ Raise \/ Catch => pc' # "busy"
  BY DEF Return, Raise, Unwind, Catch
<1>6. ASSUME NEW c \in Calls, Call(c) PROVE CallsMade'
  <2>1. PICK wait \in {TRUE, c.name \notin MayNotWait} :
            Begin(c.name, c.nodes, c.vols, wait)
    BY <1>6 DEF Call
  <2>2. /\ goals' = {} /\ op'.name = c.name /\ op'.nodes = c.nodes
        /\ \/ calls' = Awaited[c.name]
           \/ calls' = <<>> /\ c.nodes \subseteq abandoned'
    BY <2>1 DEF Begin, EventsType
  <2>3. QED
    BY <2>2 DEF CallsMade
<1>7. ASSUME NEW n \in Node, Take(n) PROVE CallsMade'
  <2>1. \/ pc' # "busy"
        \/ /\ UNCHANGED <<pc, op, calls, abandoned, todo>>
           /\ goals' \subseteq goals
    BY <1>7 DEF Take, Unwind, history
  <2>2. QED
    BY <1>1, <1>4, <2>1
<1>8. ASSUME NEW u \in Node \X Volume, Write(u) PROVE CallsMade'
  BY <1>1, <1>8 DEF Write, control, history
<1>9. ASSUME NEW n \in Node, NEW p \in Pattern, Fault(n, p) PROVE CallsMade'
  BY <1>1, <1>9 DEF Fault, control, history
<1>10. ASSUME NEW p \in Pattern, Forbid(p) \/ Allow(p) PROVE CallsMade'
  BY <1>1, <1>10 DEF Forbid, Allow, control
<1>11. CASE UNCHANGED vars
  BY <1>1, <1>11 DEF vars, control, history
<1>12. QED
  BY <1>2, <1>3, <1>4, <1>5, <1>6, <1>7, <1>8, <1>9, <1>10, <1>11 DEF Next

-----------------------------------------------------------------------------
(* Whose lines there are, and in which order.                              *)

\* Only commands and failures make lines, only a new operation changes op.
LEMMA Frame ==
    ASSUME EventsType, LineOrder, [Next]_vars
    PROVE  /\ abandoned \subseteq abandoned'
           /\ \/ Command
              \/ \E c \in Calls : Call(c)
              \/ /\ op' = op /\ todo' \subseteq todo
                 /\ \A n \in Node, v \in Volume : \A x \in Lines(n, v)' :
                        x \in Lines(n, v) \/ (x.by = 0 /\ x.kind \in Pattern)
<1> DEFINE Made == \A n \in Node, v \in Volume : \A x \in Lines(n, v)' :
                        x \in Lines(n, v) \/ (x.by = 0 /\ x.kind \in Pattern)
<1>1. UNCHANGED <<unread, coming>> => Made
  BY SameLines
<1>2. CASE NextCall \/ Return \/ Raise \/ Catch
  <2>1. /\ UNCHANGED <<unread, coming>> /\ op' = op /\ todo' \subseteq todo
        /\ abandoned \subseteq abandoned'
    BY <1>2 DEF NextCall, Return, Raise, Catch, Unwind, control, history
  <2>2. QED
    BY <1>1, <2>1
<1>3. Command => abandoned' = abandoned
  BY DEF Command, history
<1>4. ASSUME NEW c \in Calls, Call(c) PROVE abandoned \subseteq abandoned'
  BY <1>4 DEF Call, Begin
<1>5. ASSUME NEW n \in Node, Take(n)
      PROVE  /\ op' = op /\ todo' \subseteq todo /\ Made
             /\ abandoned \subseteq abandoned'
  <2>1. op' = op /\ todo' \subseteq todo /\ abandoned \subseteq abandoned'
    BY <1>5 DEF Take, Unwind, history
  <2>2. Made
    BY <1>5, TakeLines
  <2>3. QED
    BY <2>1, <2>2
<1>6. ASSUME NEW u \in Node \X Volume, Write(u)
      PROVE  op' = op /\ todo' = todo /\ Made /\ abandoned' = abandoned
  <2>1. op' = op /\ todo' = todo /\ abandoned' = abandoned
    BY <1>6 DEF Write, control, history
  <2>2. Made
    BY <1>6, WriteLines
  <2>3. QED
    BY <2>1, <2>2
<1>7. ASSUME NEW n \in Node, NEW p \in Pattern, Fault(n, p)
      PROVE  op' = op /\ todo' = todo /\ Made /\ abandoned' = abandoned
  <2>1. op' = op /\ todo' = todo /\ abandoned' = abandoned
    BY <1>7 DEF Fault, control, history
  <2>2. Made
    BY <1>7, FaultLines
  <2>3. QED
    BY <2>1, <2>2
<1>8. CASE Quiet
  <2>1. /\ UNCHANGED <<unread, coming>> /\ op' = op /\ todo' = todo
        /\ abandoned' = abandoned
    BY <1>8 DEF Quiet, control
  <2>2. QED
    BY <1>1, <2>1
<1>9. ASSUME NEW p \in Pattern, Forbid(p) \/ Allow(p) PROVE Quiet
  BY <1>9 DEF Forbid, Allow, Quiet
<1>10. UNCHANGED vars => Quiet
  BY DEF vars, Quiet, history
<1> HIDE DEF Made
<1>11. QED
  <2>1. CASE Command
    BY <1>3, <2>1
  <2>2. CASE \E c \in Calls : Call(c)
    BY <1>4, <2>2
  <2>3. CASE \E n \in Node : Take(n)
    BY <1>5, <2>3 DEF Made
  <2>4. CASE \E u \in Node \X Volume : Write(u)
    BY <1>6, <2>4 DEF Made
  <2>5. CASE \E n \in Node, p \in Pattern : Fault(n, p)
    BY <1>7, <2>5 DEF Made
  <2>6. QED
    BY <1>2, <1>8, <1>9, <1>10, <2>1, <2>2, <2>3, <2>4, <2>5 DEF Next

\* A new operation has no lines yet.
LEMMA BeginEffect ==
    ASSUME EventsType, NEW c \in Calls, Call(c)
    PROVE  /\ pc = "idle" /\ pc' = "busy" /\ todo' = op'.nodes
           /\ op'.id = op.id + 1 /\ op'.name = c.name /\ goals' = {}
           /\ c.name \in Name
           /\ \/ calls' = Awaited[c.name]
              \/ calls' = <<>> /\ op'.nodes \subseteq abandoned'
           /\ UNCHANGED <<unread, coming>>
<1>1. PICK wait \in {TRUE, c.name \notin MayNotWait} :
        Begin(c.name, c.nodes, c.vols, wait)
  BY DEF Call
<1>2. c.name \in Name
  BY EventsAssumption DEF Name
<1>3. QED
  BY <1>1, <1>2 DEF Begin, EventsType

\* Every step keeps what is known of whose lines are left.
LEMMA WhoseLinesStep ==
    EventsType /\ LineOrder /\ WhoseLines /\ [Next]_vars => WhoseLines'
<1> SUFFICES ASSUME EventsType, LineOrder, WhoseLines, [Next]_vars,
                    NEW m \in Node, NEW v \in Volume, NEW x \in Lines(m, v)'
             PROVE  /\ x.by <= op'.id
                    /\ x.by = 0 => x.kind \in Pattern
                    /\ Own(x)' => /\ m \in op'.nodes \ todo' /\ v \in op'.vols
                                  /\ x.kind \in KindsOf(op'.name, m)
  BY DEF WhoseLines, KindsOf
<1>1. op.id \in Nat
  BY DEF EventsType
<1>2. x \in Lines(m, v) => x \in Line
  BY LinesOf
<1>3. CASE Command
  <2>1. PICK n \in todo :
            /\ n \in Node /\ todo' = todo \ {n}
            /\ x \in Lines(m, v) \/
                    /\ m = n /\ v \in op.vols /\ x.by = op.id
                    /\ x.kind \in KindsOf(op.name, n)
    BY <1>3, CommandLines DEF NewLines
  <2>2. op' = op /\ todo \subseteq op.nodes /\ op.id > 0
    BY <1>3 DEF Command, EventsType
  <2>3. CASE x \in Lines(m, v)
    BY <2>1, <2>2, <2>3 DEF WhoseLines, Own
  <2>4. CASE x \notin Lines(m, v)
    BY <1>1, <2>1, <2>2, <2>4 DEF Own
  <2>5. QED
    BY <2>3, <2>4
<1>4. ASSUME NEW c \in Calls, Call(c)
      PROVE  /\ x.by <= op'.id /\ ~Own(x)'
             /\ x.by = 0 => x.kind \in Pattern
  <2>1. op'.id = op.id + 1 /\ x \in Lines(m, v)
    BY <1>4, BeginEffect, SameLines
  <2>2. x.by \in Nat /\ x.by <= op.id
    BY <1>2, <2>1 DEF WhoseLines, Line
  <2>3. QED
    BY <1>1, <2>1, <2>2 DEF WhoseLines, Own
<1>5. CASE /\ op' = op /\ todo' \subseteq todo
           /\ x \in Lines(m, v) \/ (x.by = 0 /\ x.kind \in Pattern)
  BY <1>1, <1>5 DEF WhoseLines, Own
<1>6. QED
  BY <1>3, <1>4, <1>5, Frame

\* Every step keeps the order of the lines of an operation.
LEMMA LineOrderStep ==
    EventsType /\ LineOrder /\ WhoseLines /\ [Next]_vars => LineOrder'
<1> SUFFICES ASSUME EventsType, LineOrder, WhoseLines, [Next]_vars
             PROVE  LineOrder'
  OBVIOUS
<1>1. CASE UNCHANGED <<op, unread, coming>>
  BY <1>1 DEF LineOrder
<1>2. NextCall \/ Return \/ Raise \/ Catch \/ UNCHANGED vars
        => UNCHANGED <<op, unread, coming>>
  BY DEF NextCall, Return, Raise, Catch, Unwind, control, vars
<1>3. ASSUME NEW p \in Pattern, Forbid(p) \/ Allow(p)
      PROVE  UNCHANGED <<op, unread, coming>>
  BY <1>3 DEF Forbid, Allow, control
<1>4. ASSUME NEW n \in Node, NEW v \in Volume
      PROVE  \A x \in ToSet(unread[n]) \cup ToSet(coming[<<n, v>>]) :
                /\ x \in Line /\ x.by <= op.id
                /\ x.by = op.id /\ op.id # 0 => n \notin todo
  <2>1. SUFFICES ASSUME NEW x \in ToSet(unread[n]) \cup ToSet(coming[<<n, v>>])
                 PROVE  /\ x \in Line /\ x.by <= op.id
                        /\ x.by = op.id /\ op.id # 0 => n \notin todo
    OBVIOUS
  <2>2. x \in Line /\ x.vol \in Volume
    BY <2>1, LinesOf DEF Line
  <2>3. x \in Lines(n, x.vol)
    BY <2>1, LinesOf DEF Lines
  <2>4. QED
    BY <2>2, <2>3 DEF WhoseLines, Own
<1>5. ASSUME NEW c \in Calls, Call(c) PROVE LineOrder'
  <2>1. op'.id = op.id + 1 /\ UNCHANGED <<unread, coming>> /\ op.id \in Nat
    BY <1>5, BeginEffect DEF EventsType
  <2>2. ASSUME NEW n \in Node, NEW v \in Volume,
               NEW x \in ToSet(unread[n]) \cup ToSet(coming[<<n, v>>]), NEW y
        PROVE  Behind(x, y, op')
    <3>1. x.by \in Nat /\ x.by <= op.id
      BY <1>4 DEF Line
    <3>2. QED
      BY <2>1, <3>1 DEF Behind
  <2>3. PICK w : w \in Volume
    BY EventsAssumption
  <2>4. ASSUME NEW n \in Node PROVE Ordered(unread[n], op')
    <3>1. \A i \in DOMAIN unread[n] : unread[n][i] \in ToSet(unread[n])
      BY DEF ToSet
    <3>2. QED
      BY <2>2, <2>3, <3>1 DEF Ordered
  <2>5. ASSUME NEW n \in Node, NEW v \in Volume
        PROVE  /\ Ordered(coming[<<n, v>>], op')
               /\ InOrder(unread[n], coming[<<n, v>>], op')
    <3> DEFINE t == coming[<<n, v>>]
    <3>1. \A i \in DOMAIN t : t[i] \in ToSet(t)
      BY DEF ToSet
    <3>2. \A x \in ToSet(unread[n]) \cup ToSet(t) : \A y :
                Behind(x, y, op')
      BY <2>2
    <3> HIDE DEF t
    <3>3. Ordered(t, op') /\ InOrder(unread[n], t, op')
      BY <3>1, <3>2 DEF Ordered, InOrder
    <3>4. QED
      BY <3>3 DEF t
  <2>6. QED
    BY <2>1, <2>4, <2>5 DEF LineOrder
<1>6. CASE Command
  <2>1. PICK n \in todo :
            /\ n \in Node /\ todo' = todo \ {n}
            /\ \A u \in Node \X Volume : Adds(n, u)
    BY <1>6, CommandEffect
  <2>2. unread' = unread /\ op' = op /\ op.id # 0
    BY <1>6 DEF Command, EventsType
  <2>3. ASSUME NEW m \in Node, NEW v \in Volume
        PROVE  /\ Ordered(coming'[<<m, v>>], op)
               /\ InOrder(unread[m], coming'[<<m, v>>], op)
    <3> DEFINE u == <<m, v>>
    <3>1. /\ u \in Node \X Volume /\ u[1] = m /\ u[2] = v
          /\ coming[u] \in Seq(Line)
      BY LinesOf
    <3>2. Ordered(coming[u], op) /\ InOrder(unread[m], coming[u], op)
      BY DEF LineOrder
    <3>3. m = n => \A x \in ToSet(unread[m]) \cup ToSet(coming[u]) : \A y :
                        Behind(x, y, op)
      BY <1>4, <2>2 DEF Behind
    <3> HIDE DEF u
    <3>4. CASE m = n /\ v \in op.vols
      <4>1. PICK s \in Seq(Line) : coming'[u] = coming[u] \o s
                                   /\ Ordered(s, op)
        BY <2>1, <3>1, <3>4 DEF Adds
      <4>2. InOrder(coming[u], s, op) /\ InOrder(unread[m], s, op)
        BY <3>3, <3>4 DEF InOrder
      <4>3. Ordered(coming'[u], op)
        BY <3>1, <3>2, <4>1, <4>2, OrderedConcat
      <4>4. InOrder(unread[m], coming'[u], op)
        BY <3>3, <3>4 DEF InOrder
      <4>5. QED
        BY <4>3, <4>4 DEF u
    <3>5. CASE ~(m = n /\ v \in op.vols)
      BY <2>1, <3>1, <3>2, <3>5 DEF u, Adds
    <3>6. QED
      BY <3>4, <3>5
  <2>4. QED
    BY <2>2, <2>3 DEF LineOrder
<1>7. ASSUME NEW n \in Node, Take(n) PROVE LineOrder'
  <2>1. /\ unread[n] # <<>> /\ coming' = coming /\ op' = op
        /\ unread' = [unread EXCEPT ![n] = Tail(unread[n])]
        /\ unread \in [Node -> Seq(Line)]
    BY <1>7 DEF Take, Unwind, EventsType
  <2>2. /\ ToSet(Tail(unread[n])) \subseteq ToSet(unread[n])
    BY <2>1, TailMembers
  <2>3. Ordered(Tail(unread[n]), op)
    BY <2>1, OrderedTail DEF LineOrder
  <2>4. ASSUME NEW m \in Node
        PROVE  /\ Ordered(unread'[m], op)
               /\ ToSet(unread'[m]) \subseteq ToSet(unread[m])
    BY <2>1, <2>2, <2>3 DEF LineOrder
  <2>5. ASSUME NEW m \in Node, NEW v \in Volume
        PROVE  InOrder(unread'[m], coming[<<m, v>>], op)
    BY <2>4 DEF LineOrder, InOrder
  <2>6. QED
    BY <2>1, <2>4, <2>5 DEF LineOrder
<1>8. ASSUME NEW u \in Node \X Volume, Write(u) PROVE LineOrder'
  <2>1. PICK n \in Node, v \in Volume : u = <<n, v>>
    OBVIOUS
  <2> DEFINE s == coming[u]
             h == Head(s)
  <2>2. /\ s \in Seq(Line) /\ s # <<>> /\ op' = op
        /\ coming' = [coming EXCEPT ![u] = Tail(s)]
        /\ unread' = [unread EXCEPT ![n] = Append(unread[n], h)]
        /\ unread \in [Node -> Seq(Line)]
        /\ coming \in [Node \X Volume -> Seq(Line)]
    BY <1>8, <2>1 DEF Write, EventsType, control
  <2>3. /\ h \in Line /\ h \in ToSet(s)
        /\ ToSet(s) = ToSet(Tail(s)) \cup {h}
    BY <2>2, TailMembers
  <2>4. h.vol = v
    BY <2>1, <2>3, LinesOf
  <2>5. Ordered(s, op) /\ InOrder(unread[n], s, op)
    BY <2>1 DEF LineOrder
  <2> HIDE DEF s, h
  <2>6. /\ Ordered(Tail(s), op)
        /\ \A y \in ToSet(Tail(s)) : Behind(h, y, op)
    BY <2>2, <2>5, OrderedTail DEF h
  <2>7. /\ Ordered(Append(unread[n], h), op)
        /\ ToSet(Append(unread[n], h)) = ToSet(unread[n]) \cup {h}
    <3>1. unread[n] \in Seq(Line) /\ Ordered(unread[n], op)
      BY <2>2 DEF LineOrder
    <3>2. \A y \in ToSet(unread[n]) : Behind(y, h, op)
      BY <2>3, <2>5 DEF InOrder
    <3>3. QED
      BY <2>3, <3>1, <3>2, AppendMembers, OrderedAppend
  <2>8. ASSUME NEW m \in Node PROVE Ordered(unread'[m], op)
    BY <2>2, <2>7 DEF LineOrder
  <2>9. ASSUME NEW m \in Node, NEW w \in Volume
        PROVE  /\ Ordered(coming'[<<m, w>>], op)
               /\ InOrder(unread'[m], coming'[<<m, w>>], op)
    <3>1. /\ Ordered(coming[<<m, w>>], op)
          /\ InOrder(unread[m], coming[<<m, w>>], op)
      BY DEF LineOrder
    <3>2. CASE m # n
      <4>1. /\ unread'[m] = unread[m]
            /\ coming'[<<m, w>>] = coming[<<m, w>>]
        BY <2>1, <2>2, <3>2
      <4>2. QED
        BY <3>1, <4>1
    <3>3. CASE m = n /\ w = v
      <4>1. /\ coming'[<<m, w>>] = Tail(s)
            /\ unread'[m] = Append(unread[n], h)
        BY <2>1, <2>2, <3>3
      <4>2. InOrder(Append(unread[n], h), Tail(s), op)
        BY <2>3, <2>5, <2>6, <2>7 DEF InOrder
      <4>3. QED
        BY <2>6, <4>1, <4>2
    <3>4. CASE m = n /\ w # v
      <4>1. /\ coming'[<<m, w>>] = coming[<<m, w>>]
            /\ unread'[m] = Append(unread[n], h)
        BY <2>1, <2>2, <3>4
      <4>2. \A y \in ToSet(coming[<<m, w>>]) : Behind(h, y, op)
        <5>1. \A y \in ToSet(coming[<<m, w>>]) : y.vol = w
          BY LinesOf
        <5>2. QED
          BY <2>4, <3>4, <5>1 DEF Behind
      <4>3. InOrder(Append(unread[n], h), coming[<<m, w>>], op)
        BY <2>7, <3>1, <3>4, <4>2 DEF InOrder
      <4>4. QED
        BY <3>1, <4>1, <4>3
    <3>5. QED
      BY <3>2, <3>3, <3>4
  <2>10. QED
    BY <2>2, <2>8, <2>9 DEF LineOrder
<1>9. ASSUME NEW n \in Node, NEW p \in Pattern, Fault(n, p) PROVE LineOrder'
  <2> DEFINE f == [kind |-> p, vol |-> AVolume, by |-> 0]
  <2>1. /\ unread' = [unread EXCEPT ![n] = Append(unread[n], f)]
        /\ unread \in [Node -> Seq(Line)] /\ coming' = coming /\ op' = op
    BY <1>9 DEF Fault, EventsType, control
  <2>2. f \in Line /\ f.by = 0
    <3>1. AVolume \in Volume
      BY EventsAssumption DEF AVolume
    <3>2. p \in Kind
      BY DEF Pattern, InitialPatterns, WhenConnected, Kind
    <3>3. QED
      BY <3>1, <3>2 DEF Line
  <2> HIDE DEF f
  <2>3. \A y : Behind(y, f, op) /\ Behind(f, y, op)
    BY <2>2 DEF Behind
  <2>4. /\ Ordered(Append(unread[n], f), op)
        /\ ToSet(Append(unread[n], f)) = ToSet(unread[n]) \cup {f}
    BY <2>1, <2>2, <2>3, AppendMembers, OrderedAppend DEF LineOrder
  <2>5. ASSUME NEW m \in Node
        PROVE  /\ Ordered(unread'[m], op)
               /\ ToSet(unread'[m]) \subseteq ToSet(unread[m]) \cup {f}
    BY <2>1, <2>4 DEF LineOrder
  <2>6. ASSUME NEW m \in Node, NEW v \in Volume
        PROVE  InOrder(unread'[m], coming[<<m, v>>], op)
    BY <2>3, <2>5 DEF LineOrder, InOrder
  <2>7. QED
    BY <2>1, <2>5, <2>6 DEF LineOrder
<1>10. QED
  BY <1>1, <1>2, <1>3, <1>5, <1>6, <1>7, <1>8, <1>9 DEF Next

-----------------------------------------------------------------------------
(* What is left over, what is waited for.                                  *)

\* Every step keeps what earlier operations have left.
LEMMA LeftOverStep ==
    EventsType /\ LineOrder /\ WaitedFor /\ LeftOver /\ [Next]_vars
        => LeftOver'
<1> SUFFICES ASSUME EventsType, LineOrder, WaitedFor, LeftOver, [Next]_vars,
                    NEW m \in Node, m \notin abandoned', NEW v \in Volume,
                    NEW x \in Lines(m, v)', Stale(x)'
             PROVE  x.kind \in Settled
  BY DEF LeftOver
<1>1. m \in Node \ abandoned
  BY Frame
<1>2. CASE Command
  <2>1. op' = op
    BY <1>2 DEF Command
  <2>2. x \in Lines(m, v) \/ x.by = op.id
    BY <1>2, CommandLines DEF NewLines
  <2>3. QED
    BY <1>1, <2>1, <2>2 DEF LeftOver, Stale
<1>3. ASSUME NEW c \in Calls, Call(c) PROVE x.kind \in Settled
  <2>1. pc # "busy" /\ x \in Lines(m, v)
    BY <1>3, BeginEffect, SameLines
  <2>2. Own(x) \/ Stale(x)
    BY DEF Own, Stale
  <2>3. QED
    BY <1>1, <2>1, <2>2 DEF LeftOver, WaitedFor, Waits
<1>4. CASE /\ op' = op
           /\ x \in Lines(m, v) \/ (x.by = 0 /\ x.kind \in Pattern)
  BY <1>1, <1>4 DEF LeftOver, Stale
<1>5. QED
  BY <1>2, <1>3, <1>4, Frame

\* What a call waits for: detach() and up_unconnected() take more than one kind
\* of line in one of their calls, every other call takes one kind.
LEMMA GoalKinds ==
    ASSUME EventsType, CallsMade, pc = "busy", NEW g \in goals
    PROVE  \/ /\ op.name = "detach" /\ calls # <<>>
              /\ g.kinds = {"disk:Failed", "Detaching"}
           \/ /\ op.name = "up_unconnected" /\ calls = <<>>
              /\ g.kinds = Settled \cup {"disk:Failed"}
           \/ /\ calls = <<>> \/ op.name = "up_unconnected"
              /\ \E k : /\ g.kinds = {k} /\ k \notin Pattern
                        /\ \/ k \notin Settled
                           \/ op.name = "primary_force" /\ k = "UpToDate"
                        /\ op.name = "up_unconnected" => k = "Attaching"
<1>0. op.name \in Name
  BY DEF EventsType
<1>1. /\ Pattern = {"disk:Failed", "peer-disk:Failed",
                    "connection:BrokenPipe"}
      /\ Settled = {"Inconsistent", "UpToDate"}
  BY DEF Pattern, InitialPatterns, WhenConnected, Settled
<1>2. CASE op.name = "up_unconnected"
  <2>1. g.kinds = IF calls = <<>> THEN Settled \cup {"disk:Failed"}
                  ELSE {"Attaching"}
    BY <1>2 DEF CallsMade
  <2>2. QED
    BY <1>1, <1>2, <2>1
<1>3. CASE op.name = "detach"
  <2>1. g.kinds = IF calls = <<>> THEN {"Diskless"}
                  ELSE {"disk:Failed", "Detaching"}
    BY <1>3 DEF CallsMade
  <2>2. QED
    BY <1>1, <1>3, <2>1
<1>4. CASE op.name = "primary_force"
  <2>1. calls = <<>> /\ g.kinds \in {{"Primary"}, {"UpToDate"}}
    BY <1>4 DEF CallsMade
  <2>2. QED
    BY <1>1, <1>4, <2>1
<1>5. CASE op.name \in OneKind
  <2>1. PICK k : /\ Awaited[op.name] = <<{k}>>
                 /\ k \notin Settled /\ k \notin Pattern
    BY <1>5, AwaitedOf
  <2>2. op.name \notin {"up_unconnected", "detach", "primary_force"}
    BY <1>5 DEF OneKind
  <2>3. calls = <<>> /\ g.kinds = Awaited[op.name][1]
    BY <2>2 DEF CallsMade
  <2>4. g.kinds = {k}
    BY <2>1, <2>3
  <2>5. QED
    BY <2>1, <2>2, <2>3, <2>4
<1>6. QED
  BY <1>0, <1>2, <1>3, <1>4, <1>5 DEF OneKind

\* A line that ends the wait for one kind of line is the operation's own.
LEMMA OwnHead ==
    ASSUME EventsType, LineOrder, WhoseLines, LeftOver,
           NEW n \in Node, n \notin abandoned, Take(n),
           Head(unread[n]).kind \notin Settled,
           Head(unread[n]).kind \notin Pattern
    PROVE  Own(Head(unread[n]))
<1> DEFINE h == Head(unread[n])
<1>1. h \in Lines(n, h.vol) /\ h.vol \in Volume
  BY TakeLines DEF Line
<1>2. h.by # 0
  BY <1>1 DEF WhoseLines
<1>3. ~Stale(h)
  BY <1>1 DEF LeftOver
<1>4. QED
  BY <1>2, <1>3 DEF Own, Stale

\* The step of event() that takes a line and goes on.
LEMMA TakeEffect ==
    ASSUME NEW n \in Node, Take(n)
    PROVE  /\ pc = "busy" /\ op' = op /\ coming' = coming
           /\ \E g \in goals : g.node = n
           /\ \/ /\ pc' = "raised" /\ abandoned' = abandoned \cup op.nodes
              \/ /\ UNCHANGED <<pc, todo, calls, abandoned>>
                 /\ goals' = {g \in goals :
                        g.node = n => ~Matches(Head(unread[n]), g)}
  BY DEF Take, Unwind, history

\* The operation goes on to wait for its next kinds of lines.
LEMMA NextCallEffect ==
    ASSUME EventsType, CallsMade, NextCall
    PROVE  /\ pc = "busy" /\ op' = op /\ todo = {} /\ goals = {}
           /\ op.name \in Name
           /\ goals' = GoalsOf(op, Head(calls))
           /\ UNCHANGED <<pc, todo, unread, coming, abandoned>>
           /\ calls # <<>> /\ calls' = Tail(calls)
           /\ \/ calls = Awaited[op.name]
              \/ op.name \in {"detach", "up_unconnected"}
  BY DEF NextCall, CallsMade, EventsType, Filters, history

\* A call waits for each node and volume of its operation.
LEMMA GoalsOfAll ==
    ASSUME NEW n \in op.nodes, NEW v \in op.vols, NEW K
    PROVE  IF op.name = "primary_force"
           THEN \A k \in K : [node |-> n, vol |-> v, kinds |-> {k}]
                                \in GoalsOf(op, K)
           ELSE [node |-> n, vol |-> v, kinds |-> K] \in GoalsOf(op, K)
  BY DEF GoalsOf

\* The steps that concern neither the operation nor what it waits for.
LEMMA Bystander ==
    ASSUME EventsType, LineOrder, [Next]_vars
    PROVE  \/ Command \/ NextCall
           \/ \E c \in Calls : Call(c)
           \/ \E n \in Node : Take(n) /\ pc' = pc
           \/ /\ Return \/ Catch
              /\ pc' # "busy" /\ op' = op /\ UNCHANGED <<unread, coming>>
           \/ pc' # "busy" /\ op' = op /\ abandoned' = abandoned \cup op.nodes
           \/ UNCHANGED <<pc, op, todo, calls, goals, abandoned>>
<1>1. Return \/ Catch => /\ pc' # "busy" /\ op' = op
                         /\ UNCHANGED <<unread, coming>>
  BY DEF Return, Catch, control
<1>2. Raise => pc' # "busy" /\ op' = op /\ abandoned' = abandoned \cup op.nodes
  BY DEF Raise, Unwind
<1>3. ASSUME NEW n \in Node, Take(n)
      PROVE  \/ pc' = pc
             \/ /\ pc' # "busy" /\ op' = op
                /\ abandoned' = abandoned \cup op.nodes
  BY <1>3, TakeEffect
<1>4. ASSUME NEW p \in Pattern, Forbid(p) \/ Allow(p)
      PROVE  UNCHANGED <<pc, op, todo, calls, goals, abandoned>>
  BY <1>4 DEF Forbid, Allow, control
<1>5. ASSUME NEW u \in Node \X Volume, Write(u)
      PROVE  UNCHANGED <<pc, op, todo, calls, goals, abandoned>>
  BY <1>5 DEF Write, control, history
<1>6. ASSUME NEW n \in Node, NEW p \in Pattern, Fault(n, p)
      PROVE  UNCHANGED <<pc, op, todo, calls, goals, abandoned>>
  BY <1>6 DEF Fault, control, history
<1>7. CASE UNCHANGED vars
  BY <1>7 DEF vars, control, history
<1>8. QED
  <2>1. CASE \E n \in Node : Take(n)
    BY <1>3, <2>1
  <2>2. CASE \E n \in Node, p \in Pattern : Fault(n, p)
    BY <1>6, <2>2
  <2>3. CASE \E u \in Node \X Volume : Write(u)
    BY <1>5, <2>3
  <2>4. CASE \E p \in Pattern : Forbid(p) \/ Allow(p)
    BY <1>4, <2>4
  <2>5. QED
    BY <1>1, <1>2, <1>7, <2>1, <2>2, <2>3, <2>4 DEF Next

\* The kinds of an operation that makes one call are what it waits for, but for
\* what the disk is after "Attaching", and what comes before "destroy".
LEMMA KindsAwaited ==
    ASSUME NEW name \in Name, name \notin {"detach", "up_unconnected", "down"},
           NEW n \in Node, NEW k \in KindsOf(name, n), k \notin Settled
    PROVE  k \in Head(Awaited[name])
<1>1. CASE name = "primary_force"
  <2>1. Head(Awaited[name]) = {"Primary", "UpToDate"}
    BY <1>1, AwaitedOf
  <2>2. QED
    BY <1>1, <2>1 DEF KindsOf
<1>2. CASE name = "attach"
  <2>1. Head(Awaited[name]) = {"Attaching"}
    BY <1>2, AwaitedOf
  <2>2. QED
    BY <1>2, <2>1 DEF KindsOf
<1>3. CASE name \notin {"primary_force", "attach"}
  <2>1. PICK j : Awaited[name] = <<{j}>>
    BY <1>3, AwaitedOf DEF OneKind
  <2>2. Awaited[name][1] = {j} /\ Head(Awaited[name]) = {j}
    BY <2>1
  <2>3. QED
    BY <1>3, <2>2 DEF KindsOf
<1>4. QED
  BY <1>1, <1>2, <1>3

\* Every step keeps that lines of the operation are waited for.
LEMMA WaitedForStep ==
    ASSUME EventsType, CallsMade, LineOrder, WhoseLines, LeftOver, WaitedFor,
           [Next]_vars, WhoseLines'
    PROVE  WaitedFor'
<1> SUFFICES ASSUME NEW m \in (Node \ abandoned)', NEW v \in Volume,
                    NEW x \in Lines(m, v)', Own(x)', x.kind \notin Settled
             PROVE  Waits(m, v, x)'
  BY DEF WaitedFor
<1>1. m \in Node \ abandoned
  BY Frame
<1>2. /\ m \in op'.nodes \ todo' /\ v \in op'.vols /\ x.by # 0
      /\ x.by = op'.id
  BY DEF WhoseLines, Own
<1>3. ASSUME op' = op, x \in Lines(m, v)
      PROVE  Own(x) /\ Waits(m, v, x)
  <2>1. Own(x)
    BY <1>3 DEF Own
  <2>2. QED
    BY <1>1, <1>3, <2>1 DEF WaitedFor
<1>4. CASE Command
  <2>1. /\ UNCHANGED <<pc, op, calls, goals, abandoned>>
        /\ pc = "busy" /\ todo # {}
    BY <1>4 DEF Command, history
  <2>2. calls = Awaited[op.name]
    BY <1>1, <1>2, <2>1 DEF CallsMade
  <2>3. QED
    BY <2>1, <2>2 DEF Waits
<1>5. CASE NextCall
  <2>1. /\ pc = "busy" /\ op' = op /\ goals = {} /\ op.name \in Name
        /\ goals' = GoalsOf(op, Head(calls)) /\ pc' = pc
        /\ calls # <<>> /\ calls' = Tail(calls)
        /\ \/ calls = Awaited[op.name]
           \/ op.name \in {"detach", "up_unconnected"}
    BY <1>5, NextCallEffect
  <2>2. x \in Lines(m, v)
    BY <1>5, SameLines DEF NextCall
  <2>3. calls = Awaited[op.name] \/ op.name # "up_unconnected"
    BY <1>3, <2>1, <2>2 DEF Waits
  <2>4. m \in op.nodes /\ v \in op.vols /\ x.kind \in KindsOf(op.name, m)
    BY <1>2, <1>3, <2>1, <2>2 DEF WhoseLines
  <2>5. CASE op.name = "detach"
    <3> DEFINE a == {"disk:Failed", "Detaching"}
               b == {"Diskless"}
    <3>1. calls = <<a, b>> \/ calls = <<b>>
      BY <2>1, <2>5, AwaitedOf DEF CallsMade
    <3>2. CASE calls = <<a, b>>
      <4>1. calls' # <<>>
        BY <2>1, <3>2, TwoCalls
      <4>2. QED
        BY <2>1, <2>5, <4>1 DEF Waits
    <3>3. CASE calls = <<b>>
      <4>1. Head(calls) = {"Diskless"}
        BY <3>3, TwoCalls
      <4>2. [node |-> m, vol |-> v, kinds |-> {"Diskless"}] \in goals'
        BY <2>1, <2>4, <2>5, <4>1, GoalsOfAll
      <4>3. QED
        BY <2>1, <4>2 DEF Waits
    <3>4. QED
      BY <3>1, <3>2, <3>3
  <2>6. CASE op.name = "up_unconnected"
    <3>1. calls = <<{"Attaching"}, Settled \cup {"disk:Failed"}>>
      BY <2>3, <2>6, AwaitedOf
    <3>2. Head(calls) = {"Attaching"}
      BY <3>1
    <3>3. x.kind = "Attaching"
      BY <2>4, <2>6 DEF KindsOf
    <3>4. [node |-> m, vol |-> v, kinds |-> {"Attaching"}] \in goals'
      BY <2>1, <2>4, <2>6, <3>2, GoalsOfAll
    <3>5. QED
      BY <2>1, <3>3, <3>4 DEF Waits
  <2>9. CASE op.name = "down"
    <3>1. Head(calls) = {"destroy"}
      BY <2>1, <2>9, AwaitedOf
    <3>2. [node |-> m, vol |-> v, kinds |-> {"destroy"}] \in goals'
      BY <2>1, <2>4, <2>9, <3>1, GoalsOfAll
    <3>3. QED
      BY <2>1, <3>2 DEF Waits
  <2>7. CASE op.name \notin {"detach", "up_unconnected", "down"}
    <3>1. x.kind \in Head(calls)
      BY <2>1, <2>4, <2>7, KindsAwaited
    <3>2. CASE op.name = "primary_force"
      <4>1. [node |-> m, vol |-> v, kinds |-> {x.kind}] \in goals'
        BY <2>1, <2>4, <3>1, <3>2, GoalsOfAll
      <4>2. QED
        BY <2>1, <4>1 DEF Waits
    <3>3. CASE op.name # "primary_force"
      <4>1. [node |-> m, vol |-> v, kinds |-> Head(calls)] \in goals'
        BY <2>1, <2>4, <3>3, GoalsOfAll
      <4>2. QED
        BY <2>1, <3>1, <4>1 DEF Waits
    <3>4. QED
      BY <3>2, <3>3
  <2>8. QED
    BY <2>5, <2>6, <2>7, <2>9
<1>6. ASSUME NEW c \in Calls, Call(c) PROVE FALSE
  <2>1. todo' = op'.nodes
    BY <1>6, BeginEffect
  <2>2. QED
    BY <1>2, <2>1
<1>7. ASSUME NEW n \in Node, Take(n), pc' = pc PROVE Waits(m, v, x)'
  <2> DEFINE h == Head(unread[n])
  <2>1. /\ pc = "busy" /\ op' = op /\ calls' = calls /\ pc' = pc
        /\ goals' = {g \in goals : g.node = n => ~Matches(h, g)}
    BY <1>7, TakeEffect
  <2>2. x \in Lines(m, v) /\ (m = n => Behind(h, x, op)) /\ x.vol = v
    BY <1>7, TakeLines, LinesOf
  <2>3. Own(x) /\ x.kind \in KindsOf(op.name, m)
    BY <1>3, <2>1, <2>2 DEF WhoseLines
  <2>4. ASSUME NEW g \in goals, g.node = m, g.vol = v,
               \/ x.kind \in g.kinds
               \/ g.kinds \in {{"Diskless"}, {"destroy"}}
        PROVE  Waits(m, v, x)'
    <3>1. CASE m # n \/ ~Matches(h, g)
      BY <2>1, <2>4, <3>1 DEF Waits
    <3>2. CASE m = n /\ Matches(h, g)
      <4>1. h.vol = v /\ h.kind \in g.kinds
        BY <2>4, <3>2 DEF Matches
      <4>2. CASE op.name = "detach" /\ calls # <<>>
        BY <2>1, <4>2 DEF Waits
      <4>3. CASE /\ op.name = "up_unconnected"
                 /\ g.kinds = Settled \cup {"disk:Failed"}
        <5>1. x.kind \in {"Attaching"} \cup Settled
          BY <2>3, <4>3 DEF KindsOf
        <5>2. "Attaching" \notin g.kinds /\ "Attaching" \notin Settled
          BY <4>3 DEF Settled
        <5>3. g.kinds \notin {{"Diskless"}, {"destroy"}}
          BY <4>3
        <5>4. QED
          BY <2>4, <5>1, <5>2, <5>3
      <4>4. ASSUME NEW k, g.kinds = {k}, k \notin Settled, k \notin Pattern
            PROVE  FALSE
        <5>1. h.kind = k
          BY <4>1, <4>4
        <5>2. Own(h)
          BY <1>1, <1>7, <3>2, <4>4, <5>1, OwnHead
        <5>3. x.kind # k /\ k \notin Final(op.name)
          BY <2>2, <2>3, <3>2, <4>1, <5>1, <5>2 DEF Behind, Own
        <5>4. k \in {"Diskless", "destroy"}
          BY <2>4, <4>4, <5>3
        <5>5. k \in KindsOf(op.name, m) /\ op.name \in Name
          <6>1. h \in Lines(n, h.vol) /\ h.vol \in Volume
            BY <1>7, TakeLines DEF Line
          <6>2. h.kind \in KindsOf(op.name, n)
            BY <5>2, <6>1 DEF WhoseLines
          <6>3. QED
            BY <2>1, <3>2, <5>1, <6>2 DEF EventsType
        <5>6. op.name = "down" => k = "destroy"
          BY <2>1, <4>4, AwaitedOf DEF CallsMade
        <5>7. QED
          BY <5>3, <5>4, <5>5, <5>6, LastOf
      <4>6. CASE op.name = "primary_force" /\ g.kinds = {"UpToDate"}
        BY <2>4, <4>6 DEF Settled
      <4>5. QED
        BY <2>1, <4>2, <4>3, <4>4, <4>6, GoalKinds
    <3>3. QED
      BY <3>1, <3>2
  <2>5. QED
    BY <1>3, <2>1, <2>2, <2>4 DEF Waits
<1>8. CASE (Return \/ Catch) /\ op' = op /\ UNCHANGED <<unread, coming>>
  <2>1. x \in Lines(m, v)
    BY <1>8, SameLines
  <2>2. Return
    BY <1>3, <1>8, <2>1 DEF Catch, Waits
  <2>3. calls = <<>> /\ goals = {}
    BY <2>2 DEF Return
  <2>4. op.name \in Name
    BY <1>3, <1>8, <2>1 DEF EventsType, Waits
  <2>5. QED
    BY <1>3, <1>8, <2>1, <2>3, <2>4, CallCount DEF Waits
<1>9. CASE op' = op /\ abandoned' = abandoned \cup op.nodes
  BY <1>2, <1>9
<1>10. CASE UNCHANGED <<pc, op, todo, calls, goals, abandoned>>
  <2>1. x \in Lines(m, v) \/ x.by = 0 \/ Command \/ \E c \in Calls : Call(c)
    BY Frame
  <2>2. x \in Lines(m, v)
    BY <1>2, <1>4, <1>6, <1>10, <2>1, CommandLines
  <2>3. QED
    BY <1>3, <1>10, <2>2 DEF Waits
<1>11. QED
  BY <1>4, <1>5, <1>6, <1>7, <1>8, <1>9, <1>10, Bystander

\* Every step keeps that the first call drops the lines left over.
LEMMA PassedOverStep ==
    ASSUME EventsType, CallsMade, LineOrder, WhoseLines, LeftOver, PassedOver,
           [Next]_vars
    PROVE  PassedOver'
<1> SUFFICES ASSUME pc' = "busy", op'.name = "up_unconnected",
                    NEW m \in (op.nodes \ abandoned)', NEW v \in op'.vols
             PROVE  \/ calls' = Awaited["up_unconnected"]
                    \/ calls' # <<>> /\ \E g \in goals' :
                                            g.node = m /\ g.vol = v
                    \/ \A x \in Lines(m, v)' : ~Stale(x)'
  BY DEF PassedOver
<1> DEFINE Passed == \A x \in Lines(m, v)' : ~Stale(x)'
<1>0. /\ op' \in [name : Name \cup {"none"}, nodes : SUBSET Node,
                  vols : SUBSET Volume, id : Nat]
      /\ m \in Node /\ v \in Volume
  BY EventsTypeStep DEF EventsType
<1>1. m \in Node /\ m \notin abandoned
  BY <1>0, Frame
<1>2. ASSUME op' = op, pc = "busy"
      PROVE  \/ calls = Awaited["up_unconnected"]
             \/ calls # <<>> /\ \E g \in goals : g.node = m /\ g.vol = v
             \/ \A x \in Lines(m, v) : ~Stale(x)
  BY <1>1, <1>2 DEF PassedOver
<1>3. ASSUME op' = op, \A x \in Lines(m, v) : ~Stale(x),
             \A x \in Lines(m, v)' : x \in Lines(m, v) \/ x.by \in {0, op.id}
      PROVE  Passed
  BY <1>3 DEF Stale
<1> HIDE DEF Passed
<1>4. CASE Command
  <2>1. UNCHANGED <<pc, op, calls, goals>> /\ pc = "busy"
    BY <1>4 DEF Command
  <2>2. \A x \in Lines(m, v)' : x \in Lines(m, v) \/ x.by \in {0, op.id}
    BY <1>0, <1>4, CommandLines DEF NewLines
  <2>3. QED
    BY <1>2, <1>3, <2>1, <2>2 DEF Passed
<1>5. CASE NextCall
  <2>1. /\ pc = "busy" /\ op' = op /\ goals = {}
        /\ goals' = GoalsOf(op, Head(calls))
        /\ calls # <<>> /\ calls' = Tail(calls)
        /\ UNCHANGED <<unread, coming>>
    BY <1>5, NextCallEffect
  <2>2. CASE calls = Awaited["up_unconnected"]
    <3>1. calls' # <<>>
      BY <2>1, <2>2, AwaitedOf, TwoCalls
    <3>2. [node |-> m, vol |-> v, kinds |-> Head(calls)] \in goals'
      BY <2>1, GoalsOfAll
    <3>3. QED
      BY <3>1, <3>2
  <2>3. CASE calls # Awaited["up_unconnected"]
    <3>1. \A x \in Lines(m, v) : ~Stale(x)
      BY <1>2, <2>1, <2>3
    <3>2. Lines(m, v)' = Lines(m, v)
      BY <2>1, SameLines
    <3>3. QED
      BY <1>3, <2>1, <3>1, <3>2 DEF Passed
  <2>4. QED
    BY <2>2, <2>3
<1>6. ASSUME NEW c \in Calls, Call(c) PROVE calls' = Awaited["up_unconnected"]
  <2>1. /\ op'.name = c.name
        /\ \/ calls' = Awaited[c.name]
           \/ calls' = <<>> /\ op'.nodes \subseteq abandoned'
    BY <1>6, BeginEffect
  <2>2. QED
    BY <2>1
<1>7. ASSUME NEW n \in Node, Take(n), pc' = pc
      PROVE  \/ calls' = Awaited["up_unconnected"]
             \/ calls' # <<>> /\ \E g \in goals' : g.node = m /\ g.vol = v
             \/ Passed
  <2> DEFINE h == Head(unread[n])
  <2>1. /\ pc = "busy" /\ op' = op /\ calls' = calls
        /\ goals' = {g \in goals : g.node = n => ~Matches(h, g)}
    BY <1>7, TakeEffect
  <2>2. /\ \A x \in Lines(m, v)' : x \in Lines(m, v)
        /\ m = n => \A x \in Lines(m, v)' : Behind(h, x, op)
        /\ \A x \in Lines(m, v) : x.vol = v
    BY <1>0, <1>7, TakeLines, LinesOf
  <2>3. ASSUME calls # <<>>, NEW g \in goals, g.node = m, g.vol = v,
               m = n, Matches(h, g)
        PROVE  Passed
    <3>1. g.kinds = {"Attaching"}
      BY <2>1, <2>3 DEF CallsMade
    <3>2. h.kind = "Attaching" /\ h.vol = v
      BY <2>3, <3>1 DEF Matches
    <3>3. "Attaching" \notin Pattern /\ "Attaching" \notin Settled
      BY DEF Pattern, InitialPatterns, WhenConnected, Settled
    <3>4. Own(h)
      BY <1>1, <1>7, <2>3, <3>2, <3>3, OwnHead
    <3>5. \A x \in Lines(m, v)' : x.by \in {0, op.id}
      BY <2>2, <2>3, <3>2, <3>4 DEF Behind, Own
    <3>6. QED
      BY <2>1, <3>5 DEF Passed, Stale
  <2>4. QED
    BY <1>2, <1>3, <2>1, <2>2, <2>3
<1>8. CASE UNCHANGED <<pc, op, todo, calls, goals, abandoned>>
  <2>1. \/ Command \/ \E c \in Calls : Call(c)
        \/ \A x \in Lines(m, v)' : x \in Lines(m, v) \/ x.by \in {0, op.id}
    BY <1>0, Frame
  <2>2. QED
    BY <1>2, <1>3, <1>4, <1>6, <1>8, <2>1 DEF Passed
<1>9. QED
  BY <1>4, <1>5, <1>6, <1>7, <1>8, Bystander DEF Passed

-----------------------------------------------------------------------------
(* What is waited for is there.                                            *)

\* A command answers each of the calls that follow it.
LEMMA Answered ==
    ASSUME NEW K \in ToSet(Awaited[op.name]), NEW g \in GoalsOf(op, K)
    PROVE  g.kinds \in Needs(op.name)
<1>1. CASE op.name = "primary_force"
  <2>1. K = {"Primary", "UpToDate"}
    BY <1>1, AwaitedOf DEF ToSet
  <2>2. g.kinds \in {{"Primary"}, {"UpToDate"}}
    BY <1>1, <2>1 DEF GoalsOf
  <2>3. QED
    BY <1>1, <2>2 DEF Needs
<1>2. CASE op.name # "primary_force"
  BY <1>2 DEF GoalsOf, Needs
<1>3. QED
  BY <1>1, <1>2

\* A call waits for nodes and volumes of its operation only.
LEMMA GoalOf ==
    ASSUME EventsType, NEW K, NEW g \in GoalsOf(op, K)
    PROVE  g.node \in op.nodes /\ g.vol \in op.vols
           /\ g.node \in Node /\ g.vol \in Volume
<1>1. g.node \in op.nodes /\ g.vol \in op.vols
  BY DEF GoalsOf
<1>2. QED
  BY <1>1 DEF EventsType

\* The calls left after the next one were left before it.
LEMMA CallsLeft ==
    ASSUME NEW a, NEW b, NEW K,
           NEW s, s = <<a, b>> \/ s = <<b>>, K \in ToSet(Tail(s))
    PROVE  K \in ToSet(s)
<1>1. CASE s = <<a, b>>
  <2>1. Tail(s) = <<b>> /\ ToSet(<<b>>) = {b} /\ b \in ToSet(s)
    BY <1>1, TwoCalls DEF ToSet
  <2>2. QED
    BY <2>1
<1>2. CASE s = <<b>>
  <2>1. Tail(s) = <<>> /\ ToSet(<<>>) = {}
    BY <1>2, TwoCalls DEF ToSet
  <2>2. QED
    BY <2>1
<1>3. QED
  BY <1>1, <1>2

\* Every step keeps that what is waited for is still to come.
LEMMA ToBeSeenStep ==
    ASSUME EventsType, CallsMade, LineOrder, WhoseLines, LeftOver, ToBeSeen,
           [Next]_vars
    PROVE  ToBeSeen'
<1> SUFFICES ASSUME pc' = "busy", Simple'
             PROVE  /\ \A g \in goals' : Available(g)'
                    /\ \A K \in ToSet(calls') : \A g \in GoalsOf(op', K) :
                            g.node \notin todo' => Available(g)'
  BY DEF ToBeSeen, GoalsOf
<1> DEFINE Seen == /\ \A g \in goals' : Available(g)'
                   /\ \A K \in ToSet(calls') : \A g \in GoalsOf(op', K) :
                            g.node \notin todo' => Available(g)'
<1>1. ASSUME op' = op, pc = "busy"
      PROVE  /\ Simple
             /\ \A g \in goals : Available(g)
             /\ \A K \in ToSet(calls) : \A g \in GoalsOf(op, K) :
                        g.node \notin todo => Available(g)
  BY <1>1 DEF ToBeSeen, Simple
<1>2. ASSUME op' = op, NEW g, Available(g), g.node \in Node, g.vol \in Volume,
             Lines(g.node, g.vol) \subseteq Lines(g.node, g.vol)'
      PROVE  Available(g)'
  BY <1>2 DEF Available, Own
<1>3. \A g \in goals : g.node \in Node /\ g.vol \in Volume
  BY DEF EventsType
<1>4. CASE Command
  <2>1. UNCHANGED <<pc, op, calls, goals>> /\ pc = "busy" /\ op.name \in Name
        /\ op.id > 0 /\ op.id \in Nat /\ todo # {}
    BY <1>4 DEF Command, EventsType
  <2>2. PICK n \in todo :
            /\ n \in Node /\ todo' = todo \ {n}
            /\ \A m \in Node, v \in Volume : NewLines(n, m, v)
    BY <1>4, CommandLines
  <2>3. \A g \in goals' : Available(g)'
    BY <1>1, <1>2, <1>3, <2>1, <2>2 DEF NewLines
  <2>4. ASSUME NEW K \in ToSet(calls), NEW g \in GoalsOf(op, K),
               g.node \notin todo'
        PROVE  Available(g)'
    <3>1. g.node \in Node /\ g.vol \in Volume /\ g.vol \in op.vols
      BY GoalOf
    <3>2. CASE g.node \notin todo
      BY <1>1, <1>2, <2>1, <2>2, <3>1, <3>2 DEF NewLines
    <3>3. CASE g.node \in todo
      <4>1. g.node = n
        BY <2>2, <2>4, <3>3
      <4>2. calls = Awaited[op.name]
        <5>1. calls # <<>>
          BY <2>4 DEF ToSet
        <5>2. QED
          BY <2>1, <5>1 DEF CallsMade
      <4>3. g.kinds \in Needs(op.name)
        BY <2>4, <4>2, Answered
      <4>4. PICK x \in Lines(g.node, g.vol)' :
                x.by = op.id /\ x.kind \in g.kinds
        BY <2>2, <3>1, <4>1, <4>3 DEF NewLines
      <4>5. QED
        BY <2>1, <4>4 DEF Available, Own
    <3>4. QED
      BY <3>2, <3>3
  <2>5. QED
    BY <2>1, <2>3, <2>4
<1>5. CASE NextCall
  <2>1. /\ pc = "busy" /\ op' = op /\ todo = {} /\ todo' = {}
        /\ op.name \in Name
        /\ goals' = GoalsOf(op, Head(calls))
        /\ calls # <<>> /\ calls' = Tail(calls)
        /\ UNCHANGED <<unread, coming>>
        /\ \/ calls = Awaited[op.name]
           \/ op.name \in {"detach", "up_unconnected"}
    BY <1>5, NextCallEffect
  <2>2. \A n, v : Lines(n, v)' = Lines(n, v)
    BY <2>1, SameLines
  <2>3. \E a, b : calls = <<a, b>> \/ calls = <<b>>
    <3>1. CASE op.name \in OneKind
      <4>1. PICK k : Awaited[op.name] = <<{k}>>
        BY <3>1, AwaitedOf
      <4>2. QED
        BY <2>1, <3>1, <4>1 DEF OneKind
    <3>2. CASE op.name \in {"detach", "up_unconnected", "primary_force"}
      <4>1. \/ calls = Awaited[op.name] \/ calls = <<{"Diskless"}>>
            \/ calls = <<Settled \cup {"disk:Failed"}>>
        BY <2>1 DEF CallsMade
      <4>2. \E a, b : Awaited[op.name] = <<a, b>> \/ Awaited[op.name] = <<b>>
        BY <3>2, AwaitedOf
      <4>3. QED
        BY <4>1, <4>2
    <3>3. QED
      BY <2>1, <3>1, <3>2 DEF OneKind
  <2>4. Head(calls) \in ToSet(calls)
    BY <2>3 DEF ToSet
  <2>5. \A K \in ToSet(calls') : K \in ToSet(calls)
    BY <2>1, <2>3, CallsLeft
  <2>6. ASSUME NEW K \in ToSet(calls), NEW g \in GoalsOf(op, K)
        PROVE  Available(g)'
    <3>1. Available(g) /\ g.node \in Node /\ g.vol \in Volume
      BY <1>1, <2>1, GoalOf
    <3>2. QED
      BY <1>2, <2>1, <2>2, <3>1
  <2>7. QED
    BY <2>1, <2>4, <2>5, <2>6
<1>6. ASSUME NEW c \in Calls, Call(c) PROVE Seen
  <2>1. goals' = {} /\ todo' = op'.nodes
    BY <1>6, BeginEffect
  <2>2. \A K : \A g \in GoalsOf(op', K) : g.node \in op'.nodes
    BY DEF GoalsOf
  <2>3. QED
    BY <2>1, <2>2
<1>7. ASSUME NEW n \in Node, Take(n), pc' = pc PROVE Seen
  <2> DEFINE h == Head(unread[n])
  <2>1. /\ pc = "busy" /\ op' = op /\ calls' = calls /\ todo' = todo
        /\ goals' = {g \in goals : g.node = n => ~Matches(h, g)}
        /\ op.name \in Name
    BY <1>7, TakeEffect DEF EventsType
  <2>2. /\ \A m \in Node, v \in Volume : \A x \in Lines(m, v) :
                x \in Lines(m, v)' \/ (m = n /\ x = h)
        /\ \A v \in Volume : \A x \in Lines(n, v)' : Behind(h, x, op)
    BY <1>7, TakeLines
  <2>3. \A m \in Node, v \in Volume : \A x \in Lines(m, v) : x.vol = v
    BY LinesOf
  <2>4. ASSUME NEW g \in goals' PROVE Available(g)'
    <3>1. g \in goals /\ (g.node = n => ~Matches(h, g))
      BY <2>1
    <3>2. PICK x \in Lines(g.node, g.vol) : Own(x) /\ x.kind \in g.kinds
      BY <1>1, <2>1, <3>1 DEF Available
    <3>3. ~(g.node = n /\ x = h)
      BY <1>3, <2>3, <3>1, <3>2 DEF Matches
    <3>4. x \in Lines(g.node, g.vol)'
      BY <1>3, <2>2, <3>1, <3>2, <3>3
    <3>5. QED
      BY <2>1, <3>2, <3>4 DEF Available, Own
  <2>5. ASSUME NEW K \in ToSet(calls), NEW f \in GoalsOf(op, K),
               f.node \notin todo
        PROVE  Available(f)'
    <3>1. PICK x \in Lines(f.node, f.vol) : Own(x) /\ x.kind \in f.kinds
      BY <1>1, <2>1, <2>5 DEF Available
    <3>2. /\ f.node \in Node /\ f.vol \in Volume
          /\ f.node \in op.nodes /\ f.vol \in op.vols
      BY GoalOf
    <3>3. x.kind \in KindsOf(op.name, f.node)
      BY <3>1, <3>2 DEF WhoseLines
    <3>4. CASE f.node = n /\ x = h
      <4>1. PICK g \in goals : g.node = n
        BY <1>7, TakeEffect
      <4>2. calls # <<>> /\ calls # Awaited[op.name]
        BY <2>1, <2>5, <4>1 DEF CallsMade, ToSet
      <4>3. \/ /\ op.name = "detach" /\ calls = <<{"Diskless"}>>
               /\ g.kinds = {"disk:Failed", "Detaching"}
            \/ /\ op.name = "up_unconnected"
               /\ calls = <<Settled \cup {"disk:Failed"}>>
               /\ g.kinds = {"Attaching"}
        BY <2>1, <4>1, <4>2 DEF CallsMade
      <4>4. h.kind \in Final(op.name) /\ h.kind \notin g.kinds
        <5>1. f.kinds = K
          BY <2>5, <4>3 DEF GoalsOf
        <5>2. CASE op.name = "detach"
          <6>1. K = {"Diskless"}
            BY <2>5, <4>3, <5>2 DEF ToSet
          <6>2. QED
            BY <3>1, <3>4, <4>3, <5>1, <5>2, <6>1 DEF Final
        <5>3. CASE op.name = "up_unconnected"
          <6>1. K = Settled \cup {"disk:Failed"}
            BY <2>5, <4>3, <5>3 DEF ToSet
          <6>2. x.kind \in {"Attaching"} \cup Settled
            BY <3>3, <5>3 DEF KindsOf
          <6>3. x.kind \in Settled /\ "Attaching" \notin Settled
            BY <3>1, <5>1, <6>1, <6>2 DEF Settled
          <6>4. QED
            BY <3>4, <4>3, <5>3, <6>3 DEF Final
        <5>4. QED
          BY <4>3, <5>2, <5>3
      <4>5. g.vol = f.vol
        <5>1. Len(Awaited[op.name]) = 2
          BY <2>1, <4>3, CallCount
        <5>2. PICK v : op.vols = {v}
          BY <1>1, <2>1, <5>1 DEF Simple
        <5>3. g.vol \in op.vols
          BY <4>1 DEF EventsType
        <5>4. QED
          BY <3>2, <5>2, <5>3
      <4>6. PICK y \in Lines(n, f.vol) : Own(y) /\ y.kind \in g.kinds
        BY <1>1, <2>1, <4>1, <4>5 DEF Available
      <4>7. y \in Lines(n, f.vol)'
        BY <2>2, <3>2, <4>4, <4>6
      <4>8. Behind(h, y, op) /\ h.vol = y.vol
        BY <2>2, <2>3, <3>1, <3>2, <3>4, <4>6, <4>7
      <4>9. QED
        BY <3>1, <3>4, <4>4, <4>6, <4>8 DEF Behind, Own
    <3>5. CASE ~(f.node = n /\ x = h)
      <4>1. x \in Lines(f.node, f.vol)'
        BY <2>2, <3>1, <3>2, <3>5
      <4>2. QED
        BY <2>1, <3>1, <4>1 DEF Available, Own
    <3>6. QED
      BY <3>4, <3>5
  <2>6. QED
    BY <2>1, <2>4, <2>5
<1>8. ASSUME UNCHANGED <<pc, op, todo, calls, goals>>,
             \A m \in Node, v \in Volume : Lines(m, v) \subseteq Lines(m, v)'
      PROVE  Seen
  <2>1. \A g \in goals : Available(g)'
    BY <1>1, <1>2, <1>3, <1>8
  <2>2. ASSUME NEW K \in ToSet(calls), NEW g \in GoalsOf(op, K),
               g.node \notin todo
        PROVE  Available(g)'
    <3>1. Available(g) /\ g.node \in Node /\ g.vol \in Volume
      BY <1>1, <1>8, <2>2, GoalOf
    <3>2. QED
      BY <1>2, <1>8, <3>1
  <2>3. QED
    BY <1>8, <2>1, <2>2
<1>9. ASSUME NEW u \in Node \X Volume, Write(u) PROVE Seen
  <2>1. UNCHANGED <<pc, op, todo, calls, goals>>
    BY <1>9 DEF Write, control
  <2>2. QED
    BY <1>8, <1>9, <2>1, WriteLines
<1>10. ASSUME NEW n \in Node, NEW p \in Pattern, Fault(n, p) PROVE Seen
  <2>1. UNCHANGED <<pc, op, todo, calls, goals>>
    BY <1>10 DEF Fault, control
  <2>2. QED
    BY <1>8, <1>10, <2>1, FaultLines
<1>11. CASE Quiet
  <2>1. UNCHANGED <<pc, op, todo, calls, goals, unread, coming>>
    BY <1>11 DEF Quiet, control
  <2>2. QED
    BY <1>8, <2>1, SameLines
<1>12. ASSUME NEW p \in Pattern, Forbid(p) \/ Allow(p) PROVE Quiet
  BY <1>12 DEF Forbid, Allow, Quiet
<1>13. UNCHANGED vars => Quiet
  BY DEF vars, Quiet, history
<1>14. ~Return /\ ~Raise /\ ~Catch
  BY DEF Return, Raise, Unwind, Catch
<1>15. ASSUME NEW n \in Node, Take(n) PROVE pc' = pc
  BY <1>15, TakeEffect
<1>16. QED
  BY <1>4, <1>5, <1>6, <1>7, <1>9, <1>10, <1>11, <1>12, <1>13, <1>14, <1>15
     DEF Next

-----------------------------------------------------------------------------
(* The theorems.                                                           *)

EventsInv ==
    /\ EventsType /\ CallsMade
    /\ WhoseLines /\ LineOrder
    /\ LeftOver /\ WaitedFor /\ PassedOver
    /\ ToBeSeen

\* The invariant holds when nothing was called yet.
LEMMA EventsInvInit == Init => EventsInv
<1> SUFFICES ASSUME Init PROVE EventsInv
  OBVIOUS
<1>1. EventsType
  BY EventsTypeInit
<1>2. pc = "idle" /\ calls = <<>> /\ goals = {}
  BY DEF Init
<1>3. ASSUME NEW n \in Node, NEW v \in Volume
      PROVE  /\ Lines(n, v) = {}
             /\ Ordered(unread[n], op) /\ Ordered(coming[<<n, v>>], op)
             /\ InOrder(unread[n], coming[<<n, v>>], op)
  <2>1. unread[n] = <<>> /\ coming[<<n, v>>] = <<>>
    BY DEF Init
  <2>2. ToSet(<<>>) = {} /\ DOMAIN <<>> = {}
    BY DEF ToSet
  <2>3. QED
    BY <2>1, <2>2 DEF Lines, Ordered, InOrder
<1>4. PICK w : w \in Volume
  BY EventsAssumption
<1>5. LineOrder
  BY <1>3, <1>4 DEF LineOrder
<1>6. WhoseLines /\ LeftOver /\ WaitedFor
  BY <1>3 DEF WhoseLines, LeftOver, WaitedFor
<1>7. CallsMade /\ PassedOver /\ ToBeSeen
  BY <1>2 DEF CallsMade, PassedOver, ToBeSeen
<1>8. QED
  BY <1>1, <1>5, <1>6, <1>7 DEF EventsInv

\* Every step keeps the invariant.
LEMMA EventsInvStep == EventsInv /\ [Next]_vars => EventsInv'
<1> SUFFICES ASSUME EventsInv, [Next]_vars PROVE EventsInv'
  OBVIOUS
<1>1. /\ EventsType /\ CallsMade /\ WhoseLines /\ LineOrder /\ LeftOver
      /\ WaitedFor /\ PassedOver /\ ToBeSeen
  BY DEF EventsInv
<1>2. EventsType' /\ CallsMade' /\ WhoseLines' /\ LineOrder' /\ LeftOver'
  BY <1>1, EventsTypeStep, CallsMadeStep, WhoseLinesStep, LineOrderStep,
     LeftOverStep
<1>3. WaitedFor'
  BY <1>1, <1>2, WaitedForStep
<1>4. PassedOver' /\ ToBeSeen'
  BY <1>1, PassedOverStep, ToBeSeenStep
<1>5. QED
  BY <1>2, <1>3, <1>4 DEF EventsInv

\* StillToCome for every set of nodes, volumes and calls and any number of
\* operations and failures: what event() waits for was not taken before
\* (Nodes.event, Volumes.event, Connections.event, PeerDevices.event).
THEOREM AlwaysStillToCome == Spec => []StillToCome
<1>1. EventsInv => StillToCome
  <2> SUFFICES ASSUME EventsInv, pc = "busy", NEW g \in goals,
                      ~(Len(Awaited[op.name]) > 1 /\ Cardinality(op.vols) > 1)
               PROVE  \E line \in ToSet(unread[g.node]
                                        \o coming[<<g.node, g.vol>>]) :
                            Matches(line, g)
    BY DEF StillToCome
  <2>1. /\ g.node \in Node /\ g.vol \in op.vols /\ g.vol \in Volume
        /\ op.name \in Name /\ op.vols \subseteq Volume
    BY DEF EventsInv, EventsType
  <2>2. Simple
    <3>1. CASE Cardinality(op.vols) > 1
      <4>1. Len(Awaited[op.name]) \in {1, 2}
        BY <2>1, CallCount
      <4>2. QED
        <5>1. ~(Len(Awaited[op.name]) > 1)
          BY <3>1
        <5>2. QED
          BY <4>1, <5>1 DEF Simple
    <3>2. CASE ~(Cardinality(op.vols) > 1)
      <4>1. IsFiniteSet(op.vols)
        BY <2>1, EventsAssumption, FS_Subset
      <4>2. Cardinality(op.vols) \in Nat /\ Cardinality(op.vols) # 0
        BY <2>1, <4>1, FS_CardinalityType, FS_EmptySet
      <4>3. Cardinality(op.vols) = 1
        BY <3>2, <4>2
      <4>4. QED
        BY <4>1, <4>3, FS_Singleton DEF Simple
    <3>3. QED
      BY <3>1, <3>2
  <2>3. Available(g)
    BY <2>2 DEF EventsInv, ToBeSeen
  <2>4. PICK x \in Lines(g.node, g.vol) : x.kind \in g.kinds
    BY <2>3 DEF Available
  <2>5. Matches(x, g)
    BY <2>4 DEF Matches, Lines
  <2>6. x \in ToSet(unread[g.node] \o coming[<<g.node, g.vol>>])
    <3>1. /\ unread[g.node] \in Seq(Line)
          /\ coming[<<g.node, g.vol>>] \in Seq(Line)
      BY <2>1, LinesOf DEF EventsInv
    <3>2. QED
      BY <2>4, <3>1, ConcatMembers DEF Lines
  <2>7. QED
    BY <2>5, <2>6
<1>2. QED
  BY <1>1, EventsInvInit, EventsInvStep, PTL DEF Spec

\* OwnEvent for every set of nodes, volumes and calls and any number of
\* operations and failures: what ends the wait on a node is a line of the
\* operation itself, but for the UpToDate of primary(force=True), which may be
\* one that attach() has left (event() of the collections).
THEOREM AlwaysOwnEvent == Spec => OwnEvent
<1>1. EventsInv /\ [Next]_vars =>
        [\A n \in Node \ abandoned :
            (pc' # "raised" /\ goals' # goals
             /\ Len(unread'[n]) < Len(unread[n]))
            => \/ Head(unread[n]).by \in {op.id, 0}
               \/ op.name = "primary_force"
                  /\ Head(unread[n]).kind = "UpToDate"]_vars
  <2> SUFFICES ASSUME EventsInv, Next, NEW n \in Node \ abandoned,
                      pc' # "raised", goals' # goals,
                      Len(unread'[n]) < Len(unread[n]),
                      ~(/\ op.name = "primary_force"
                        /\ Head(unread[n]).kind = "UpToDate")
               PROVE  Head(unread[n]).by \in {op.id, 0}
    OBVIOUS
  <2> DEFINE h == Head(unread[n])
  <2>1. /\ EventsType /\ CallsMade /\ WhoseLines /\ LineOrder /\ LeftOver
        /\ PassedOver
    BY DEF EventsInv
  <2>2. Take(n)
    BY <2>1, OnlyTaken
  <2>3. pc = "busy" /\ goals' = {g \in goals : g.node = n => ~Matches(h, g)}
    BY <2>2, TakeEffect
  <2>4. PICK g \in goals : g.node = n /\ Matches(h, g)
    BY <2>3
  <2>5. h \in Lines(n, g.vol) /\ g.vol \in Volume /\ h.kind \in g.kinds
    BY <2>1, <2>2, <2>4, TakeLines DEF Matches, Line
  <2>6. n \in op.nodes /\ g.vol \in op.vols
    BY <2>1, <2>4 DEF EventsType
  <2>7. ~Stale(h)
    <3>1. CASE g.kinds = {"disk:Failed", "Detaching"}
      BY <2>1, <2>5, <3>1 DEF LeftOver, Settled
    <3>2. CASE op.name = "up_unconnected" /\ calls = <<>>
      <4>1. calls # Awaited["up_unconnected"]
        BY <3>2, AwaitedOf, TwoCalls
      <4>2. QED
        BY <2>1, <2>3, <2>5, <2>6, <3>2, <4>1 DEF PassedOver
    <3>3. CASE \E k : g.kinds = {k} /\ k \notin Settled
      BY <2>1, <2>5, <3>3 DEF LeftOver
    <3>4. QED
      BY <2>1, <2>3, <2>5, <3>1, <3>2, <3>3, GoalKinds
  <2>8. QED
    BY <2>7 DEF Stale
<1>2. QED
  BY <1>1, EventsInvInit, EventsInvStep, PTL DEF Spec, OwnEvent
=============================================================================
