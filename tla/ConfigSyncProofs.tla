-------------------------- MODULE ConfigSyncProofs --------------------------
(***************************************************************************)
(* ConfigSync for every number of nodes, names, options and changes: the   *)
(* types, the freshness the flags guarantee, and the minor numbers.        *)
(***************************************************************************)
EXTENDS ConfigSync, TLAPS

\* No volume has a minor number beyond its host's counter.
MinorsBounded ==
    \A n \in Node : \A i \in DOMAIN disks[n] : disks[n][i].minor <= minors[n]

IInv ==
    /\ TypeOK
    /\ FreshUnlessOwed
    /\ OnlyHostsStale
    /\ MinorsDistinct
    /\ MinorsBounded

-----------------------------------------------------------------------------
(* Volumes and minor numbers.                                              *)

\* What Node.add_disk() makes of a list of volumes: one entry with a minor of
\* its own, the others as they were.
LEMMA WithDiskEntries ==
    ASSUME TypeOK, MinorsDistinct, MinorsBounded,
           NEW n \in Node, NEW v \in Nat, NEW d \in BOOLEAN
    PROVE  LET w == WithDisk(n, v, d)
               m == IF IsNew(n, v) THEN minors[n] + 1 ELSE minors[n]
           IN  /\ w \in Seq(Volume)
               /\ m \in Nat
               /\ \A i \in DOMAIN w : w[i].minor <= m
               /\ \A i, j \in DOMAIN w : w[i].minor = w[j].minor => i = j
<1> DEFINE w == WithDisk(n, v, d)
           e == [volume |-> v, minor |-> MinorFor(n, v), diskful |-> d,
                 tiebreaker |-> "default"]
<1>1. disks[n] \in Seq(Volume) /\ minors[n] \in Nat
  BY DEF TypeOK
<1>2. \A i \in DOMAIN disks[n] :
         disks[n][i].minor \in Nat /\ disks[n][i].minor <= minors[n]
  <2> SUFFICES ASSUME NEW i \in DOMAIN disks[n]
               PROVE  /\ disks[n][i].minor \in Nat
                      /\ disks[n][i].minor <= minors[n]
    OBVIOUS
  <2>1. disks[n][i] \in Volume
    BY <1>1
  <2>2. QED
    BY <2>1 DEF MinorsBounded, Volume
<1>3. \A i, j \in DOMAIN disks[n] :
         disks[n][i].minor = disks[n][j].minor => i = j
  BY DEF MinorsDistinct
<1>4. CASE IsNew(n, v)
  <2>1. MinorFor(n, v) = minors[n] + 1
    BY <1>4 DEF MinorFor
  <2>2. e \in Volume /\ e.minor = minors[n] + 1
    BY <1>1, <2>1 DEF Volume, Tiebreaker
  <2>3. w = Append(disks[n], e)
    BY <1>4 DEF WithDisk
  <2> HIDE DEF e, w
  <2>4. /\ w \in Seq(Volume)
        /\ DOMAIN w = DOMAIN disks[n] \cup {Len(disks[n]) + 1}
        /\ \A i \in DOMAIN disks[n] : w[i] = disks[n][i]
        /\ w[Len(disks[n]) + 1] = e
    BY <1>1, <2>2, <2>3
  <2>5. \A i \in DOMAIN w : w[i].minor <= minors[n] + 1
    BY <1>1, <1>2, <2>2, <2>4
  <2>6. \A i, j \in DOMAIN w : w[i].minor = w[j].minor => i = j
    BY <1>1, <1>2, <1>3, <2>2, <2>4
  <2>7. QED
    BY <1>1, <1>4, <2>4, <2>5, <2>6 DEF w
<1>5. CASE ~IsNew(n, v)
  <2>1. v + 1 \in DOMAIN disks[n]
    BY <1>1, <1>5 DEF IsNew
  <2>2. MinorFor(n, v) = disks[n][v + 1].minor
    BY <1>5 DEF MinorFor
  <2>3. e \in Volume /\ e.minor = disks[n][v + 1].minor
    BY <1>2, <2>1, <2>2 DEF Volume, Tiebreaker
  <2>4. w = [disks[n] EXCEPT ![v + 1] = e]
    BY <1>5 DEF WithDisk
  <2> HIDE DEF e, w
  <2>5. /\ w \in Seq(Volume)
        /\ DOMAIN w = DOMAIN disks[n]
        /\ \A i \in DOMAIN disks[n] : w[i].minor = disks[n][i].minor
    BY <1>1, <2>1, <2>3, <2>4
  <2>6. QED
    BY <1>1, <1>2, <1>3, <1>5, <2>5 DEF w
<1>6. QED
  BY <1>4, <1>5

-----------------------------------------------------------------------------
(* Flags and files.                                                        *)

\* The text rendered for a node is a configuration text.
LEMMA ConfigType ==
    ASSUME TypeOK, NEW n \in Node
    PROVE  /\ Config(n) \in ConfigText
           /\ Config(n) \in [opts : {opts}, fencing : {fencing[n]},
                             version : {version[n]}, hosts : SUBSET Node,
                             volumes : [Node -> Seq(Volume)]]
BY DEF TypeOK, Config, ConfigText

\* An operation that writes no file keeps the guarantee if it accounts for
\* every member whose text it changes.
LEMMA TouchKeepsFresh ==
    ASSUME TypeOK, TypeOK', FreshUnlessOwed,
           NEW S \in SUBSET Node, NEW A \in SUBSET Node, Touch(S, A),
           files' = files, name' = name,
           \A n \in nodes' : n \in S \/ n \in A
                             \/ (n \in nodes /\ Config(n)' = Config(n))
    PROVE  FreshUnlessOwed'
<1> SUFFICES ASSUME NEW n \in nodes'
             PROVE  \/ config_changed'[n]
                    \/ n \in owed' \cup broken'
                    \/ files'[n][name'] = Config(n)'
  BY DEF FreshUnlessOwed
<1>0. n \in Node
  BY DEF TypeOK
<1>1. CASE n \in S
  BY <1>0, <1>1 DEF Touch
<1>2. CASE n \in A /\ n \notin S
  BY <1>2 DEF Touch
<1>3. CASE n \notin S /\ n \notin A
  <2>1. n \in nodes /\ Config(n)' = Config(n)
    BY <1>3
  <2>2. \/ config_changed[n]
        \/ n \in owed \cup broken
        \/ files[n][name] = Config(n)
    BY <2>1 DEF FreshUnlessOwed
  <2>3. config_changed[n] => config_changed'[n]
    BY <1>0 DEF Touch
  <2>4. n \in owed \cup broken => n \in owed' \cup broken'
    BY <1>3 DEF Touch
  <2>5. QED
    BY <2>1, <2>2, <2>3, <2>4
<1>4. QED
  BY <1>1, <1>2, <1>3

\* The same for the parts of a text that cannot become stale.
LEMMA TouchKeepsOwnPart ==
    ASSUME TypeOK, TypeOK', OnlyHostsStale,
           NEW S \in SUBSET Node, NEW A \in SUBSET Node, Touch(S, A),
           files' = files, name' = name,
           \A n \in nodes' : n \in S \/ ( /\ n \in nodes
                                          /\ opts' = opts
                                          /\ fencing'[n] = fencing[n]
                                          /\ version'[n] = version[n])
    PROVE  OnlyHostsStale'
<1> SUFFICES ASSUME NEW n \in nodes', n \notin broken', ~config_changed'[n]
             PROVE  files'[n][name'] \in
                       [opts : {opts'}, fencing : {fencing'[n]},
                        version : {version'[n]}, hosts : SUBSET Node,
                        volumes : [Node -> Seq(Volume)]]
  BY DEF OnlyHostsStale
<1>0. n \in Node
  BY DEF TypeOK
<1>1. n \notin S
  BY <1>0 DEF Touch
<1>2. n \in nodes \ broken /\ ~config_changed[n]
  BY <1>0, <1>1 DEF Touch
<1>3. QED
  BY <1>1, <1>2 DEF OnlyHostsStale

-----------------------------------------------------------------------------
(* The steps.                                                              *)

\* Every operation keeps the types.
LEMMA TypeStep == IInv /\ Next => TypeOK'
<1> SUFFICES ASSUME IInv, Next PROVE TypeOK'
  OBVIOUS
<1> USE ConfigAssumption DEF IInv
<1>1. ASSUME NEW o \in Option, SetOptions(o) PROVE TypeOK'
  BY <1>1 DEF TypeOK, SetOptions, Change, Touch
<1>2. ASSUME NEW n \in Node, NEW o \in Option, SetFencingMode(n, o)
      PROVE  TypeOK'
  BY <1>2 DEF TypeOK, SetFencingMode, Change, Touch
<1>3. ASSUME NEW n \in Node, NEW v \in Version, InstallDrbd(n, v)
      PROVE  TypeOK'
  BY <1>3 DEF TypeOK, InstallDrbd, Change, Touch
<1>4. CASE NextVolume
  BY <1>4 DEF TypeOK, NextVolume, Change, Touch
<1>5. ASSUME NEW n \in Node, NEW v \in 0..num_volumes, NEW d \in BOOLEAN,
             AddDisk(n, v, d)
      PROVE  TypeOK'
  <2>1. v \in Nat
    BY DEF TypeOK
  <2>2. WithDisk(n, v, d) \in Seq(Volume)
    BY <2>1, WithDiskEntries
  <2>3. QED
    BY <1>5, <2>2 DEF TypeOK, AddDisk, Change, Touch, Showing
<1>6. ASSUME NEW D \in SUBSET nodes, AddDiskToAll(D) PROVE TypeOK'
  <2>1. ASSUME NEW n \in Node
        PROVE  WithDisk(n, num_volumes, n \in D) \in Seq(Volume)
    <3> DEFINE d == n \in D
    <3>1. d \in BOOLEAN /\ num_volumes \in Nat
      BY DEF TypeOK
    <3> HIDE DEF d
    <3>2. WithDisk(n, num_volumes, d) \in Seq(Volume)
      BY <3>1, WithDiskEntries
    <3>3. QED
      BY <3>2 DEF d
  <2>2. disks' \in [Node -> Seq(Volume)] /\ minors' \in [Node -> Nat]
    BY <1>6, <2>1 DEF TypeOK, AddDiskToAll
  <2>3. QED
    BY <1>6, <2>2 DEF TypeOK, AddDiskToAll, Change, Touch
<1>7. ASSUME NEW n \in Node, NEW i \in DOMAIN disks[n], NEW t \in Tiebreaker,
             SetTiebreaker(n, i, t)
      PROVE  TypeOK'
  <2>1. disks[n] \in Seq(Volume) /\ disks[n][i] \in Volume
    BY DEF TypeOK
  <2>2. [disks[n][i] EXCEPT !.tiebreaker = t] \in Volume
    BY <2>1 DEF Volume
  <2>3. disks' \in [Node -> Seq(Volume)]
    BY <1>7, <2>1, <2>2 DEF TypeOK, SetTiebreaker
  <2>4. QED
    BY <1>7, <2>3 DEF TypeOK, SetTiebreaker, Change, Touch
<1>8. CASE RemoveStoragePool
  BY <1>8 DEF TypeOK, RemoveStoragePool, Change, Touch
<1>9. ASSUME NEW r \in Name, Rename(r) PROVE TypeOK'
  <2>1. \A n \in Node : Written(n) \in [Name -> ConfigText \cup {Absent, Torn}]
    BY ConfigType DEF TypeOK, Written
  <2>2. QED
    BY <1>9, <2>1 DEF TypeOK, Rename, Change, Touch
<1>10. CASE TouchConfig
  BY <1>10 DEF TypeOK, TouchConfig, Change, Touch, objects
<1>11. ASSUME NEW n \in Node, RemoveDisks(n) PROVE TypeOK'
  BY <1>11 DEF TypeOK, RemoveDisks, Change, Touch, Showing
<1>12. ASSUME NEW n \in Node, AddNode(n) PROVE TypeOK'
  BY <1>12 DEF TypeOK, AddNode, Change, Touch
<1>13. ASSUME NEW n \in Node, RemoveNode(n) PROVE TypeOK'
  BY <1>13 DEF TypeOK, RemoveNode, Change, Touch
<1>14. ASSUME NEW n \in Node, DropFromCollection(n) PROVE TypeOK'
  BY <1>14 DEF TypeOK, DropFromCollection, Change, Touch
<1>15. ASSUME NEW n \in Node, UpdateConfig(n) PROVE TypeOK'
  <2>1. Written(n) \in [Name -> ConfigText \cup {Absent, Torn}]
    BY ConfigType DEF TypeOK, Written
  <2>2. QED
    BY <1>15, <2>1 DEF TypeOK, UpdateConfig, objects
<1>16. ASSUME NEW n \in Node, UpdateConfigFails(n) PROVE TypeOK'
  <2>1. PICK f \in {files[n][name], Torn} :
            files' = [files EXCEPT ![n][name] = f]
    BY <1>16 DEF UpdateConfigFails
  <2>2. f \in ConfigText \cup {Absent, Torn}
    BY <2>1 DEF TypeOK
  <2>3. files' \in [Node -> [Name -> ConfigText \cup {Absent, Torn}]]
    BY <2>1, <2>2 DEF TypeOK
  <2>4. QED
    BY <1>16, <2>3 DEF TypeOK, UpdateConfigFails, objects
<1>17. QED
  BY <1>1, <1>2, <1>3, <1>4, <1>5, <1>6, <1>7, <1>8, <1>9, <1>10, <1>11,
     <1>12, <1>13, <1>14, <1>15, <1>16 DEF Next

\* Every operation that changes what a file shows sets the flag of the node or
\* owes it an update.
LEMMA FreshStep == IInv /\ Next => FreshUnlessOwed'
<1> SUFFICES ASSUME IInv, Next PROVE FreshUnlessOwed'
  OBVIOUS
<1>0. TypeOK /\ TypeOK' /\ FreshUnlessOwed /\ nodes \in SUBSET Node
      /\ nodes' \in SUBSET Node
  BY TypeStep DEF IInv, TypeOK
<1>1. ASSUME NEW o \in Option, SetOptions(o) PROVE FreshUnlessOwed'
  BY <1>0, <1>1, TouchKeepsFresh DEF SetOptions
<1>2. ASSUME NEW n \in Node, NEW o \in Option, SetFencingMode(n, o)
      PROVE  FreshUnlessOwed'
  <2>1. \A m \in nodes' : m = n \/ (m \in nodes /\ Config(m)' = Config(m))
    BY <1>0, <1>2 DEF SetFencingMode, Config, TypeOK
  <2>2. Touch({n}, {n}) /\ files' = files /\ name' = name
    BY <1>2 DEF SetFencingMode
  <2>3. QED
    BY <1>0, <2>1, <2>2, TouchKeepsFresh
<1>3. ASSUME NEW n \in Node, NEW v \in Version, InstallDrbd(n, v)
      PROVE  FreshUnlessOwed'
  BY <1>0, <1>3, TouchKeepsFresh DEF InstallDrbd
<1>4. CASE NextVolume
  <2>1. \A m \in nodes' : m \in nodes /\ Config(m)' = Config(m)
    BY <1>4 DEF NextVolume, Config
  <2>2. Touch({}, {}) /\ files' = files /\ name' = name
    BY <1>4 DEF NextVolume
  <2>3. QED
    BY <1>0, <2>1, <2>2, TouchKeepsFresh
<1>5. ASSUME NEW n \in Node, NEW v \in 0..num_volumes, NEW d \in BOOLEAN,
             AddDisk(n, v, d)
      PROVE  FreshUnlessOwed'
  <2>1. ASSUME n \notin nodes, NEW m \in nodes'
        PROVE  m \in nodes /\ Config(m)' = Config(m)
    <3>1. /\ UNCHANGED <<nodes, opts, fencing, version>>
          /\ disks' = [disks EXCEPT ![n] = WithDisk(n, v, d)]
          /\ disks \in [Node -> Seq(Volume)]
      BY <1>0, <1>5 DEF AddDisk, TypeOK
    <3>2. \A k \in nodes : k # n
      BY <2>1
    <3>3. [k \in Node |-> IF k \in nodes THEN disks'[k] ELSE <<>>]
            = [k \in Node |-> IF k \in nodes THEN disks[k] ELSE <<>>]
      BY <3>1, <3>2
    <3>4. QED
      BY <2>1, <3>1, <3>3 DEF Config
  <2>2. \A m \in nodes' : m \in Showing(n)
                           \/ (m \in nodes /\ Config(m)' = Config(m))
    BY <1>5, <2>1 DEF AddDisk, Showing
  <2>3. Touch({n}, Showing(n)) /\ files' = files /\ name' = name
    BY <1>5 DEF AddDisk
  <2>4. Showing(n) \in SUBSET Node
    BY <1>0 DEF Showing
  <2>5. QED
    BY <1>0, <2>2, <2>3, <2>4, TouchKeepsFresh
<1>6. ASSUME NEW D \in SUBSET nodes, AddDiskToAll(D) PROVE FreshUnlessOwed'
  BY <1>0, <1>6, TouchKeepsFresh DEF AddDiskToAll
<1>7. ASSUME NEW n \in Node, NEW i \in DOMAIN disks[n], NEW t \in Tiebreaker,
             SetTiebreaker(n, i, t)
      PROVE  FreshUnlessOwed'
  BY <1>0, <1>7, TouchKeepsFresh DEF SetTiebreaker
<1>8. CASE RemoveStoragePool
  BY <1>0, <1>8, TouchKeepsFresh DEF RemoveStoragePool
<1>9. ASSUME NEW r \in Name, Rename(r) PROVE FreshUnlessOwed'
  BY <1>0, <1>9 DEF Rename, Touch, FreshUnlessOwed
<1>10. CASE TouchConfig
  <2>1. Touch(nodes, {}) /\ files' = files /\ name' = name /\ nodes' = nodes
    BY <1>10 DEF TouchConfig, objects
  <2>2. QED
    BY <1>0, <2>1, TouchKeepsFresh
<1>11. ASSUME NEW n \in Node, RemoveDisks(n) PROVE FreshUnlessOwed'
  <2>1. ASSUME n \notin nodes, NEW m \in nodes'
        PROVE  m \in nodes /\ Config(m)' = Config(m)
    BY <1>0, <1>11, <2>1 DEF RemoveDisks, Config, TypeOK
  <2>2. \A m \in nodes' : m \in Showing(n)
                           \/ (m \in nodes /\ Config(m)' = Config(m))
    BY <1>11, <2>1 DEF RemoveDisks, Showing
  <2>3. Touch({}, Showing(n)) /\ files' = files /\ name' = name
    BY <1>11 DEF RemoveDisks
  <2>4. Showing(n) \in SUBSET Node
    BY <1>0 DEF Showing
  <2>5. QED
    BY <1>0, <2>2, <2>3, <2>4, TouchKeepsFresh
<1>12. ASSUME NEW n \in Node, AddNode(n) PROVE FreshUnlessOwed'
  BY <1>0, <1>12, TouchKeepsFresh DEF AddNode
<1>13. ASSUME NEW n \in Node, RemoveNode(n) PROVE FreshUnlessOwed'
  BY <1>0, <1>13, TouchKeepsFresh DEF RemoveNode
<1>14. ASSUME NEW n \in Node, DropFromCollection(n) PROVE FreshUnlessOwed'
  BY <1>0, <1>14, TouchKeepsFresh DEF DropFromCollection
<1>15. ASSUME NEW n \in Node, UpdateConfig(n) PROVE FreshUnlessOwed'
  <2>1. files'[n][name] = Config(n)
    BY <1>0, <1>15 DEF UpdateConfig, Written, TypeOK
  <2>2. \A m \in Node : Config(m)' = Config(m)
    BY <1>15 DEF UpdateConfig, objects, Config
  <2>3. \A m \in nodes \ {n} :
          /\ files'[m] = files[m] /\ config_changed'[m] = config_changed[m]
          /\ m \in owed \cup broken => m \in owed' \cup broken'
    BY <1>0, <1>15 DEF UpdateConfig, TypeOK
  <2>4. nodes' = nodes /\ name' = name
    BY <1>15 DEF UpdateConfig, objects
  <2>5. QED
    BY <1>0, <2>1, <2>2, <2>3, <2>4 DEF FreshUnlessOwed
<1>16. ASSUME NEW n \in Node, UpdateConfigFails(n) PROVE FreshUnlessOwed'
  <2>1. \A m \in Node : Config(m)' = Config(m)
    BY <1>16 DEF UpdateConfigFails, objects, Config
  <2>2. \A m \in nodes \ {n} :
          /\ files'[m] = files[m] /\ config_changed'[m] = config_changed[m]
          /\ m \in owed \cup broken => m \in owed' \cup broken'
    BY <1>0, <1>16 DEF UpdateConfigFails, TypeOK
  <2>3. nodes' = nodes /\ name' = name /\ n \in broken'
    BY <1>16 DEF UpdateConfigFails, objects
  <2>4. QED
    BY <1>0, <2>1, <2>2, <2>3 DEF FreshUnlessOwed
<1>17. QED
  BY <1>1, <1>2, <1>3, <1>4, <1>5, <1>6, <1>7, <1>8, <1>9, <1>10, <1>11,
     <1>12, <1>13, <1>14, <1>15, <1>16 DEF Next

\* No operation lets the options, the fencing mode, the version or the name of
\* a file go stale.
LEMMA OwnPartStep == IInv /\ Next => OnlyHostsStale'
<1> SUFFICES ASSUME IInv, Next PROVE OnlyHostsStale'
  OBVIOUS
<1>0. TypeOK /\ TypeOK' /\ OnlyHostsStale /\ nodes \in SUBSET Node
      /\ nodes' \in SUBSET Node
  BY TypeStep DEF IInv, TypeOK
<1>1. ASSUME NEW o \in Option, SetOptions(o) PROVE OnlyHostsStale'
  BY <1>0, <1>1, TouchKeepsOwnPart DEF SetOptions
<1>2. ASSUME NEW n \in Node, NEW o \in Option, SetFencingMode(n, o)
      PROVE  OnlyHostsStale'
  <2>1. \A m \in nodes' : m = n \/ fencing'[m] = fencing[m]
    BY <1>0, <1>2 DEF SetFencingMode, TypeOK
  <2>2. QED
    BY <1>0, <1>2, <2>1, TouchKeepsOwnPart DEF SetFencingMode
<1>3. ASSUME NEW n \in Node, NEW v \in Version, InstallDrbd(n, v)
      PROVE  OnlyHostsStale'
  BY <1>0, <1>3, TouchKeepsOwnPart DEF InstallDrbd
<1>4. CASE NextVolume
  BY <1>0, <1>4, TouchKeepsOwnPart DEF NextVolume
<1>5. ASSUME NEW n \in Node, NEW v \in 0..num_volumes, NEW d \in BOOLEAN,
             AddDisk(n, v, d)
      PROVE  OnlyHostsStale'
  <2>1. Showing(n) \in SUBSET Node
    BY <1>0 DEF Showing
  <2>2. QED
    BY <1>0, <1>5, <2>1, TouchKeepsOwnPart DEF AddDisk
<1>6. ASSUME NEW D \in SUBSET nodes, AddDiskToAll(D) PROVE OnlyHostsStale'
  BY <1>0, <1>6, TouchKeepsOwnPart DEF AddDiskToAll
<1>7. ASSUME NEW n \in Node, NEW i \in DOMAIN disks[n], NEW t \in Tiebreaker,
             SetTiebreaker(n, i, t)
      PROVE  OnlyHostsStale'
  BY <1>0, <1>7, TouchKeepsOwnPart DEF SetTiebreaker
<1>8. CASE RemoveStoragePool
  BY <1>0, <1>8, TouchKeepsOwnPart DEF RemoveStoragePool
<1>9. ASSUME NEW r \in Name, Rename(r) PROVE OnlyHostsStale'
  BY <1>0, <1>9 DEF Rename, Touch, OnlyHostsStale
<1>10. CASE TouchConfig
  BY <1>0, <1>10, TouchKeepsOwnPart DEF TouchConfig, objects
<1>11. ASSUME NEW n \in Node, RemoveDisks(n) PROVE OnlyHostsStale'
  <2>1. Showing(n) \in SUBSET Node
    BY <1>0 DEF Showing
  <2>2. QED
    BY <1>0, <1>11, <2>1, TouchKeepsOwnPart DEF RemoveDisks
<1>12. ASSUME NEW n \in Node, AddNode(n) PROVE OnlyHostsStale'
  BY <1>0, <1>12, TouchKeepsOwnPart DEF AddNode
<1>13. ASSUME NEW n \in Node, RemoveNode(n) PROVE OnlyHostsStale'
  BY <1>0, <1>13, TouchKeepsOwnPart DEF RemoveNode
<1>14. ASSUME NEW n \in Node, DropFromCollection(n) PROVE OnlyHostsStale'
  BY <1>0, <1>14, TouchKeepsOwnPart DEF DropFromCollection
<1>15. ASSUME NEW n \in Node, UpdateConfig(n) PROVE OnlyHostsStale'
  <2>1. files'[n][name] \in
            [opts : {opts}, fencing : {fencing[n]}, version : {version[n]},
             hosts : SUBSET Node, volumes : [Node -> Seq(Volume)]]
    <3>1. files'[n][name] = Config(n)
      BY <1>0, <1>15 DEF UpdateConfig, Written, TypeOK
    <3>2. QED
      BY <1>0, <3>1, ConfigType
  <2>2. \A m \in nodes \ {n} :
          /\ files'[m] = files[m] /\ config_changed'[m] = config_changed[m]
          /\ m \notin broken' => m \notin broken
    BY <1>0, <1>15 DEF UpdateConfig, TypeOK
  <2>3. /\ nodes' = nodes /\ name' = name /\ opts' = opts
        /\ fencing' = fencing /\ version' = version
    BY <1>15 DEF UpdateConfig, objects
  <2>4. QED
    BY <1>0, <2>1, <2>2, <2>3 DEF OnlyHostsStale
<1>16. ASSUME NEW n \in Node, UpdateConfigFails(n) PROVE OnlyHostsStale'
  <2>1. \A m \in nodes \ {n} :
          /\ files'[m] = files[m] /\ config_changed'[m] = config_changed[m]
          /\ m \notin broken' => m \notin broken
    BY <1>0, <1>16 DEF UpdateConfigFails, TypeOK
  <2>2. /\ nodes' = nodes /\ name' = name /\ opts' = opts
        /\ fencing' = fencing /\ version' = version /\ n \in broken'
    BY <1>16 DEF UpdateConfigFails, objects
  <2>3. QED
    BY <1>0, <2>1, <2>2 DEF OnlyHostsStale
<1>17. QED
  BY <1>1, <1>2, <1>3, <1>4, <1>5, <1>6, <1>7, <1>8, <1>9, <1>10, <1>11,
     <1>12, <1>13, <1>14, <1>15, <1>16 DEF Next

\* Minor numbers come from a counter that only grows, or from the volume that
\* is replaced.
LEMMA MinorsStep == IInv /\ Next => MinorsDistinct' /\ MinorsBounded'
<1> SUFFICES ASSUME IInv, Next PROVE MinorsDistinct' /\ MinorsBounded'
  OBVIOUS
<1>0. TypeOK /\ TypeOK' /\ MinorsDistinct /\ MinorsBounded
  BY TypeStep DEF IInv
<1>1. ASSUME disks' = disks, minors' = minors
      PROVE  MinorsDistinct' /\ MinorsBounded'
  BY <1>0, <1>1 DEF MinorsDistinct, MinorsBounded
<1>2. ASSUME NEW n \in Node, NEW v \in 0..num_volumes, NEW d \in BOOLEAN,
             AddDisk(n, v, d)
      PROVE  MinorsDistinct' /\ MinorsBounded'
  <2>1. v \in Nat
    BY <1>0 DEF TypeOK
  <2>2. /\ disks'[n] = WithDisk(n, v, d)
        /\ minors'[n] = IF IsNew(n, v) THEN minors[n] + 1 ELSE minors[n]
        /\ \A m \in Node \ {n} : disks'[m] = disks[m] /\ minors'[m] = minors[m]
    BY <1>0, <1>2 DEF AddDisk, TypeOK
  <2>3. /\ \A i \in DOMAIN disks'[n] : disks'[n][i].minor <= minors'[n]
        /\ \A i, j \in DOMAIN disks'[n] :
              disks'[n][i].minor = disks'[n][j].minor => i = j
    BY <1>0, <2>1, <2>2, WithDiskEntries
  <2>4. QED
    BY <1>0, <2>2, <2>3 DEF MinorsDistinct, MinorsBounded
<1>3. ASSUME NEW D \in SUBSET nodes, AddDiskToAll(D)
      PROVE  MinorsDistinct' /\ MinorsBounded'
  <2>1. ASSUME NEW n \in Node
        PROVE  /\ \A i \in DOMAIN disks'[n] : disks'[n][i].minor <= minors'[n]
               /\ \A i, j \in DOMAIN disks'[n] :
                     disks'[n][i].minor = disks'[n][j].minor => i = j
    <3>1. CASE n \in nodes
      <4>1. /\ disks'[n] = WithDisk(n, num_volumes, n \in D)
            /\ minors'[n] = IF IsNew(n, num_volumes) THEN minors[n] + 1
                                                     ELSE minors[n]
        BY <1>3, <3>1 DEF AddDiskToAll
      <4> DEFINE d == n \in D
      <4>2. num_volumes \in Nat /\ d \in BOOLEAN
        BY <1>0 DEF TypeOK
      <4>3. disks'[n] = WithDisk(n, num_volumes, d)
        BY <4>1
      <4> HIDE DEF d
      <4>4. QED
        BY <1>0, <4>1, <4>2, <4>3, WithDiskEntries
    <3>2. CASE n \notin nodes
      <4>1. disks'[n] = disks[n] /\ minors'[n] = minors[n]
        BY <1>3, <3>2 DEF AddDiskToAll
      <4>2. QED
        BY <1>0, <4>1 DEF MinorsDistinct, MinorsBounded
    <3>3. QED
      BY <3>1, <3>2
  <2>2. QED
    BY <2>1 DEF MinorsDistinct, MinorsBounded
<1>4. ASSUME NEW n \in Node, NEW i \in DOMAIN disks[n], NEW t \in Tiebreaker,
             SetTiebreaker(n, i, t)
      PROVE  MinorsDistinct' /\ MinorsBounded'
  <2>1. disks[n] \in Seq(Volume) /\ disks[n][i] \in Volume
    BY <1>0 DEF TypeOK
  <2>2. [disks[n][i] EXCEPT !.tiebreaker = t].minor = disks[n][i].minor
    BY <2>1 DEF Volume
  <2>3. /\ DOMAIN disks'[n] = DOMAIN disks[n]
        /\ \A j \in DOMAIN disks[n] : disks'[n][j].minor = disks[n][j].minor
        /\ \A m \in Node \ {n} : disks'[m] = disks[m]
        /\ minors' = minors
    BY <1>0, <1>4, <2>1, <2>2 DEF SetTiebreaker, TypeOK
  <2>4. QED
    BY <1>0, <2>3 DEF MinorsDistinct, MinorsBounded
<1>5. CASE RemoveStoragePool
  BY <1>0, <1>5 DEF RemoveStoragePool, MinorsDistinct, MinorsBounded
<1>6. ASSUME NEW n \in Node, RemoveDisks(n)
      PROVE  MinorsDistinct' /\ MinorsBounded'
  BY <1>0, <1>6 DEF RemoveDisks, MinorsDistinct, MinorsBounded, TypeOK
<1>7. QED
  BY <1>1, <1>2, <1>3, <1>4, <1>5, <1>6
  DEF Next, SetOptions, SetFencingMode, InstallDrbd, NextVolume, Rename,
      TouchConfig, AddNode, RemoveNode, DropFromCollection, UpdateConfig,
      UpdateConfigFails, objects

LEMMA InitIInv == Init => IInv
<1> SUFFICES ASSUME Init PROVE IInv
  OBVIOUS
<1>1. TypeOK
  BY ConfigAssumption DEF Init, TypeOK, Version
<1>2. FreshUnlessOwed /\ OnlyHostsStale
  BY DEF Init, FreshUnlessOwed, OnlyHostsStale
<1>3. MinorsDistinct /\ MinorsBounded
  BY DEF Init, MinorsDistinct, MinorsBounded
<1>4. QED
  BY <1>1, <1>2, <1>3 DEF IInv

LEMMA NextIInv == IInv /\ [Next]_vars => IInv'
<1>1. ASSUME IInv, Next PROVE IInv'
  BY <1>1, TypeStep, FreshStep, OwnPartStep, MinorsStep DEF IInv
<1>2. ASSUME IInv, UNCHANGED vars PROVE IInv'
  <2>1. TypeOK'
    BY <1>2 DEF IInv, TypeOK, vars, objects
  <2>2. FreshUnlessOwed'
    BY <1>2 DEF IInv, FreshUnlessOwed, Config, vars, objects
  <2>3. OnlyHostsStale'
    BY <1>2 DEF IInv, OnlyHostsStale, vars, objects
  <2>4. MinorsDistinct' /\ MinorsBounded'
    BY <1>2 DEF IInv, MinorsDistinct, MinorsBounded, vars, objects
  <2>5. QED
    BY <2>1, <2>2, <2>3, <2>4 DEF IInv
<1>3. QED
  BY <1>1, <1>2

\* The invariant with its strengthening holds throughout a test script.
LEMMA AlwaysIInv == Spec => []IInv
BY InitIInv, NextIInv, PTL DEF Spec

\* The coordinator's objects and the files keep their types, for every number
\* of nodes and changes.
THEOREM ConfigSyncType == Spec => []TypeOK
<1>1. IInv => TypeOK
  BY DEF IInv
<1>2. QED
  BY <1>1, AlwaysIInv, PTL

\* A member's file is current unless its flag is set, its last write failed, or
\* the script owes a touch_config().
THEOREM ConfigSyncFresh == Spec => []FreshUnlessOwed
<1>1. IInv => FreshUnlessOwed
  BY DEF IInv
<1>2. QED
  BY <1>1, AlwaysIInv, PTL

\* No sequence of operations leaves a member with a file of an old name, old
\* options, an old fencing mode or an old version, failed writes apart.
THEOREM ConfigSyncOwnPart == Spec => []OnlyHostsStale
<1>1. IInv => OnlyHostsStale
  BY DEF IInv
<1>2. QED
  BY <1>1, AlwaysIInv, PTL

\* Minor numbers on a host are never used twice at the same time.
THEOREM ConfigSyncMinors == Spec => []MinorsDistinct
<1>1. IInv => MinorsDistinct
  BY DEF IInv
<1>2. QED
  BY <1>1, AlwaysIInv, PTL
=============================================================================
