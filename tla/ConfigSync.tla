----------------------------- MODULE ConfigSync -----------------------------
(***************************************************************************)
(* The DRBD configuration files the coordinator keeps on the nodes         *)
(* (python/drbdtest.py, classes Resource, Node and Volume).                *)
(*                                                                         *)
(* The configuration of a node is rendered from the coordinator's objects: *)
(* the resource's name and options, the members of the resource with their *)
(* volumes, the node's own fencing mode and DRBD version.  It is a cache   *)
(* with manual invalidation: Node.config_changed says that the file on the *)
(* node is out of date, and Node.run() writes the file before it runs a    *)
(* command.  Every operation that changes something a file is rendered     *)
(* from has to set the flag of every node whose file shows it.  Some do    *)
(* not; the variable `owed' records to which nodes the script, which then  *)
(* has to call Resource.touch_config() itself, owes an update.             *)
(***************************************************************************)
EXTENDS Sequences, Naturals, FiniteSets

CONSTANTS
    Node,               \* the hosts, each with its Node object
    Name,               \* names the resource can have
    Option,             \* values of the options and of the fencing mode
    InitName, InitOption,
    Absent, Torn,       \* no file; a file cut short by a failed write
    MaxChanges          \* bound on the script's changes of the objects

ASSUME ConfigAssumption ==
    /\ InitName \in Name
    /\ InitOption \in Option
    /\ MaxChanges \in Nat

VARIABLES
    nodes,              \* Resource.nodes (Node.id is fixed, order immaterial)
    name,               \* Resource.name
    opts,               \* Resource._net_options, _disk_options, ..., _handlers
    num_volumes,        \* Resource.num_volumes
    fencing,            \* Node._fencing_mode
    version,            \* Host.drbd_version_tuple, selects the format
    disks,              \* Node.disks
    minors,             \* Host.minors
    config_changed,     \* Node.config_changed
    files,              \* the nodes' configuration directories, by name
    owed,               \* nodes with an out of date file and no flag
    broken,             \* nodes whose last write failed
    changes             \* changes made so far

objects == <<nodes, name, opts, num_volumes, fencing, version, disks, minors>>
vars == <<objects, config_changed, files, owed, broken, changes>>

Version == {"8.4", "9"}
Tiebreaker == {"default", "yes", "no"}

Volume == [volume : Nat, minor : Nat, diskful : BOOLEAN,
           tiebreaker : Tiebreaker]

-----------------------------------------------------------------------------
\* Node.config(): everything the text of a node's file depends on.
Config(n) ==
    [opts    |-> opts,
     fencing |-> fencing[n],
     version |-> version[n],
     hosts   |-> nodes,
     volumes |-> [m \in Node |-> IF m \in nodes THEN disks[m] ELSE <<>>]]

\* Which files show the volumes of n: those of all members, if n is one.
Showing(n) == IF n \in nodes THEN nodes ELSE {}

\* The flags of the nodes in S are set; the files of those in `affected' are
\* out of date from now on.
Touch(S, affected) ==
    /\ config_changed' = [n \in Node |-> n \in S \/ config_changed[n]]
    /\ owed' = (owed \cup affected) \ S
    /\ broken' = broken \ S

\* One more change by the test script.
Change == changes < MaxChanges /\ changes' = changes + 1

Init ==
    /\ nodes = Node
    /\ name = InitName
    /\ opts = InitOption
    /\ num_volumes = 0
    /\ fencing = [n \in Node |-> InitOption]
    /\ version = [n \in Node |-> "9"]
    /\ disks = [n \in Node |-> <<>>]
    /\ minors = [n \in Node |-> 0]
    /\ config_changed = [n \in Node |-> TRUE]
    /\ files = [n \in Node |-> [r \in Name |-> Absent]]
    /\ owed = {}
    /\ broken = {}
    /\ changes = 0

-----------------------------------------------------------------------------
\* Defect: a setter that does not call touch_config().
SetOptionsSilently(o) ==
    /\ Change
    /\ opts' = o
    /\ UNCHANGED <<nodes, name, num_volumes, fencing, version, disks, minors>>
    /\ UNCHANGED <<config_changed, files, owed, broken>>

\* The setters of net_options, disk_options, resource_options and handlers.
SetOptions(o) ==
    /\ Change
    /\ opts' = o
    /\ Touch(nodes, nodes)
    /\ UNCHANGED <<nodes, name, num_volumes, fencing, version, disks, minors>>
    /\ UNCHANGED files

\* The setter of Node.fencing_mode; set_fencing_mode() calls it per node.
SetFencingMode(n, o) ==
    /\ Change
    /\ fencing' = [fencing EXCEPT ![n] = o]
    /\ Touch({n}, {n})
    /\ UNCHANGED <<nodes, name, opts, num_volumes, version, disks, minors>>
    /\ UNCHANGED files

\* Host.install_drbd(): the version is read again, all nodes are touched.
InstallDrbd(n, v) ==
    /\ Change
    /\ version' = [version EXCEPT ![n] = v]
    /\ Touch(nodes, nodes)
    /\ UNCHANGED <<nodes, name, opts, num_volumes, fencing, disks, minors>>
    /\ UNCHANGED files

-----------------------------------------------------------------------------
\* Resource.next_volume(), also called by scripts that add disks one by one.
NextVolume ==
    /\ Change
    /\ num_volumes' = num_volumes + 1
    /\ Touch({}, {})
    /\ UNCHANGED <<nodes, name, opts, fencing, version, disks, minors>>
    /\ UNCHANGED files

IsNew(n, v) == v >= Len(disks[n])

\* Defect: a volume that takes the place of another gets the latest minor.
MinorLatest(n, v) == IF IsNew(n, v) THEN minors[n] + 1 ELSE minors[n]

\* A volume that takes the place of another keeps its minor number.
MinorFor(n, v) == IF IsNew(n, v) THEN minors[n] + 1 ELSE disks[n][v + 1].minor

\* The list of volumes after Node.add_disk(): appended or replaced.
WithDisk(n, v, diskful) ==
    LET volume == [volume |-> v, minor |-> MinorFor(n, v),
                   diskful |-> diskful, tiebreaker |-> "default"]
    IN  IF IsNew(n, v) THEN Append(disks[n], volume)
                       ELSE [disks[n] EXCEPT ![v + 1] = volume]

\* Node.add_disk(): only the node's own flag is set.  When create_disks()
\* fails nothing has been assigned yet.
AddDisk(n, v, diskful) ==
    /\ Change
    /\ v < num_volumes
    /\ disks' = [disks EXCEPT ![n] = WithDisk(n, v, diskful)]
    /\ minors' = [minors EXCEPT ![n] = IF IsNew(n, v) THEN @ + 1 ELSE @]
    /\ Touch({n}, Showing(n))
    /\ UNCHANGED <<nodes, name, opts, num_volumes, fencing, version, files>>

\* Resource.add_disk(): a new volume, added on every member.
AddDiskToAll(diskful_nodes) ==
    /\ Change
    /\ num_volumes' = num_volumes + 1
    /\ disks' = [n \in Node |->
                    IF n \in nodes
                    THEN WithDisk(n, num_volumes, n \in diskful_nodes)
                    ELSE disks[n]]
    /\ minors' = [n \in Node |->
                    IF n \in nodes /\ IsNew(n, num_volumes)
                    THEN minors[n] + 1 ELSE minors[n]]
    /\ Touch(nodes, nodes)
    /\ UNCHANGED <<nodes, name, opts, fencing, version, files>>

\* The setter of Volume.tiebreaker.
SetTiebreaker(n, i, t) ==
    /\ Change
    /\ disks' = [disks EXCEPT ![n][i].tiebreaker = t]
    /\ Touch(nodes, nodes)
    /\ UNCHANGED <<nodes, name, opts, num_volumes, fencing, version, minors>>
    /\ UNCHANGED files

\* Node.remove_disks(): no flag is set.
RemoveDisks(n) ==
    /\ Change
    /\ disks' = [disks EXCEPT ![n] = <<>>]
    /\ Touch({}, Showing(n))
    /\ UNCHANGED <<nodes, name, opts, num_volumes, fencing, version, minors>>
    /\ UNCHANGED files

\* Defect: one volume number is given back instead of all.
RemoveStoragePoolOne ==
    /\ Change
    /\ disks' = [n \in Node |-> IF n \in nodes THEN <<>> ELSE disks[n]]
    /\ num_volumes' = num_volumes - 1
    /\ Touch({}, nodes)
    /\ UNCHANGED <<nodes, name, opts, fencing, version, minors, files>>

\* Resource.remove_storage_pool(): the volume numbers start again.
RemoveStoragePool ==
    /\ Change
    /\ disks' = [n \in Node |-> IF n \in nodes THEN <<>> ELSE disks[n]]
    /\ num_volumes' = 0
    /\ Touch({}, nodes)
    /\ UNCHANGED <<nodes, name, opts, fencing, version, minors, files>>

-----------------------------------------------------------------------------
\* Defect: only the new node is told.
AddNodeTellsItself(n) ==
    /\ Change
    /\ n \notin nodes
    /\ nodes' = nodes \cup {n}
    /\ Touch({n}, {n})
    /\ UNCHANGED <<name, opts, num_volumes, fencing, version, disks, minors>>
    /\ UNCHANGED files

\* Resource.add_node(): all nodes are touched, the new one too.
AddNode(n) ==
    /\ Change
    /\ n \notin nodes
    /\ nodes' = nodes \cup {n}
    /\ Touch(nodes', nodes')
    /\ UNCHANGED <<name, opts, num_volumes, fencing, version, disks, minors>>
    /\ UNCHANGED files

\* Resource.remove_node(): the remaining nodes are touched.
RemoveNode(n) ==
    /\ Change
    /\ n \in nodes
    /\ nodes' = nodes \ {n}
    /\ Touch(nodes', nodes')
    /\ UNCHANGED <<name, opts, num_volumes, fencing, version, disks, minors>>
    /\ UNCHANGED files

\* resource.nodes.remove(): the collection's own remove, nobody is touched.
DropFromCollection(n) ==
    /\ Change
    /\ n \in nodes
    /\ nodes' = nodes \ {n}
    /\ Touch({}, nodes')
    /\ UNCHANGED <<name, opts, num_volumes, fencing, version, disks, minors>>
    /\ UNCHANGED files

\* Resource.touch_config(), called by a script.
TouchConfig ==
    /\ Change
    /\ Touch(nodes, {})
    /\ UNCHANGED <<objects, files>>

-----------------------------------------------------------------------------
\* What update_config() leaves in the directory of node n.
Written(n) ==
    IF config_changed[n] THEN [files[n] EXCEPT ![name] = Config(n)]
                         ELSE files[n]

\* Defect: the name changes after the nodes were touched and updated.
RenameAfterUpdate(new) ==
    /\ Change
    /\ name' = new
    /\ files' = [n \in Node |-> IF n \in nodes THEN Written(n) ELSE files[n]]
    /\ config_changed' = [n \in Node |-> n \notin nodes /\ config_changed[n]]
    /\ UNCHANGED <<owed, broken>>
    /\ UNCHANGED <<nodes, opts, num_volumes, fencing, version, disks, minors>>

\* Resource.rename(): the command that renames the resource runs on all
\* members, after their files were written under the old name; then the name
\* changes and everybody is touched.  Files of the old name stay.
Rename(new) ==
    /\ Change
    /\ name' = new
    /\ files' = [n \in Node |-> IF n \in nodes THEN Written(n) ELSE files[n]]
    /\ Touch(nodes, nodes)
    /\ UNCHANGED <<nodes, opts, num_volumes, fencing, version, disks, minors>>

\* Defect: the flag is cleared and the file is not written.
UpdateConfigUnwritten(n) ==
    /\ config_changed[n]
    /\ config_changed' = [config_changed EXCEPT ![n] = FALSE]
    /\ UNCHANGED files
    /\ owed' = owed \ {n}
    /\ broken' = broken \ {n}
    /\ UNCHANGED <<objects, changes>>

\* Node.run() of any command: update_config() first.
UpdateConfig(n) ==
    /\ config_changed[n]
    /\ config_changed' = [config_changed EXCEPT ![n] = FALSE]
    /\ files' = [files EXCEPT ![n] = Written(n)]
    /\ owed' = owed \ {n}
    /\ broken' = broken \ {n}
    /\ UNCHANGED <<objects, changes>>

\* The flag is cleared before the file is written.  When the write fails, the
\* old file is still there, or a truncated one.
UpdateConfigFails(n) ==
    /\ config_changed[n]
    /\ config_changed' = [config_changed EXCEPT ![n] = FALSE]
    /\ \E f \in {files[n][name], Torn} : files' = [files EXCEPT ![n][name] = f]
    /\ broken' = broken \cup {n}
    /\ UNCHANGED <<objects, owed, changes>>

-----------------------------------------------------------------------------
Next ==
    \/ \E o \in Option : SetOptions(o)
    \/ \E n \in Node, o \in Option : SetFencingMode(n, o)
    \/ \E n \in Node, v \in Version : InstallDrbd(n, v)
    \/ NextVolume
    \/ \E n \in Node, v \in 0..num_volumes, d \in BOOLEAN : AddDisk(n, v, d)
    \/ \E D \in SUBSET nodes : AddDiskToAll(D)
    \/ \E n \in Node : \E i \in DOMAIN disks[n], t \in Tiebreaker :
            SetTiebreaker(n, i, t)
    \/ RemoveStoragePool
    \/ \E r \in Name : Rename(r)
    \/ TouchConfig
    \/ \E n \in Node :
        \/ RemoveDisks(n)
        \/ AddNode(n)
        \/ RemoveNode(n)
        \/ DropFromCollection(n)
        \/ UpdateConfig(n)
        \/ UpdateConfigFails(n)

Spec == Init /\ [][Next]_vars

-----------------------------------------------------------------------------
ConfigText ==
    [opts : Option, fencing : Option, version : Version,
     hosts : SUBSET Node, volumes : [Node -> Seq(Volume)]]

\* The type of the state.
TypeOK ==
    /\ nodes \subseteq Node
    /\ name \in Name
    /\ opts \in Option
    /\ num_volumes \in Nat
    /\ fencing \in [Node -> Option]
    /\ version \in [Node -> Version]
    /\ disks \in [Node -> Seq(Volume)]
    /\ minors \in [Node -> Nat]
    /\ config_changed \in [Node -> BOOLEAN]
    /\ files \in [Node -> [Name -> ConfigText \cup {Absent, Torn}]]
    /\ owed \subseteq Node
    /\ broken \subseteq Node
    /\ changes \in 0..MaxChanges

\* update_config(): "Create or update the configuration file on the node when
\* needed."  A member whose flag is clear runs its commands with the file that
\* is there, which must show the coordinator's current objects (failed writes
\* left aside).
ConfigFresh ==
    \A n \in nodes \ broken : config_changed[n] \/ files[n][name] = Config(n)

\* What the flags do guarantee: the file of a member is current, or its flag is
\* set, or its last write failed, or the script changed disks or the collection
\* of nodes one by one and has not called touch_config() since.
FreshUnlessOwed ==
    \A n \in nodes :
        \/ config_changed[n]
        \/ n \in owed \cup broken
        \/ files[n][name] = Config(n)

\* Whatever a script forgets, the file that a member uses was written under the
\* current name, for the current options and the node's own fencing mode and
\* DRBD version: only sections about volumes and members can be stale.
OnlyHostsStale ==
    \A n \in nodes \ broken :
        \/ config_changed[n]
        \/ files[n][name] \in
              [opts : {opts}, fencing : {fencing[n]}, version : {version[n]},
               hosts : SUBSET Node, volumes : [Node -> Seq(Volume)]]

\* Two volumes of a node never share a minor number, also after volumes were
\* replaced, removed and added again.
MinorsDistinct ==
    \A n \in Node : \A i, j \in DOMAIN disks[n] :
        disks[n][i].minor = disks[n][j].minor => i = j
=============================================================================
