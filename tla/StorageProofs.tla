---------------------------- MODULE StorageProofs ---------------------------
(***************************************************************************)
(* Storage for any number of volumes: Node.disks and the host agree while  *)
(* the script runs, and what a test can leave behind.                      *)
(***************************************************************************)
EXTENDS Storage, SequenceTheorems, TLAPS

TypeOK ==
    /\ pc \in {"script", "node", "host", "ended"}
    /\ disks \in Seq(VolumeType)
    /\ devs \subseteq Device

\* remove_disks() finds what is there, as long as nothing has failed.
Known ==
    /\ RecordedExact
    /\ pc = "node" /\ faults = {} => devs = InRemoveDisks /\ attached = {}

\* A snapshot has its origin.
Origins == \A v \in snaps : <<v, "disk", "base">> \in devs

\* There is a pool object for everything that is in a pool, and for the pool
\* itself if its creation has not failed half-way.
Pooled ==
    pc # "ended" =>
        /\ devs # {} => storage_pool
        /\ group => storage_pool \/ "pool" \in faults

\* What Node.cleanup() leaves for Host.cleanup().
ForHost ==
    pc = "host" =>
        /\ "cleanup" \notin faults => attached = {}
        /\ faults = {} => devs = {} \/ (backend = "zfs" /\ snaps # {})

IInv ==
    /\ TypeOK
    /\ Known
    /\ Origins
    /\ Pooled
    /\ ForHost
    /\ NothingLeft
    /\ OnlyTargetsPin

-----------------------------------------------------------------------------
(* The devices of the volumes.                                             *)

LEMMA MadeOf ==
    ASSUME NEW v, NEW volume, NEW d \in Made(v, volume)
    PROVE  d[1] = v /\ d[2] \in {"disk", "meta"}
BY DEF Made

LEMMA MadeDevices ==
    ASSUME NEW v \in 1..MaxVolumes, NEW volume \in VolumeType
    PROVE  Made(v, volume) \subseteq Device
BY DEF Made, VolumeType, Stacks, Device

LEMMA Heights ==
    /\ Height["base"] = 0 /\ Height["delay"] = 1 /\ Height["ebs"] = 2
    /\ \A l \in Layers : Height[l] \in Nat
    /\ \A l \in Layers : 0 < Height[l] => l # "base"
<1>1. Height["base"] = 0 /\ Height["delay"] = 1 /\ Height["ebs"] = 2
  BY DEF Height
<1>2. QED
  BY <1>1 DEF Layers

\* A device that has something on it has a target on it.
LEMMA CoveredByTarget ==
    ASSUME devs \subseteq Device, NEW d \in devs \ Target, Covered(d, devs)
    PROVE  devs \cap Target # {}
<1>1. PICK e \in devs : Height[d[3]] < Height[e[3]]
  BY DEF Covered
<1>2. d[3] = "base" /\ e[3] \in Layers /\ e \in Device
  BY DEF Target, Device
<1>3. e[3] # "base"
  BY <1>1, <1>2, Heights
<1>4. QED
  BY <1>2, <1>3 DEF Target

\* add_disk() adds the devices of the new volume to the known ones.
LEMMA AddDiskKnown ==
    ASSUME TypeOK, NEW v \in 1..MaxVolumes, NEW volume \in VolumeType,
           AddDisk(v, volume)
    PROVE  /\ disks' \in Seq(VolumeType)
           /\ InRemoveDisks' = InRemoveDisks \cup Made(v, volume)
<1> DEFINE n == IF v > Len(disks) THEN v ELSE Len(disks)
<1>1. /\ v \in 1..(Len(disks) + 1) /\ Len(disks) \in Nat
      /\ v <= Len(disks) => disks[v] = [disk |-> {}, meta |-> {}]
      /\ disks' = [k \in 1..n |-> IF k = v THEN volume ELSE disks[k]]
  BY DEF AddDisk, MayAdd, TypeOK
<1>2. n \in Nat /\ \A k \in 1..n : k # v => k \in 1..Len(disks)
  BY <1>1
<1>3. v \in 1..n /\ \A k \in 1..Len(disks) : k \in 1..n
  BY <1>1
<1> HIDE DEF n
<1>4. \A k \in 1..n : (IF k = v THEN volume ELSE disks[k]) \in VolumeType
  BY <1>2 DEF TypeOK
<1>5. disks' \in Seq(VolumeType) /\ Len(disks') = n
  BY <1>1, <1>2, <1>4
<1>6. disks'[v] = volume /\ \A k \in 1..n : k # v => disks'[k] = disks[k]
  BY <1>1, <1>3
<1>7. v \in 1..Len(disks) => Made(v, disks[v]) = {}
  BY <1>1 DEF Made
<1>8. InRemoveDisks' \subseteq InRemoveDisks \cup Made(v, volume)
  BY <1>2, <1>5, <1>6 DEF InRemoveDisks
<1>9. InRemoveDisks \subseteq InRemoveDisks'
  BY <1>3, <1>5, <1>6, <1>7 DEF InRemoveDisks
<1>10. Made(v, volume) \subseteq InRemoveDisks'
  BY <1>3, <1>5, <1>6 DEF InRemoveDisks
<1>11. QED
  BY <1>5, <1>8, <1>9, <1>10

\* A disk that is removed takes its devices, and no others, out of the known.
LEMMA RemoveDiskKnown ==
    ASSUME TypeOK, NEW v \in 1..MaxVolumes, RemoveDisk(v)
    PROVE  /\ disks' \in Seq(VolumeType)
           /\ InRemoveDisks' = InRemoveDisks \ Made(v, disks[v])
<1>1. /\ v \in 1..Len(disks) /\ disks[v] \in VolumeType /\ Len(disks) \in Nat
      /\ disks[v].meta = {}
      /\ disks' = [disks EXCEPT ![v].disk = {}]
  BY DEF RemoveDisk, TypeOK
<1> DEFINE none == [disks[v] EXCEPT !.disk = {}]
<1>2. none \in VolumeType /\ none.disk = {} /\ none.meta = {}
  BY <1>1 DEF VolumeType, Stacks
<1>3. disks' = [disks EXCEPT ![v] = none]
  BY <1>1
<1> HIDE DEF none
<1>4. /\ disks' \in Seq(VolumeType) /\ Len(disks') = Len(disks)
      /\ disks'[v] = none
      /\ \A k \in 1..Len(disks) : k # v => disks'[k] = disks[k]
  <2>1. disks \in Seq(VolumeType)
    BY DEF TypeOK
  <2>2. /\ [disks EXCEPT ![v] = none] \in Seq(VolumeType)
        /\ Len([disks EXCEPT ![v] = none]) = Len(disks)
        /\ \A k \in 1..Len(disks) : [disks EXCEPT ![v] = none][k]
                                    = IF k = v THEN none ELSE disks[k]
    BY <1>1, <1>2, <2>1, ExceptSeq
  <2>3. QED
    BY <1>1, <1>3, <2>2
<1>5. Made(v, disks'[v]) = {}
  BY <1>2, <1>4 DEF Made
<1>6. ASSUME NEW d \in InRemoveDisks'
      PROVE  d \in InRemoveDisks \ Made(v, disks[v])
  <2>1. PICK k \in 1..Len(disks) : d \in Made(k, disks'[k])
    BY <1>4, <1>6 DEF InRemoveDisks
  <2>2. k # v /\ d \in Made(k, disks[k])
    BY <1>4, <1>5, <2>1
  <2>3. d[1] = k /\ d \notin Made(v, disks[v])
    BY <2>2, MadeOf
  <2>4. QED
    BY <2>2, <2>3 DEF InRemoveDisks
<1>7. ASSUME NEW d \in InRemoveDisks \ Made(v, disks[v])
      PROVE  d \in InRemoveDisks'
  <2>1. PICK k \in 1..Len(disks) : d \in Made(k, disks[k])
    BY <1>7 DEF InRemoveDisks
  <2>2. d \in Made(k, disks'[k])
    BY <1>4, <1>7, <2>1
  <2>3. QED
    BY <1>4, <2>2 DEF InRemoveDisks
<1>8. QED
  BY <1>4, <1>6, <1>7

\* The order of remove_disks() never meets a device that is in use by another.
LEMMA AllRemovable ==
    ASSUME TypeOK, devs = InRemoveDisks, backend # "zfs" \/ snaps = {}
    PROVE  InRemoveDisks \in Reach(InRemoveDisks, {})
<1> DEFINE s == InRemoveDisks
<1>1. ASSUME NEW d \in s
      PROVE  Removable(d, devs \ {e \in s : RemovedBefore(e, d)}, {})
  <2> DEFINE ds == devs \ {e \in s : RemovedBefore(e, d)}
  <2>1. d \in Device /\ d[1] \in Nat /\ d[3] \in Layers
    BY <1>1 DEF TypeOK, Device
  <2>2. ~RemovedBefore(d, d)
    BY <2>1, Heights DEF RemovedBefore, TargetRemove
  <2>3. ~Covered(d, ds)
    BY <1>1 DEF Covered, RemovedBefore, TargetRemove
  <2>4. QED
    BY <1>1, <2>2, <2>3 DEF Removable, Busy
<1>2. QED
  BY <1>1 DEF Reach

\* A zvol with a snapshot is not removed.
LEMMA SnapshotsStay ==
    ASSUME Origins, backend = "zfs", NEW s, NEW held,
           NEW gone \in Reach(s, held), Removed(gone)
    PROVE  snaps' = snaps
<1>1. \A v \in snaps : <<v, "disk", "base">> \notin gone
  BY DEF Reach, Removable
<1>2. QED
  BY <1>1 DEF Removed, Origins

-----------------------------------------------------------------------------
(* The steps.                                                              *)

LEMMA InitIInv == Init => IInv
<1> SUFFICES ASSUME Init PROVE IInv
  OBVIOUS
<1>1. TypeOK
  BY EmptySeq DEF Init, TypeOK
<1>2. InRemoveDisks = {}
  BY DEF Init, InRemoveDisks
<1>3. QED
  BY <1>1, <1>2 DEF Init, IInv, Known, RecordedExact, Origins, Pooled,
     ForHost, NothingLeft, OnlyTargetsPin

\* Devices only disappear: types, snapshots and pools stay as they should.
LEMMA RemovedKeeps ==
    ASSUME IInv, NEW gone, Removed(gone)
    PROVE  /\ devs' \subseteq devs /\ devs' \subseteq Device
           /\ Origins' /\ UNCHANGED group
BY DEF IInv, TypeOK, Removed, Origins

LEMMA CreatePoolIInv ==
    ASSUME IInv, NEW thin \in BOOLEAN,
           CreateStoragePool(thin) \/ CreateStoragePoolFails(thin)
    PROVE  IInv'
<1> USE DEF IInv, TypeOK, Known, RecordedExact, Origins, Pooled, ForHost,
        NothingLeft, OnlyTargetsPin
<1>1. CASE CreateStoragePool(thin)
  BY <1>1 DEF CreateStoragePool, PoolMade, InRemoveDisks
<1>2. CASE CreateStoragePoolFails(thin)
  BY <1>2 DEF CreateStoragePoolFails, Raise, objects
<1>3. QED
  BY <1>1, <1>2

LEMMA AddDiskIInv ==
    ASSUME IInv, NEW v \in 1..MaxVolumes, NEW volume \in VolumeType,
           AddDisk(v, volume) \/ AddDiskFails(v, volume)
    PROVE  IInv'
<1>1. storage_pool' /\ pc = "script"
  BY DEF AddDisk, AddDiskFails, PoolMade
<1>2. CASE AddDisk(v, volume)
  <2>1. /\ devs' = devs \cup Made(v, volume) /\ pc' = "script"
        /\ UNCHANGED <<snaps, attached, faults>>
    BY <1>2 DEF AddDisk
  <2>2. devs' \subseteq Device
    BY <2>1, MadeDevices DEF IInv, TypeOK
  <2>3. devs' = InRemoveDisks' /\ disks' \in Seq(VolumeType)
    BY <1>1, <1>2, <2>1, AddDiskKnown DEF IInv, Known, RecordedExact
  <2>4. QED
    BY <1>1, <2>1, <2>2, <2>3 DEF IInv, TypeOK, Known, RecordedExact,
       Origins, Pooled, ForHost, NothingLeft, OnlyTargetsPin
<1>3. CASE AddDiskFails(v, volume)
  <2>1. PICK some \in MadeInPart(v, volume) : devs' = devs \cup some
    BY <1>3 DEF AddDiskFails
  <2>2. /\ pc' = "node" /\ faults' = faults \cup {"script"}
        /\ UNCHANGED <<disks, snaps, attached>>
    BY <1>3 DEF AddDiskFails, Raise
  <2>3. some \subseteq Device
    BY MadeDevices DEF MadeInPart
  <2>4. QED
    BY <1>1, <2>1, <2>2, <2>3 DEF IInv, TypeOK, Known, RecordedExact,
       Origins, Pooled, ForHost, NothingLeft, OnlyTargetsPin
<1>4. QED
  BY <1>2, <1>3

LEMMA RemoveDiskIInv ==
    ASSUME IInv, NEW v \in 1..MaxVolumes, RemoveDisk(v) \/ RemoveDiskFails(v)
    PROVE  IInv'
<1>1. CASE RemoveDisk(v)
  <2>1. /\ pc = "script" /\ Removed(Made(v, disks[v]))
        /\ UNCHANGED <<pc, storage_pool, attached, faults>>
    BY <1>1 DEF RemoveDisk
  <2>2. devs' = InRemoveDisks' /\ disks' \in Seq(VolumeType)
    BY <1>1, <2>1, RemoveDiskKnown
       DEF IInv, Known, RecordedExact, Removed
  <2>3. devs' \subseteq devs /\ devs' \subseteq Device /\ Origins'
        /\ UNCHANGED group
    BY <2>1, RemovedKeeps
  <2>4. QED
    BY <2>1, <2>2, <2>3 DEF IInv, TypeOK, Known, RecordedExact, Pooled,
       ForHost, NothingLeft, OnlyTargetsPin
<1>2. CASE RemoveDiskFails(v)
  <2>1. /\ pc = "script" /\ pc' = "node" /\ faults' = faults \cup {"script"}
        /\ UNCHANGED <<storage_pool, disks>>
    BY <1>2 DEF RemoveDiskFails, Raise, objects
  <2>2. devs' \subseteq devs /\ devs' \subseteq Device /\ Origins'
        /\ UNCHANGED group
    BY <1>2, RemovedKeeps DEF RemoveDiskFails
  <2>3. QED
    BY <2>1, <2>2 DEF IInv, TypeOK, Known, RecordedExact, Pooled,
       ForHost, NothingLeft, OnlyTargetsPin
<1>3. QED
  BY <1>1, <1>2

LEMMA ScriptIInv ==
    ASSUME IInv, \/ Up \/ Down \/ ScriptFails \/ EndScript
                 \/ \E v \in 1..MaxVolumes : Snapshot(v) \/ Detach(v)
    PROVE  IInv'
<1> USE DEF objects, devices
<1>1. /\ UNCHANGED <<objects, group, devs>> /\ pc = "script"
      /\ InRemoveDisks' = InRemoveDisks
  BY DEF Up, Down, ScriptFails, EndScript, Snapshot, Detach, InRemoveDisks
<1>2. \/ UNCHANGED <<pc, faults>>
      \/ pc' = "node" /\ faults' # {} /\ faults \subseteq faults'
      \/ pc' = "node" /\ UNCHANGED <<attached, faults>> /\ attached = {}
  BY DEF Up, Down, ScriptFails, EndScript, Snapshot, Detach, Raise
<1>3. Origins'
  <2>1. CASE \E v \in 1..MaxVolumes : Snapshot(v)
    <3>1. PICK v \in 1..Len(disks) : /\ disks[v].disk = {"base"}
                                     /\ snaps' = snaps \cup {v}
      BY <2>1 DEF Snapshot
    <3>2. <<v, "disk", "base">> \in Made(v, disks[v])
      BY <3>1 DEF Made
    <3>3. <<v, "disk", "base">> \in devs
      BY <1>1, <3>2 DEF IInv, Known, RecordedExact, InRemoveDisks
    <3>4. QED
      BY <1>1, <3>1, <3>3 DEF IInv, Origins
  <2>2. CASE UNCHANGED snaps
    BY <1>1, <2>2 DEF IInv, Origins
  <2>3. QED
    BY <2>1, <2>2 DEF Up, Down, ScriptFails, EndScript, Detach
<1>4. QED
  BY <1>1, <1>2, <1>3 DEF IInv, TypeOK, Known, RecordedExact, Pooled,
     ForHost, NothingLeft, OnlyTargetsPin

LEMMA RemovePoolIInv ==
    ASSUME IInv, RemoveStoragePool \/ RemoveStoragePoolFails PROVE IInv'
<1>1. CASE RemoveStoragePool
  <2>1. /\ pc = "script" /\ PoolRemove(devs \ InRemoveDisks) /\ disks' = <<>>
        /\ UNCHANGED <<pc, backend, attached, faults>>
    BY <1>1 DEF RemoveStoragePool
  <2>2. devs' = {} /\ snaps' = {} /\ ~group'
    BY <2>1 DEF PoolRemove, IInv, Known, RecordedExact
  <2>3. InRemoveDisks' = {} /\ disks' \in Seq(VolumeType)
    BY <2>1, EmptySeq DEF InRemoveDisks
  <2>4. QED
    BY <2>1, <2>2, <2>3 DEF IInv, TypeOK, Known, RecordedExact, Origins,
       Pooled, ForHost, NothingLeft, OnlyTargetsPin
<1>2. CASE RemoveStoragePoolFails
  <2>1. /\ pc' = "node" /\ faults' = faults \cup {"script"} /\ pc = "script"
        /\ UNCHANGED storage_pool
    BY <1>2 DEF RemoveStoragePoolFails, Raise
  <2>2. disks' \in Seq(VolumeType)
    BY <1>2, EmptySeq DEF RemoveStoragePoolFails, IInv, TypeOK
  <2>3. devs' \subseteq devs /\ devs' \subseteq Device /\ Origins'
        /\ UNCHANGED group
    BY <1>2, RemovedKeeps DEF RemoveStoragePoolFails
  <2>4. QED
    BY <2>1, <2>2, <2>3 DEF IInv, TypeOK, Known, RecordedExact, Pooled,
       ForHost, NothingLeft, OnlyTargetsPin
<1>3. QED
  BY <1>1, <1>2

\* Node.cleanup() removes everything, or stops at a zvol with a snapshot.
LEMMA NodeCleanupIInv ==
    ASSUME IInv, NodeCleanup \/ NodeCleanupFails PROVE IInv'
<1> USE DEF objects, devices
<1>1. CASE NodeCleanup
  <2>1. PICK gone \in Reach(InRemoveDisks, {}) :
            /\ \A less \in Reach(InRemoveDisks, {}) : less \subseteq gone
            /\ Removed(gone)
            /\ disks' = IF gone = InRemoveDisks THEN <<>> ELSE disks
    BY <1>1 DEF NodeCleanup
  <2>2. /\ pc = "node" /\ pc' = "host" /\ attached' = {}
        /\ UNCHANGED <<backend, storage_pool, faults>>
    BY <1>1 DEF NodeCleanup
  <2>3. disks' \in Seq(VolumeType)
    BY <2>1, EmptySeq DEF IInv, TypeOK
  <2>4. devs' \subseteq devs /\ devs' \subseteq Device /\ Origins'
        /\ UNCHANGED group
    BY <2>1, RemovedKeeps
  <2>5. ASSUME faults = {}, ~(backend = "zfs" /\ snaps # {})
        PROVE  devs' = {}
    <3>1. devs = InRemoveDisks
      BY <2>2, <2>5 DEF IInv, Known
    <3>2. InRemoveDisks \subseteq gone
      BY <2>1, <2>5, <3>1, AllRemovable DEF IInv
    <3>3. QED
      BY <2>1, <3>1, <3>2 DEF Removed
  <2>6. ASSUME backend = "zfs", snaps # {}
        PROVE  snaps' # {}
    BY <2>1, <2>6, SnapshotsStay DEF IInv
  <2>7. QED
    BY <2>2, <2>3, <2>4, <2>5, <2>6 DEF IInv, TypeOK, Known, RecordedExact,
       Pooled, ForHost, NothingLeft, OnlyTargetsPin
<1>2. CASE NodeCleanupFails
  <2>1. /\ pc = "node" /\ pc' = "host" /\ faults' = faults \cup {"cleanup"}
        /\ UNCHANGED <<backend, objects>>
    BY <1>2 DEF NodeCleanupFails
  <2>2. devs' \subseteq devs /\ devs' \subseteq Device /\ Origins'
        /\ UNCHANGED group
    <3>1. CASE UNCHANGED devices
      BY <3>1 DEF IInv, TypeOK, Origins
    <3>2. CASE \E gone \in Reach(InRemoveDisks, {}) : Removed(gone)
      BY <3>2, RemovedKeeps
    <3>3. QED
      BY <1>2, <3>1, <3>2 DEF NodeCleanupFails
  <2>3. QED
    BY <2>1, <2>2 DEF IInv, TypeOK, Known, RecordedExact,
       Pooled, ForHost, NothingLeft, OnlyTargetsPin
<1>3. QED
  BY <1>1, <1>2

\* What Host.cleanup() cannot remove is held by a target.
LEMMA HostCleanupIInv ==
    ASSUME IInv, HostCleanup \/ HostCleanupFails PROVE IInv'
<1>1. /\ pc = "host" /\ pc' = "ended" /\ UNCHANGED <<backend, disks>>
      /\ faults \subseteq faults'
  BY DEF HostCleanup, HostCleanupFails
<1>2. CASE ~storage_pool /\ HostCleanup
  <2>1. UNCHANGED <<group, devs, snaps, faults>>
    BY <1>2 DEF HostCleanup, devices
  <2>2. devs = {} /\ ("pool" \notin faults => ~group)
    BY <1>1, <1>2 DEF IInv, Pooled
  <2>3. QED
    BY <1>1, <2>1, <2>2 DEF IInv, TypeOK, Known, RecordedExact, Origins,
       Pooled, ForHost, NothingLeft, OnlyTargetsPin, Gone
<1>3. CASE storage_pool /\ PoolRemovable(devs) /\ HostCleanup
  <2>1. /\ devs' = (IF backend = "storage-spaces" THEN devs ELSE {})
        /\ snaps' = {v \in snaps : <<v, "disk", "base">> \in devs'}
        /\ ~group' /\ UNCHANGED faults
    BY <1>3 DEF HostCleanup, PoolRemove
  <2>2. backend = "storage-spaces" /\ faults = {} => devs = {}
    BY <1>1 DEF IInv, ForHost
  <2>3. QED
    BY <1>1, <2>1, <2>2 DEF IInv, TypeOK, Known, RecordedExact, Origins,
       Pooled, ForHost, NothingLeft, OnlyTargetsPin, Gone
<1>4. CASE PoolRemoveFails
  <2>1. PICK gone \in SUBSET {d \in devs \ Target :
                                ~Busy(d, devs, attached)} :
            /\ backend # "lvm" => gone = {}
            /\ devs' = devs \ gone
            /\ snaps' = {v \in snaps : <<v, "disk", "base">> \in devs'}
    BY <1>4 DEF PoolRemoveFails
  <2>2. TypeOK' /\ Origins'
    BY <1>1, <2>1 DEF IInv, TypeOK, Origins
  <2>3. devs' \cap Target = devs \cap Target
    BY <2>1
  <2>4. CASE HostCleanupFails
    BY <1>1, <2>2, <2>4 DEF HostCleanupFails, IInv, Known, RecordedExact,
       Pooled, ForHost, NothingLeft, OnlyTargetsPin
  <2>5. CASE HostCleanup /\ ~PoolRemovable(devs)
    <3>1. UNCHANGED faults
      BY <2>5 DEF HostCleanup
    <3>2. ASSUME faults \subseteq {"script"}
          PROVE  devs \cap Target # {}
      <4>1. PICK d \in devs \ Target : Busy(d, devs, attached)
        BY <2>5 DEF PoolRemovable
      <4>2. attached = {}
        BY <1>1, <3>2 DEF IInv, ForHost
      <4>3. QED
        BY <4>1, <4>2, CoveredByTarget DEF Busy, IInv, TypeOK
    <3>3. ASSUME faults = {}
          PROVE  backend = "zfs" /\ snaps' # {}
      <4>1. devs # {}
        BY <3>2, <3>3
      <4>2. backend = "zfs" /\ snaps # {}
        BY <1>1, <3>3, <4>1 DEF IInv, ForHost
      <4>3. snaps' = snaps
        BY <2>1, <4>2 DEF IInv, Origins
      <4>4. QED
        BY <4>2, <4>3
    <3>4. QED
      BY <1>1, <2>2, <2>3, <3>1, <3>2, <3>3 DEF IInv, Known, RecordedExact,
         Pooled, ForHost, NothingLeft, OnlyTargetsPin
  <2>6. CASE HostCleanup /\ PoolRemovable(devs) /\ storage_pool
    BY <1>3, <2>6
  <2>7. CASE HostCleanup /\ ~storage_pool
    BY <1>2, <2>7
  <2>8. QED
    BY <2>4, <2>5, <2>6, <2>7
<1>5. QED
  BY <1>2, <1>3, <1>4 DEF HostCleanup, HostCleanupFails

LEMMA NextIInv == IInv /\ [Next]_vars => IInv'
<1> SUFFICES ASSUME IInv, [Next]_vars PROVE IInv'
  OBVIOUS
<1>1. CASE Next
  BY <1>1, CreatePoolIInv, AddDiskIInv, RemoveDiskIInv, ScriptIInv,
     RemovePoolIInv, NodeCleanupIInv, HostCleanupIInv DEF Next
<1>2. CASE UNCHANGED vars
  BY <1>2 DEF vars, objects, devices, IInv, TypeOK, Known, RecordedExact,
     InRemoveDisks, Origins, Pooled, ForHost, NothingLeft, OnlyTargetsPin,
     Gone
<1>3. QED
  BY <1>1, <1>2

LEMMA AlwaysIInv == Spec => []IInv
BY InitIInv, NextIInv, PTL DEF Spec

-----------------------------------------------------------------------------
(* The theorems.                                                           *)

\* Node.disks knows of all devices on the host, and of no others, after any
\* sequence of add_disk(), remove() and remove_storage_pool().
THEOREM AlwaysRecordedExact == Spec => []RecordedExact
<1>1. IInv => RecordedExact
  BY DEF IInv, Known
<1>2. QED
  BY <1>1, AlwaysIInv, PTL

\* A test in which no command failed leaves nothing on the host, but for ZFS
\* snapshots with a target behind them (Node.cleanup, Host.cleanup).
THEOREM NothingEverLeft == Spec => []NothingLeft
<1>1. IInv => NothingLeft
  BY DEF IInv
<1>2. QED
  BY <1>1, AlwaysIInv, PTL

\* What the clean-up leaves after a failed script is held by a device mapper
\* target (Host.cleanup).
THEOREM OnlyTargetsEverPin == Spec => []OnlyTargetsPin
<1>1. IInv => OnlyTargetsPin
  BY DEF IInv
<1>2. QED
  BY <1>1, AlwaysIInv, PTL
=============================================================================
