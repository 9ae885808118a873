------------------------------ MODULE Storage -------------------------------
(***************************************************************************)
(* The backing storage of one host (python/disktools.py, and its callers   *)
(* Host.create_storage_pool, Node.add_disk, Volume.create_disks,           *)
(* Node.remove_disks, Node.cleanup and Host.cleanup in drbdtest.py).       *)
(*                                                                         *)
(* A storage pool holds base volumes: logical volumes, zvols, partitions   *)
(* or virtual disks.  A device mapper target can be stacked on a base      *)
(* volume to delay its I/O, and another one to emulate a block size.  Each *)
(* volume of DRBD has such a stack for its data, and one for its metadata  *)
(* if they are external.                                                   *)
(*                                                                         *)
(* Devices on the host outlive the objects of the coordinator, and every   *)
(* command can fail, which raises.  The first exception ends the script.   *)
(***************************************************************************)
EXTENDS Naturals, Sequences

CONSTANTS
    Backends,       \* storage backends of the command line
    MaxVolumes      \* bound on the volumes of a node

ASSUME StorageAssumption ==
    /\ Backends \subseteq {"lvm", "zfs", "raw", "storage-spaces"}
    /\ MaxVolumes \in Nat \ {0}

Layers == {"base", "delay", "ebs"}
Height == [base |-> 0, delay |-> 1, ebs |-> 2]
Stacks == {s \in SUBSET Layers : s # {} => "base" \in s}

\* A Volume object: disk_volume and meta_volume, by their layers; {} for None.
VolumeType == [disk : Stacks, meta : Stacks]

\* A device on the host, and the device mapper targets among these.
Device == (1..MaxVolumes) \X {"disk", "meta"} \X Layers
Target == {d \in Device : d[3] # "base"}

VARIABLES
    pc,             \* "script", "node" (Node.cleanup is next), "host"
                    \* (Host.cleanup is next), "ended"
    backend,        \* Host.storage_backend
    storage_pool,   \* Host.storage_pool is set
    disks,          \* Node.disks
    group,          \* the volume group or zpool exists
    devs,           \* the devices of volumes that exist
    snaps,          \* volumes with a snapshot
    attached,       \* volumes whose devices DRBD holds open
    faults          \* where a command failed: "pool", "script", "cleanup"

objects == <<storage_pool, disks>>
devices == <<group, devs, snaps>>
vars == <<pc, backend, objects, devices, attached, faults>>

-----------------------------------------------------------------------------
(* The kernel and the volume managers.                                     *)

\* A target on the same volume lies on device d.
Covered(d, ds) ==
    \E e \in ds : e[1] = d[1] /\ e[2] = d[2] /\ Height[d[3]] < Height[e[3]]

\* Something has device d open, given the devices ds and that DRBD holds those
\* of the volumes in held.
Busy(d, ds, held) == Covered(d, ds) \/ d[1] \in held

\* dmsetup remove, lvremove, zfs destroy, sgdisk --delete: a zvol with a
\* snapshot cannot be destroyed, lvremove takes the snapshots along.
Removable(d, ds, held) ==
    /\ d \in ds
    /\ ~Busy(d, ds, held)
    /\ ~(backend = "zfs" /\ d \in {<<v, "disk", "base">> : v \in snaps})

\* These devices are gone.
Removed(gone) ==
    /\ devs' = devs \ gone
    /\ snaps' = {v \in snaps : <<v, "disk", "base">> \in devs'}
    /\ UNCHANGED group

-----------------------------------------------------------------------------
(* The volume objects.                                                     *)

\* The devices of volume v.
Made(v, volume) ==
    ({v} \X {"disk"} \X volume.disk) \cup ({v} \X {"meta"} \X volume.meta)

\* create_disks(), create_disk(): the data, then the metadata; the base volume,
\* then the targets on it.
MadeBefore(d, e) ==
    \/ d[2] = "disk" /\ e[2] = "meta"
    \/ d[2] = e[2] /\ Height[d[3]] < Height[e[3]]

\* What is there when it raises, with the last device or without it.
MadeInPart(v, volume) ==
    {Made(v, volume)} \cup
    {{d \in Made(v, volume) : MadeBefore(d, e)} : e \in Made(v, volume)}

\* Defect: the backing volume first.
TargetRemoveBelow(d, e) == Height[d[3]] < Height[e[3]]

\* remove() of a stack: a target removes itself, then its backing volume.
TargetRemove(d, e) == Height[d[3]] > Height[e[3]]

\* remove_disks() removes d before e.
RemovedBefore(d, e) ==
    \/ d[1] < e[1]
    \/ d[1] = e[1] /\ d[2] = "disk" /\ e[2] = "meta"
    \/ d[1] = e[1] /\ d[2] = e[2] /\ TargetRemove(d, e)

\* How far the removal of the devices in s can come: what is removed up to a
\* command that raises, or all.
Reach(s, held) ==
    {gone \in {s} \cup {{d \in s : RemovedBefore(d, e)} : e \in s} :
        \A d \in gone :
            Removable(d, devs \ {e \in s : RemovedBefore(e, d)}, held)}

\* What remove_disks() removes: the devices that Node.disks knows of.
InRemoveDisks == UNION {Made(v, disks[v]) : v \in 1..Len(disks)}

-----------------------------------------------------------------------------
Init ==
    /\ pc = "script"
    /\ backend \in Backends
    /\ storage_pool = FALSE
    /\ disks = <<>>
    /\ group = FALSE
    /\ devs = {}
    /\ snaps = {}
    /\ attached = {}
    /\ faults = {}

\* An exception leaves the script.
Raise(where) ==
    /\ pc' = "node"
    /\ faults' = faults \cup {where}
    /\ UNCHANGED backend

\* The constructor of a pool completes.
PoolMade ==
    /\ storage_pool' = TRUE
    /\ group' = (group \/ backend \in {"lvm", "zfs"})

\* create_storage_pool() of a script that wants it thin, or earlier than the
\* first disk.
CreateStoragePool(thin) ==
    /\ pc = "script"
    /\ ~storage_pool
    /\ ~(backend = "raw" /\ thin)
    /\ PoolMade
    /\ UNCHANGED <<pc, backend, disks, devs, snaps, attached, faults>>

\* vgcreate or zpool fails, or lvcreate of the thin pool after vgcreate: the
\* volume group is there and no object refers to it.
CreateStoragePoolFails(thin) ==
    /\ pc = "script"
    /\ ~storage_pool
    /\ backend \in {"lvm", "zfs"} \/ (backend = "raw" /\ thin)
    /\ group' \in {FALSE, backend = "lvm" /\ thin}
    /\ Raise("pool")
    /\ UNCHANGED <<objects, devs, snaps, attached>>

\* Inputs of Node.add_disk(): the next volume, or one without devices.  The
\* data and metadata of a volume are stacked alike.
MayAdd(v, volume) ==
    /\ v \in 1..(Len(disks) + 1)
    /\ v <= Len(disks) => disks[v] = [disk |-> {}, meta |-> {}]
    /\ volume.meta \in {{}, volume.disk}
    /\ backend = "storage-spaces" => volume.disk \subseteq {"base"}

\* Defect: the metadata's stack is not kept in the object.
AddDiskForgetsMeta(v, volume) ==
    /\ pc = "script"
    /\ MayAdd(v, volume)
    /\ IF storage_pool THEN UNCHANGED <<storage_pool, group>> ELSE PoolMade
    /\ devs' = devs \cup Made(v, volume)
    /\ disks' = [i \in 1..(IF v > Len(disks) THEN v ELSE Len(disks)) |->
                    IF i = v THEN [volume EXCEPT !.meta = {}] ELSE disks[i]]
    /\ UNCHANGED <<pc, backend, snaps, attached, faults>>

\* Node.add_disk(): the pool if there is none, then the devices; the object is
\* put into Node.disks last.
AddDisk(v, volume) ==
    /\ pc = "script"
    /\ MayAdd(v, volume)
    /\ IF storage_pool THEN UNCHANGED <<storage_pool, group>> ELSE PoolMade
    /\ devs' = devs \cup Made(v, volume)
    /\ disks' = [i \in 1..(IF v > Len(disks) THEN v ELSE Len(disks)) |->
                    IF i = v THEN volume ELSE disks[i]]
    /\ UNCHANGED <<pc, backend, snaps, attached, faults>>

\* It raises after some devices were made; for the last one, in a command that
\* follows it (udevadm, partx, blkdiscard).  Nothing refers to them.
AddDiskFails(v, volume) ==
    /\ pc = "script"
    /\ MayAdd(v, volume)
    /\ volume.disk # {}
    /\ IF storage_pool THEN UNCHANGED <<storage_pool, group>> ELSE PoolMade
    /\ \E some \in MadeInPart(v, volume) : devs' = devs \cup some
    /\ Raise("script")
    /\ UNCHANGED <<disks, snaps, attached>>

\* A script removes the disk of a volume that has internal metadata, and makes
\* it diskless.
RemoveDisk(v) ==
    /\ pc = "script"
    /\ v \in 1..Len(disks)
    /\ disks[v].disk # {} /\ disks[v].meta = {}
    /\ Made(v, disks[v]) \in Reach(Made(v, disks[v]), attached)
    /\ Removed(Made(v, disks[v]))
    /\ disks' = [disks EXCEPT ![v].disk = {}]
    /\ UNCHANGED <<pc, backend, storage_pool, attached, faults>>

\* It raises half-way; the object stays.
RemoveDiskFails(v) ==
    /\ pc = "script"
    /\ v \in 1..Len(disks)
    /\ disks[v].disk # {} /\ disks[v].meta = {}
    /\ \E gone \in Reach(Made(v, disks[v]), attached) :
        gone # Made(v, disks[v]) /\ Removed(gone)
    /\ Raise("script")
    /\ UNCHANGED <<objects, attached>>

\* Volume.snapshot(); only LvmVolume and ZfsVolume have it.
Snapshot(v) ==
    /\ pc = "script"
    /\ v \in 1..Len(disks)
    /\ backend \in {"lvm", "zfs"} /\ disks[v].disk = {"base"}
    /\ snaps' = snaps \cup {v}
    /\ UNCHANGED <<pc, backend, objects, group, devs, attached, faults>>

\* drbdadm up or adjust: DRBD opens the devices of all volumes.
Up ==
    /\ pc = "script"
    /\ attached' = {v \in 1..Len(disks) : disks[v].disk # {}}
    /\ UNCHANGED <<pc, backend, objects, devices, faults>>

\* drbdadm detach
Detach(v) ==
    /\ pc = "script"
    /\ v \in attached
    /\ attached' = attached \ {v}
    /\ UNCHANGED <<pc, backend, objects, devices, faults>>

\* drbdadm down
Down ==
    /\ pc = "script"
    /\ attached' = {}
    /\ UNCHANGED <<pc, backend, objects, devices, faults>>

\* resize() or snapshot() of a volume that does not support it, set_delay_ms(),
\* create_md(), or anything else in the script raises.
ScriptFails ==
    /\ pc = "script"
    /\ Raise("script")
    /\ UNCHANGED <<objects, devices, attached>>

\* cluster.teardown(), after which the handlers of atexit run.
EndScript ==
    /\ pc = "script"
    /\ attached = {}
    /\ pc' = "node"
    /\ UNCHANGED <<backend, objects, devices, attached, faults>>

-----------------------------------------------------------------------------
(* Removing pools.                                                         *)

\* remove() of the pool succeeds if nothing in it is open.
PoolRemovable(ds) ==
    backend # "storage-spaces" =>
        \A d \in ds \ Target : ~Busy(d, ds, attached)

\* vgremove, zpool destroy and wipefs take what is in the pool along; for
\* Storage Spaces nothing is done.
PoolRemove(ds) ==
    /\ storage_pool' = FALSE
    /\ devs' = IF backend = "storage-spaces" THEN ds ELSE {}
    /\ snaps' = {v \in snaps : <<v, "disk", "base">> \in devs'}
    /\ group' = FALSE

\* It fails; vgremove may have removed volumes that were not open.
PoolRemoveFails ==
    /\ \E gone \in SUBSET {d \in devs \ Target : ~Busy(d, devs, attached)} :
        /\ backend # "lvm" => gone = {}
        /\ devs' = devs \ gone
        /\ snaps' = {v \in snaps : <<v, "disk", "base">> \in devs'}
    /\ UNCHANGED <<storage_pool, group>>

\* Resource.remove_storage_pool(): remove_disks(), then the pool.
RemoveStoragePool ==
    /\ pc = "script"
    /\ storage_pool
    /\ InRemoveDisks \in Reach(InRemoveDisks, attached)
    /\ PoolRemovable(devs \ InRemoveDisks)
    /\ PoolRemove(devs \ InRemoveDisks)
    /\ disks' = <<>>
    /\ UNCHANGED <<pc, backend, attached, faults>>

\* remove_disks() raises half-way, and Node.disks stays as it is; or the
\* pool's removal raises.
RemoveStoragePoolFails ==
    /\ pc = "script"
    /\ storage_pool
    /\ \E gone \in Reach(InRemoveDisks, attached) :
        /\ Removed(gone)
        /\ disks' = IF gone = InRemoveDisks THEN <<>> ELSE disks
    /\ Raise("script")
    /\ UNCHANGED <<storage_pool, attached>>

-----------------------------------------------------------------------------
(* The handlers of atexit.                                                 *)

\* Defect: Node.cleanup() removes the disks of a resource that is up.
NodeCleanupUp ==
    /\ pc = "node"
    /\ pc' = "host"
    /\ \E gone \in Reach(InRemoveDisks, attached) :
        /\ \A less \in Reach(InRemoveDisks, attached) : less \subseteq gone
        /\ Removed(gone)
        /\ disks' = IF gone = InRemoveDisks THEN <<>> ELSE disks
    /\ UNCHANGED <<backend, storage_pool, attached, faults>>

\* Node.cleanup(): drbdsetup down, then remove_disks(), which ends at the first
\* device that cannot be removed.
NodeCleanup ==
    /\ pc = "node"
    /\ pc' = "host"
    /\ attached' = {}
    /\ \E gone \in Reach(InRemoveDisks, {}) :
        /\ \A less \in Reach(InRemoveDisks, {}) : less \subseteq gone
        /\ Removed(gone)
        /\ disks' = IF gone = InRemoveDisks THEN <<>> ELSE disks
    /\ UNCHANGED <<backend, storage_pool, faults>>

\* drbdsetup down or one of the removals fails.
NodeCleanupFails ==
    /\ pc = "node"
    /\ pc' = "host"
    /\ \/ UNCHANGED <<devices, attached>>
       \/ /\ attached' = {}
          /\ \E gone \in Reach(InRemoveDisks, {}) :
                gone # InRemoveDisks /\ Removed(gone)
    /\ faults' = faults \cup {"cleanup"}
    /\ UNCHANGED <<backend, objects>>

\* Host.cleanup()
HostCleanup ==
    /\ pc = "host"
    /\ pc' = "ended"
    /\ IF ~storage_pool THEN UNCHANGED <<storage_pool, devices>>
       ELSE IF PoolRemovable(devs) THEN PoolRemove(devs) ELSE PoolRemoveFails
    /\ UNCHANGED <<backend, disks, attached, faults>>

\* The pool's removal fails although nothing is open.
HostCleanupFails ==
    /\ pc = "host"
    /\ storage_pool /\ backend # "storage-spaces"
    /\ pc' = "ended"
    /\ PoolRemoveFails
    /\ faults' = faults \cup {"cleanup"}
    /\ UNCHANGED <<backend, disks, attached>>

-----------------------------------------------------------------------------
Next ==
    \/ \E thin \in BOOLEAN :
        CreateStoragePool(thin) \/ CreateStoragePoolFails(thin)
    \/ \E v \in 1..MaxVolumes :
        \/ \E volume \in VolumeType :
            AddDisk(v, volume) \/ AddDiskFails(v, volume)
        \/ RemoveDisk(v) \/ RemoveDiskFails(v) \/ Snapshot(v) \/ Detach(v)
    \/ Up \/ Down \/ ScriptFails \/ EndScript
    \/ RemoveStoragePool \/ RemoveStoragePoolFails
    \/ NodeCleanup \/ NodeCleanupFails \/ HostCleanup \/ HostCleanupFails

Spec == Init /\ [][Next]_vars

-----------------------------------------------------------------------------
\* While the script runs, the devices on the host are those of the objects in
\* Node.disks, through any sequence of add_disk(), remove() and
\* remove_storage_pool(): a later remove_disks() finds all and only these.
RecordedExact == pc = "script" => devs = InRemoveDisks

Gone == devs = {} /\ ~group

\* A test in which no command failed leaves nothing on the host, however its
\* volumes were stacked, removed and added again.  The exception is ZFS:
\* zfs destroy refuses a volume with a snapshot, remove_disks() ends there, and
\* a target of a volume behind it keeps the pool from being destroyed.
NothingLeft ==
    pc = "ended" /\ faults = {} =>
        \/ Gone
        \/ backend = "zfs" /\ snaps # {} /\ devs \cap Target # {}

\* A command of the script failed, none of the clean-up's did: what
\* remove_disks() can no longer find (volumes that add_disk() lost, a removal
\* that stops at a volume removed before) goes with the pool, unless a device
\* mapper target stays behind and holds it.
OnlyTargetsPin ==
    /\ pc = "ended"
    /\ faults \subseteq {"script"}
    /\ backend # "storage-spaces"
    => Gone \/ devs \cap Target # {}
=============================================================================
