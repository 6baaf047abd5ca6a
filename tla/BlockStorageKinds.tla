--------------------------- MODULE BlockStorageKinds ---------------------------
(***************************************************************************)
(* The resources of services/blockstorage.  Cinder builds, extends,        *)
(* retypes and deletes in its own time, so these handlers wait, and what   *)
(* they wait for may break or come back as it was.                         *)
(***************************************************************************)
EXTENDS Steps

\* pcd_blockstorage_volume: the PUT carries name, description and metadata; a new size
\* or type is a request of its own, and a retype Cinder gives up shows in the row.
VolumeReads == {"attributes", "size", "type"}
VolumeExtend == <<SendWork({"size"}), Await({})>>
VolumeRetype == <<SendWorkIfUnlike({"type"}), AwaitOrSave({"type"})>>
VolumeCreate == <<PostUnchecked(VolumeReads), Record, Await({}), ReadBack(VolumeReads)>>
VolumeRead == <<Refresh(VolumeReads)>>
VolumeUpdate ==
    <<Send({"attributes"})>> \o VolumeExtend \o VolumeRetype \o <<ReadBack(VolumeReads)>>
VolumeDelete == <<Destroy, AwaitGone>>
Volume == [Resource({"attributes", "size", "type"}, {}, {"built", "reverts", "lingers"},
        VolumeCreate, VolumeRead, VolumeUpdate, VolumeDelete)
    EXCEPT !.grows = {"size"}]

\* pcd_blockstorage_snapshot: force is sent by the POST only and never read.
SnapshotReads == {"attributes", "metadata"}
SnapshotReplaces == {"force"}
SnapshotCreate == <<Post({"attributes", "metadata", "force"}), Record, Await({})>>
SnapshotRead == <<Refresh(SnapshotReads)>>
SnapshotUpdate == <<Send({"attributes"}), Send({"metadata"}), ReadBack(SnapshotReads)>>
SnapshotDelete == <<Destroy, AwaitGone>>
Snapshot == Resource({"attributes", "metadata", "force"}, SnapshotReplaces,
    {"built", "lingers"}, SnapshotCreate, SnapshotRead, SnapshotUpdate, SnapshotDelete)

\* pcd_blockstorage_volume_backup: a 404 of the DELETE counts once a GET agrees.
BackupReads == {"attributes"}
BackupReplaces == {"force"}
BackupCreate == <<PostUnchecked({"attributes", "force"}), Record, Await({})>>
BackupRead == <<Refresh(BackupReads)>>
BackupUpdate == <<Send({"attributes"}), ReadBack(BackupReads)>>
BackupDelete == <<Destroy, AwaitGone>>
Backup == Resource({"attributes", "force"}, BackupReplaces, {"built", "lingers"},
    BackupCreate, BackupRead, BackupUpdate, BackupDelete)

\* pcd_blockstorage_volume_type: Read asks twice, and takes only the first 404 for the
\* end of it.
VolumeTypeReads == {"attributes", "extra_specs"}
VolumeTypeCreate == <<PostUnchecked(VolumeTypeReads)>>
VolumeTypeRead == <<Refresh({}), ReadBack(VolumeTypeReads)>>
syncExtraSpecs == Send({"extra_specs"})
VolumeTypeUpdate == <<Send({"attributes"}), syncExtraSpecs, ReadBack(VolumeTypeReads)>>
VolumeTypeDelete == <<Destroy>>
VolumeType == Resource({"attributes", "extra_specs"}, {}, {"named"},
    VolumeTypeCreate, VolumeTypeRead, VolumeTypeUpdate, VolumeTypeDelete)

\* pcd_blockstorage_volume_type_access is the pair of a type and a project, adopted when
\* it is there; a type that has become public has no access list, and Delete warns.
volumeTypeAccessExists == Refresh({})
VolumeTypeAccessCreate == <<PostOrAdopt({})>>
VolumeTypeAccessRead == <<volumeTypeAccessExists>>
VolumeTypeAccessDelete == <<DestroyOrWarn>>
VolumeTypeAccess == Resource({}, {}, {"named", "unheld"},
    VolumeTypeAccessCreate, VolumeTypeAccessRead, <<>>, VolumeTypeAccessDelete)

\* pcd_blockstorage_volume_transfer: an offer that nobody has accepted yet.
VolumeTransferReads == {"attributes"}
VolumeTransferReplaces == {"attributes"}
VolumeTransferCreate == <<Post({"attributes"}), Record>>
VolumeTransferRead == <<Refresh(VolumeTransferReads)>>
VolumeTransferDelete == <<Destroy>>
VolumeTransfer == Resource({"attributes"}, VolumeTransferReplaces, {"named"},
    VolumeTransferCreate, VolumeTransferRead, <<>>, VolumeTransferDelete)

\* pcd_blockstorage_volume_transfer_accept cannot be read, repeated or undone.
VolumeTransferAcceptReplaces == {"attributes"}
VolumeTransferAcceptCreate == <<Post({"attributes"})>>
VolumeTransferAcceptRead == <<>>
VolumeTransferAcceptDelete == <<>>
VolumeTransferAccept == Resource({"attributes"}, VolumeTransferAcceptReplaces,
    {"named", "unheld"}, VolumeTransferAcceptCreate, VolumeTransferAcceptRead, <<>>,
    VolumeTransferAcceptDelete)

\* pcd_blockstorage_quotaset: set, and left as it is by Delete.
BlockStorageQuotaReads == {"attributes"}
BlockStorageQuotaCreate == <<Put({"attributes"}), ReadBack(BlockStorageQuotaReads)>>
BlockStorageQuotaRead == <<Refresh(BlockStorageQuotaReads)>>
BlockStorageQuotaUpdate == <<SendWith({}, {"attributes"}), ReadBack(BlockStorageQuotaReads)>>
BlockStorageQuotaDelete == <<>>
BlockStorageQuota == Resource({"attributes"}, {}, {"named", "standing", "unheld"},
    BlockStorageQuotaCreate, BlockStorageQuotaRead, BlockStorageQuotaUpdate,
    BlockStorageQuotaDelete)

BlockStorageKinds == [
    volume |-> Volume, snapshot |-> Snapshot, backup |-> Backup,
    volumeType |-> VolumeType, volumeTypeAccess |-> VolumeTypeAccess,
    volumeTransfer |-> VolumeTransfer, volumeTransferAccept |-> VolumeTransferAccept,
    blockStorageQuota |-> BlockStorageQuota]
=============================================================================
