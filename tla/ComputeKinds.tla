----------------------------- MODULE ComputeKinds -----------------------------
(***************************************************************************)
(* The resources of services/compute, but for the instance, which has      *)
(* modules of its own.                                                     *)
(***************************************************************************)
EXTENDS Steps

\* pcd_compute_flavor: the extra specs have requests of their own, by key.
FlavorReads == {"attributes"}
FlavorReplaces == {"attributes"}
refreshExtraSpecs == ReadBack({"extra_specs"})
FlavorCreate ==
    <<Post({"attributes"}), Record, Send({"extra_specs"}), refreshExtraSpecs>>
FlavorRead == <<Refresh(FlavorReads), refreshExtraSpecs>>
FlavorUpdate == <<Drop({"extra_specs"}), Add({"extra_specs"}), refreshExtraSpecs>>
FlavorDelete == <<Destroy>>
Flavor == Resource({"attributes", "extra_specs"}, FlavorReplaces, {"named"},
    FlavorCreate, FlavorRead, FlavorUpdate, FlavorDelete)

\* pcd_compute_flavor_access is the pair of a flavor and a project, adopted when it is
\* there; whether it is, the list of pairs says.
flavorAccessExists == Refresh({})
FlavorAccessCreate == <<Ask, PostOrAdopt({})>>
FlavorAccessRead == <<flavorAccessExists>>
FlavorAccessDelete == <<Destroy>>
FlavorAccess == Resource({}, {}, {"named"},
    FlavorAccessCreate, FlavorAccessRead, <<>>, FlavorAccessDelete)

\* pcd_compute_keypair and pcd_compute_servergroup: the POST's answer is the row, and
\* any change replaces it.
KeypairReads == {"attributes"}
KeypairReplaces == {"attributes"}
KeypairCreate == <<Post({"attributes"})>>
KeypairRead == <<Refresh(KeypairReads)>>
KeypairDelete == <<Destroy>>
Keypair == Resource({"attributes"}, KeypairReplaces, {"named"},
    KeypairCreate, KeypairRead, <<>>, KeypairDelete)

ServergroupReads == {"attributes"}
ServergroupReplaces == {"attributes"}
ServergroupCreate == <<Post({"attributes"})>>
ServergroupRead == <<Refresh(ServergroupReads)>>
ServergroupDelete == <<Destroy>>
Servergroup == Resource({"attributes"}, ServergroupReplaces, {},
    ServergroupCreate, ServergroupRead, <<>>, ServergroupDelete)

\* pcd_compute_quotaset: the project's limits are set, and left as they are by Delete.
ComputeQuotaReads == {"attributes"}
ComputeQuotaCreate == <<Put({"attributes"}), ReadBack(ComputeQuotaReads)>>
ComputeQuotaRead == <<Refresh(ComputeQuotaReads)>>
ComputeQuotaUpdate == <<SendWith({}, {"attributes"}), ReadBack(ComputeQuotaReads)>>
ComputeQuotaDelete == <<>>
ComputeQuota == Resource({"attributes"}, {}, {"named", "standing", "unheld"},
    ComputeQuotaCreate, ComputeQuotaRead, ComputeQuotaUpdate, ComputeQuotaDelete)

\* pcd_compute_aggregate: hosts are added and removed one request at a time, metadata
\* is set by key; Nova refuses the DELETE of an aggregate that has hosts.  (A zone that
\* is removed replaces the aggregate; here it is changed in place.)
AggregateReads == {"attributes", "hosts", "metadata"}
getAggregate == ReadBack(AggregateReads)
AggregateCreate ==
    <<Post({"attributes"}), Record, Send({"hosts"}), Send({"metadata"}), getAggregate>>
AggregateRead == <<Refresh(AggregateReads)>>
removeAggregateHost == Drop({"hosts"})
addAggregateHost == Add({"hosts"})
AggregateUpdate ==
    <<removeAggregateHost, Send({"attributes"}), addAggregateHost, Send({"metadata"}),
      getAggregate>>
AggregateDelete == <<Ask, Clear({"hosts"}), Destroy>>
Aggregate == [Resource(AggregateReads, {}, {"named"},
        AggregateCreate, AggregateRead, AggregateUpdate, AggregateDelete)
    EXCEPT !.blocks = {"hosts"}]

\* pcd_compute_service is the status of a host's nova-compute, which was there before:
\* waited for, set, and enabled again by Delete.
ComputeServiceReads == {"status"}
waitForComputeService == Ask
ComputeServiceCreate == <<waitForComputeService, Put({"status"})>>
ComputeServiceRead == <<Refresh(ComputeServiceReads)>>
ComputeServiceUpdate == <<Ask, SendAll({"status"})>>
ComputeServiceDelete == <<Ask, Clear({"status"})>>
ComputeService == Resource({"status"}, {}, {"named", "standing", "unheld"},
    ComputeServiceCreate, ComputeServiceRead, ComputeServiceUpdate, ComputeServiceDelete)

\* pcd_compute_interface_attach: the wait for the detachment repeats the DELETE.
InterfaceAttachReads == {"attributes"}
InterfaceAttachReplaces == {"attributes"}
waitForInterfaceDetached == AwaitGoneAgain
InterfaceAttachCreate == <<Post({"attributes"})>>
InterfaceAttachRead == <<Refresh(InterfaceAttachReads)>>
InterfaceAttachDelete == <<Destroy, waitForInterfaceDetached>>
InterfaceAttach == Resource({"attributes"}, InterfaceAttachReplaces, {"lingers"},
    InterfaceAttachCreate, InterfaceAttachRead, <<>>, InterfaceAttachDelete)

\* pcd_compute_volume_attach: Cinder is polled for both ends of it, and what it says is
\* not insisted on.
VolumeAttachReads == {"attributes", "delete_on_termination"}
VolumeAttachReplaces == {"attributes"}
updateDeleteOnTermination == SendAll({"delete_on_termination"})
VolumeAttachCreate == <<Post(VolumeAttachReads), AwaitBriefly>>
VolumeAttachRead == <<Refresh(VolumeAttachReads)>>
VolumeAttachUpdate ==
    <<Ask, updateDeleteOnTermination, ReadBack({"delete_on_termination"})>>
VolumeAttachDelete == <<Destroy, AwaitGoneBriefly>>
VolumeAttach == Resource(VolumeAttachReads, VolumeAttachReplaces,
    {"named", "lingers", "unheld"},
    VolumeAttachCreate, VolumeAttachRead, VolumeAttachUpdate, VolumeAttachDelete)

\* pcd_compute_instance_rescue is a server's rescue mode: entered, awaited, and left.
InstanceRescueReplaces == {"image"}
InstanceRescueCreate == <<Post({"image"}), Record, Await({})>>
InstanceRescueRead == <<Refresh({})>>
InstanceRescueDelete == <<Detach, AwaitGone>>
InstanceRescue == Resource({"image"}, InstanceRescueReplaces, {"named", "built", "lingers"},
    InstanceRescueCreate, InstanceRescueRead, <<>>, InstanceRescueDelete)

\* pcd_compute_instance_snapshot: an image Nova makes, and for a volume-backed server
\* volume snapshots, which are waited for and deleted after it.
InstanceSnapshotReads == {"name"}
waitForSnapshotImage == AwaitOrDrop({})
waitForVolumeSnapshots == Ask
waitForServerReady == Ask
InstanceSnapshotCreate ==
    <<Post({"name"}), Record, waitForSnapshotImage, waitForVolumeSnapshots,
      waitForServerReady>>
InstanceSnapshotRead == <<Refresh(InstanceSnapshotReads)>>
InstanceSnapshotUpdate == <<Send({"name"}), ReadBack(InstanceSnapshotReads)>>
InstanceSnapshotDelete == <<Destroy, Ask>>
InstanceSnapshot == Resource({"name"}, {}, {"built"},
    InstanceSnapshotCreate, InstanceSnapshotRead, InstanceSnapshotUpdate,
    InstanceSnapshotDelete)

ComputeKinds == [
    flavor |-> Flavor, flavorAccess |-> FlavorAccess, keypair |-> Keypair,
    servergroup |-> Servergroup, computeQuota |-> ComputeQuota, aggregate |-> Aggregate,
    computeService |-> ComputeService, interfaceAttach |-> InterfaceAttach,
    volumeAttach |-> VolumeAttach, instanceRescue |-> InstanceRescue,
    instanceSnapshot |-> InstanceSnapshot]
=============================================================================
