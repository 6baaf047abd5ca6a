------------------------------ MODULE ResmgrKinds ------------------------------
(***************************************************************************)
(* The resources of services/resmgr that are one object each: cluster,     *)
(* blueprint and a host's role by name.  Host configs, their assignments   *)
(* and cluster roles have modules of their own.                            *)
(*                                                                         *)
(* A cluster and a blueprint answer with computed settings mixed into the  *)
(* configured ones, so the configured ones are kept in the row as they     *)
(* are and no GET shows whether they are there.                            *)
(***************************************************************************)
EXTENDS Steps

\* pcd_cluster: on a freshly deployed region the resource manager answers 500 until the
\* compute control plane is warm, and the POST is repeated for eight minutes.
ClusterReads == {}
ClusterCreate == <<PostRepeated({"attributes"}), Record, ReadBackOrWarn(ClusterReads)>>
ClusterRead == <<Refresh(ClusterReads)>>
ClusterUpdate == <<SendAll({"attributes"}), ReadBackOrWarn(ClusterReads)>>
ClusterDelete == <<Destroy>>
Cluster == Resource({"attributes"}, {}, {"named"},
    ClusterCreate, ClusterRead, ClusterUpdate, ClusterDelete)

\* pcd_blueprint: a POST that leaves out vnc is followed by a PUT of it; a PUT is merged
\* over what a GET says is stored.
BlueprintReads == {"attributes", "vnc"}
overStored == Ask
BlueprintCreate == <<Post({"attributes"}), Record, Send({"vnc"}), ReadBackOrWarn({})>>
BlueprintRead == <<Refresh(BlueprintReads)>>
BlueprintUpdate == <<overStored, SendAll(BlueprintReads), ReadBackOrWarn({})>>
BlueprintDelete == <<Destroy>>
Blueprint == Resource(BlueprintReads, {}, {"named"},
    BlueprintCreate, BlueprintRead, BlueprintUpdate, BlueprintDelete)

\* pcd_host_role: a role is put on a host and deleted from it.
hostHasRole == Refresh({})
HostRoleCreate == <<Put({})>>
HostRoleRead == <<hostHasRole>>
HostRoleDelete == <<Destroy>>
HostRole == Resource({}, {}, {"named"},
    HostRoleCreate, HostRoleRead, <<>>, HostRoleDelete)

ResmgrKinds == [cluster |-> Cluster, blueprint |-> Blueprint, hostRole |-> HostRole]
=============================================================================
