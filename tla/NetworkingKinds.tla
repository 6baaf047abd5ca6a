---------------------------- MODULE NetworkingKinds ----------------------------
(***************************************************************************)
(* The resources of services/networking, but for routes and the security   *)
(* groups of a port, which have modules of their own.                      *)
(*                                                                         *)
(* Neutron answers once a request is carried out, so nothing is waited     *)
(* for.  What can go wrong is a step after the POST: the tags go out in a  *)
(* request of their own, and every handler reads the object back at its    *)
(* end.  "attributes" stands for what POST, PUT and GET carry alike.       *)
(***************************************************************************)
EXTENDS Steps

\* pcd_networking_network: the provider segments are sent by the POST only, never read.
NetworkPosts == {"attributes", "segments"}
NetworkPuts == {"attributes"}
NetworkReads == {"attributes", "tags"}
NetworkReplaces == {"segments"}
NetworkCreate ==
    <<PostUnchecked(NetworkPosts), Record, Send({"tags"}), ReadBackOrDrop(NetworkReads)>>
NetworkRead == <<Refresh(NetworkReads)>>
NetworkUpdate == <<SendAll(NetworkPuts), Send({"tags"}), ReadBack(NetworkReads)>>
NetworkDelete == <<Destroy>>
Network == Resource({"attributes", "segments", "tags"}, NetworkReplaces, {},
    NetworkCreate, NetworkRead, NetworkUpdate, NetworkDelete)

\* pcd_networking_subnet: the DELETE is repeated while ports are in use, for 2 minutes.
SubnetPosts == {"attributes", "cidr"}
SubnetPuts == {"attributes"}
SubnetReads == {"attributes", "cidr", "tags"}
SubnetReplaces == {"cidr"}
SubnetCreate ==
    <<Post(SubnetPosts), Record, Send({"tags"}), ReadBackOrDrop(SubnetReads)>>
SubnetRead == <<Refresh(SubnetReads)>>
SubnetUpdate == <<SendAll(SubnetPuts), Send({"tags"}), ReadBack(SubnetReads)>>
SubnetDelete == <<Destroy>>
Subnet == Resource({"attributes", "cidr", "tags"}, SubnetReplaces, {},
    SubnetCreate, SubnetRead, SubnetUpdate, SubnetDelete)

\* pcd_networking_port: fixed_ip and allowed_address_pairs are never read.
PortReads == {"attributes", "tags"}
PortReplaces == {}
PortCreate ==
    <<PostUnchecked({"attributes", "addresses"}), Record, Send({"tags"}), ReadBackOrDrop(PortReads)>>
PortRead == <<Refresh(PortReads)>>
PortUpdate ==
    <<SendWith({}, {"attributes", "addresses"}), Send({"tags"}), ReadBack(PortReads)>>
PortDelete == <<Destroy>>
Port == Resource({"attributes", "addresses", "tags"}, PortReplaces, {},
    PortCreate, PortRead, PortUpdate, PortDelete)

\* pcd_networking_router.  The gateway goes out when it has changed only.
RouterReads == {"attributes", "gateway", "tags"}
RouterCreate ==
    <<Post({"attributes", "gateway"}), Record, Send({"tags"}), ReadBackOrDrop(RouterReads)>>
RouterRead == <<Refresh(RouterReads)>>
RouterUpdate ==
    <<SendWith({"attributes"}, {"gateway"}), Send({"tags"}), ReadBack(RouterReads)>>
RouterDelete == <<Destroy>>
Router == Resource({"attributes", "gateway", "tags"}, {}, {},
    RouterCreate, RouterRead, RouterUpdate, RouterDelete)

\* pcd_networking_router_interface: a PUT adds and a PUT removes it; a change of any
\* argument replaces it.
RouterInterfaceReads == {"attributes"}
RouterInterfaceReplaces == {"attributes"}
RouterInterfaceCreate ==
    <<PostUnchecked({"attributes"}), Record, ReadBackOrDrop(RouterInterfaceReads)>>
RouterInterfaceRead == <<Refresh(RouterInterfaceReads)>>
RouterInterfaceDelete == <<Detach>>
RouterInterface == Resource({"attributes"}, RouterInterfaceReplaces, {"named"},
    RouterInterfaceCreate, RouterInterfaceRead, <<>>, RouterInterfaceDelete)

\* pcd_networking_floatingip: the pool's network is looked up first.
FloatingIPReads == {"attributes", "tags"}
FloatingIPCreate ==
    <<Ask, PostUnchecked({"attributes"}), Record, Send({"tags"}), ReadBackOrDrop(FloatingIPReads)>>
FloatingIPRead == <<Refresh(FloatingIPReads)>>
FloatingIPUpdate == <<Send({"attributes"}), Send({"tags"}), ReadBack(FloatingIPReads)>>
FloatingIPDelete == <<Destroy>>
FloatingIP == Resource({"attributes", "tags"}, {}, {},
    FloatingIPCreate, FloatingIPRead, FloatingIPUpdate, FloatingIPDelete)

\* pcd_networking_floatingip_associate is the port of a floating IP: set, read, cleared.
FloatingIPAssociateReads == {"port"}
FloatingIPAssociateCreate == <<Put({"port"}), Record, ReadBackOrDrop(FloatingIPAssociateReads)>>
FloatingIPAssociateRead == <<Refresh(FloatingIPAssociateReads)>>
FloatingIPAssociateUpdate == <<SendAll({"port"}), ReadBack(FloatingIPAssociateReads)>>
FloatingIPAssociateDelete == <<Detach>>
FloatingIPAssociate == Resource({"port"}, {}, {"named"},
    FloatingIPAssociateCreate, FloatingIPAssociateRead, FloatingIPAssociateUpdate,
    FloatingIPAssociateDelete)

\* pcd_networking_secgroup: delete_default_rules takes requests of its own.
SecgroupReads == {"attributes", "tags"}
SecgroupCreate ==
    <<Post({"attributes"}), Record, Ask, Send({"tags"}), ReadBackOrDrop(SecgroupReads)>>
SecgroupRead == <<Refresh(SecgroupReads)>>
SecgroupUpdate == <<SendAll({"attributes"}), Send({"tags"}), ReadBack(SecgroupReads)>>
SecgroupDelete == <<Destroy>>
Secgroup == Resource({"attributes", "tags"}, {}, {},
    SecgroupCreate, SecgroupRead, SecgroupUpdate, SecgroupDelete)

\* pcd_networking_secgroup_rule: the POST's answer is the row; any change replaces it.
SecgroupRuleReads == {"attributes"}
SecgroupRuleReplaces == {"attributes"}
SecgroupRuleCreate == <<Post({"attributes"})>>
SecgroupRuleRead == <<Refresh(SecgroupRuleReads)>>
SecgroupRuleDelete == <<Destroy>>
SecgroupRule == Resource({"attributes"}, SecgroupRuleReplaces, {"named"},
    SecgroupRuleCreate, SecgroupRuleRead, <<>>, SecgroupRuleDelete)

\* pcd_networking_qos_policy.
QosPolicyReads == {"attributes", "tags"}
QosPolicyCreate ==
    <<Post({"attributes"}), Record, Send({"tags"}), ReadBackOrDrop(QosPolicyReads)>>
QosPolicyRead == <<Refresh(QosPolicyReads)>>
QosPolicyUpdate == <<SendWith({}, {"attributes"}), Send({"tags"}), ReadBack(QosPolicyReads)>>
QosPolicyDelete == <<Destroy>>
QosPolicy == Resource({"attributes", "tags"}, {}, {},
    QosPolicyCreate, QosPolicyRead, QosPolicyUpdate, QosPolicyDelete)

\* The three rules of a QoS policy, one of a type and direction at a time.
QosBandwidthLimitRuleReads == {"attributes"}
QosBandwidthLimitRuleCreate == <<Post({"attributes"}), Record, ReadBackOrDrop(QosBandwidthLimitRuleReads)>>
QosBandwidthLimitRuleRead == <<Refresh(QosBandwidthLimitRuleReads)>>
QosBandwidthLimitRuleUpdate == <<SendWith({}, {"attributes"}), ReadBack(QosBandwidthLimitRuleReads)>>
QosBandwidthLimitRuleDelete == <<Destroy>>
QosBandwidthLimitRule == Resource({"attributes"}, {}, {"named"},
    QosBandwidthLimitRuleCreate, QosBandwidthLimitRuleRead, QosBandwidthLimitRuleUpdate,
    QosBandwidthLimitRuleDelete)

QosDscpMarkingRuleReads == {"attributes"}
QosDscpMarkingRuleCreate == <<Post({"attributes"}), Record, ReadBackOrDrop(QosDscpMarkingRuleReads)>>
QosDscpMarkingRuleRead == <<Refresh(QosDscpMarkingRuleReads)>>
QosDscpMarkingRuleUpdate == <<SendAll({"attributes"}), ReadBack(QosDscpMarkingRuleReads)>>
QosDscpMarkingRuleDelete == <<Destroy>>
QosDscpMarkingRule == Resource({"attributes"}, {}, {"named"},
    QosDscpMarkingRuleCreate, QosDscpMarkingRuleRead, QosDscpMarkingRuleUpdate,
    QosDscpMarkingRuleDelete)

QosMinimumBandwidthRuleReads == {"attributes"}
QosMinimumBandwidthRuleCreate == <<Post({"attributes"}), Record, ReadBackOrDrop(QosMinimumBandwidthRuleReads)>>
QosMinimumBandwidthRuleRead == <<Refresh(QosMinimumBandwidthRuleReads)>>
QosMinimumBandwidthRuleUpdate == <<SendWith({}, {"attributes"}), ReadBack(QosMinimumBandwidthRuleReads)>>
QosMinimumBandwidthRuleDelete == <<Destroy>>
QosMinimumBandwidthRule == Resource({"attributes"}, {}, {"named"},
    QosMinimumBandwidthRuleCreate, QosMinimumBandwidthRuleRead, QosMinimumBandwidthRuleUpdate,
    QosMinimumBandwidthRuleDelete)

\* pcd_networking_quota: the project's limits are set, and left as they are by Delete.
NetworkingQuotaReads == {"attributes"}
NetworkingQuotaCreate == <<Put({"attributes"}), ReadBack(NetworkingQuotaReads)>>
NetworkingQuotaRead == <<Refresh(NetworkingQuotaReads)>>
NetworkingQuotaUpdate == <<SendWith({}, {"attributes"}), ReadBack(NetworkingQuotaReads)>>
NetworkingQuotaDelete == <<>>
NetworkingQuota == Resource({"attributes"}, {}, {"named", "standing", "unheld"},
    NetworkingQuotaCreate, NetworkingQuotaRead, NetworkingQuotaUpdate, NetworkingQuotaDelete)

NetworkingKinds == [
    network |-> Network, subnet |-> Subnet, port |-> Port, router |-> Router,
    routerInterface |-> RouterInterface, floatingip |-> FloatingIP,
    floatingipAssociate |-> FloatingIPAssociate, secgroup |-> Secgroup,
    secgroupRule |-> SecgroupRule, qosPolicy |-> QosPolicy,
    qosBandwidthLimitRule |-> QosBandwidthLimitRule,
    qosDscpMarkingRule |-> QosDscpMarkingRule,
    qosMinimumBandwidthRule |-> QosMinimumBandwidthRule,
    networkingQuota |-> NetworkingQuota]
=============================================================================
