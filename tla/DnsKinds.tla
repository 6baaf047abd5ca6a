------------------------------- MODULE DnsKinds -------------------------------
(***************************************************************************)
(* The resources of services/dns.  Designate answers PENDING and carries   *)
(* out every create, change and delete afterwards; all three are waited    *)
(* for (dns.go).                                                           *)
(***************************************************************************)
EXTENDS Steps

\* pcd_dns_zone.
ZoneReads == {"attributes"}
waitForZoneActive == Await({})
waitForZoneDeleted == AwaitGone
ZoneCreate ==
    <<PostUnchecked(ZoneReads), Record, waitForZoneActive, ReadBackOrDrop(ZoneReads)>>
ZoneRead == <<Refresh(ZoneReads)>>
ZoneUpdate == <<SendWork(ZoneReads), waitForZoneActive, ReadBack(ZoneReads)>>
ZoneDelete == <<Destroy, waitForZoneDeleted>>
Zone == Resource(ZoneReads, {}, {"named", "built", "lingers"},
    ZoneCreate, ZoneRead, ZoneUpdate, ZoneDelete)

\* pcd_dns_recordset: the records are sent by POST and PUT and never read.
RecordsetReads == {"attributes"}
RecordsetSends == {"attributes", "records"}
waitForRecordSetActive == Await({})
waitForRecordSetDeleted == AwaitGone
RecordsetCreate ==
    <<PostUnchecked(RecordsetSends), Record, waitForRecordSetActive,
      ReadBackOrDrop(RecordsetReads)>>
RecordsetRead == <<Refresh(RecordsetReads)>>
RecordsetUpdate ==
    <<SendWork(RecordsetSends), waitForRecordSetActive, ReadBack(RecordsetReads)>>
RecordsetDelete == <<Destroy, waitForRecordSetDeleted>>
Recordset == Resource(RecordsetSends, {}, {"named", "built", "lingers"},
    RecordsetCreate, RecordsetRead, RecordsetUpdate, RecordsetDelete)

DnsKinds == [zone |-> Zone, recordset |-> Recordset]
=============================================================================
