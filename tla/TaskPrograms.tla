----------------------------- MODULE TaskPrograms -----------------------------
(***************************************************************************)
(* What the tasks of the seven kinds of entities do: their libvirt calls,  *)
(* in order, one definition per method of the ControlThreads.  TaskMachine *)
(* says what a statement does.  The early return of every method on a null *)
(* connection is that of TaskMachine!ExecAction.                           *)
(***************************************************************************)
EXTENDS Sequences

Stmt(do, on, obj) == [do |-> do, on |-> on, obj |-> obj]

Lookup(k)        == Stmt("get", "conn", k)        \* vir...LookupBy...
LookupIn(on, k)  == Stmt("get", on, k)
ListAll(on, k)   == Stmt("need", on, k)           \* ...ListAll...; one object of them
MakeIn(on, k)    == Stmt("make", on, k)           \* ...CreateXML, ...DefineXML, or return
ActOn(on)        == Stmt("act", on, "none")
TryOn(on)        == Stmt("try", on, "none")
AskOf(on)        == Stmt("ask", on, "none")
Free(k)          == Stmt("free", k, "none")
FileRead         == Stmt("file", "here", "none")  \* the description, or return
FileOpen         == Stmt("open", "here", "none")
FileTemp         == Stmt("temp", "here", "none")
Succeed          == Stmt("done", "here", "none")

\* The shapes that most methods have.
Change(k)   == <<Lookup(k), ActOn(k), Free(k)>>
FromFile(k) == <<FileRead, MakeIn("conn", k), TryOn(k), Free(k)>>
Describe(k) == <<Lookup(k), AskOf(k), Free(k), FileTemp>>
List(k)     == <<ListAll("conn", k), TryOn(k), Free(k), Succeed>>

----------------------------------------------------------------------------
(* DomControlThread                                                        *)

getAllDomainList      == List("domain")
\* The type of the connection decides; the domain is not freed.
getDomainData0        == <<AskOf("conn"), Lookup("domain"), TryOn("domain")>>
\* The same, and a result that is true whatever came back.
getDomainData1        == <<AskOf("conn"), Lookup("domain"), TryOn("domain"), Succeed>>
createDomain          == FromFile("domain")
defineDomain          == FromFile("domain")
\* Mutant: the domain is given back before it is started.
startDomainFreed      == <<Lookup("domain"), Free("domain"), ActOn("domain")>>
startDomain           == Change("domain")
\* virDomainGetState, then suspend, resume, or neither.
pauseDomain           == <<Lookup("domain"), TryOn("domain"), ActOn("domain"), Free("domain")>>
destroyDomain         == Change("domain")
resetDomain           == Change("domain")
rebootDomain          == Change("domain")
shutdownDomain        == Change("domain")
saveDomain            == <<Lookup("domain"), TryOn("domain"), ActOn("domain"), Free("domain")>>
restoreDomain         == <<ActOn("conn")>>
undefineDomain        == Change("domain")
changeAutoStartDomain == Change("domain")
getDomainXMLDesc      == Describe("domain")
\* The downtime is tried first; the new domain that comes back is freed at once.
migrateDomain         == <<Lookup("domain"), TryOn("domain"), ActOn("domain"), Free("domain")>>
\* The snapshot that comes back is freed at once.
createSnapshoteDomain == <<Lookup("domain"), ActOn("domain"), Free("domain")>>
\* Mutant: the snapshot is not given back.
revertSnapshotKept    == <<Lookup("domain"), LookupIn("domain", "snapshot"),
                           ActOn("snapshot"), Free("domain")>>
revertSnapshoteDomain == <<Lookup("domain"), LookupIn("domain", "snapshot"),
                           ActOn("snapshot"), Free("snapshot"), Free("domain")>>
deleteSnapshoteDomain == <<Lookup("domain"), LookupIn("domain", "snapshot"),
                           ActOn("snapshot"), Free("snapshot"), Free("domain")>>

----------------------------------------------------------------------------
(* NetControlThread                                                        *)

getAllNetworkList      == List("network")
createNetwork          == FromFile("network")
defineNetwork          == FromFile("network")
startNetwork           == Change("network")
destroyNetwork         == Change("network")
undefineNetwork        == Change("network")
changeAutoStartNetwork == Change("network")
getVirtNetXMLDesc      == Describe("network")

----------------------------------------------------------------------------
(* StoragePoolControlThread                                                *)

getAllStoragePoolList      == List("pool")
getAllStoragePoolDataList  == List("pool")
createStoragePool          == FromFile("pool")
defineStoragePool          == FromFile("pool")
startStoragePool           == Change("pool")
destroyStoragePool         == Change("pool")
undefineStoragePool        == Change("pool")
changeAutoStartStoragePool == Change("pool")
deleteStoragePool          == Change("pool")
getStoragePoolXMLDesc      == Describe("pool")

----------------------------------------------------------------------------
(* StorageVolControlThread.  currStoragePool is freed by stop() only, which *)
(* nobody calls.                                                           *)

OnVolume(stmts)      == <<Lookup("pool"), LookupIn("pool", "volume")>> \o stmts \o <<Free("volume")>>
Transfer(how)        == <<Lookup("pool"), FileOpen, Lookup("stream"), LookupIn("pool", "volume"),
                          AskOf("volume"), Stmt(how, "volume", "none"),
                          Free("volume"), Free("stream")>>

\* A pool that is not found gives an empty list, and a true result.
getAllStorageVolList  == <<Lookup("pool"), ListAll("pool", "volume"), TryOn("volume"),
                           Free("volume"), Succeed>>
createStorageVol      == <<FileRead, Lookup("pool"), MakeIn("pool", "volume"), TryOn("volume"),
                           Free("volume")>>
deleteStorageVol      == OnVolume(<<ActOn("volume")>>)
downloadStorageVol    == Transfer("receive")
resizeStorageVol      == OnVolume(<<ActOn("volume")>>)
uploadStorageVol      == Transfer("send")
wipeStorageVol        == OnVolume(<<ActOn("volume")>>)
refreshStorageVolList == <<Lookup("pool"), ActOn("pool")>>
getStorageVolXMLDesc  == OnVolume(<<AskOf("volume")>>) \o <<FileTemp>>

----------------------------------------------------------------------------
(* SecretControlThread                                                     *)

getAllSecretList     == List("secret")
\* A value that cannot be set is told in the message, not in the result.
defineSecret         == FromFile("secret")
undefineSecret       == Change("secret")
getVirtSecretXMLDesc == Describe("secret")

----------------------------------------------------------------------------
(* InterfaceControlThread                                                  *)

getAllIfaceList     == List("iface")
startIface          == Change("iface")
destroyIface        == Change("iface")
defineIface         == FromFile("iface")
undefineIface       == Change("iface")
ifaceChangeBegin    == <<ActOn("conn")>>
ifaceChangeCommit   == <<ActOn("conn")>>
ifaceChangeRollback == <<ActOn("conn")>>
getVirtIfaceXMLDesc == Describe("iface")

----------------------------------------------------------------------------
(* NWFilterControlThread                                                   *)

getAllNWFilterList     == List("filter")
defineNWFilter         == FromFile("filter")
undefineNWFilter       == Change("filter")
getVirtNWFilterXMLDesc == Describe("filter")

----------------------------------------------------------------------------
(* run() of each thread: which method an action calls.                     *)

DomRun ==
    [GET_ALL_ENTITY_STATE      |-> getAllDomainList,
     GET_ALL_ENTITY_DATA0      |-> getDomainData0,
     GET_ALL_ENTITY_DATA1      |-> getDomainData1,
     CREATE_ENTITY             |-> createDomain,
     DEFINE_ENTITY             |-> defineDomain,
     EDIT_ENTITY               |-> getDomainXMLDesc,
     START_ENTITY              |-> startDomain,
     PAUSE_ENTITY              |-> pauseDomain,
     DESTROY_ENTITY            |-> destroyDomain,
     RESET_ENTITY              |-> resetDomain,
     REBOOT_ENTITY             |-> rebootDomain,
     SHUTDOWN_ENTITY           |-> shutdownDomain,
     SAVE_ENTITY               |-> saveDomain,
     RESTORE_ENTITY            |-> restoreDomain,
     UNDEFINE_ENTITY           |-> undefineDomain,
     CHANGE_ENTITY_AUTOSTART   |-> changeAutoStartDomain,
     GET_XML_DESCRIPTION       |-> getDomainXMLDesc,
     MIGRATE_ENTITY            |-> migrateDomain,
     CREATE_DOMAIN_SNAPSHOT    |-> createSnapshoteDomain,
     REVERT_TO_DOMAIN_SNAPSHOT |-> revertSnapshoteDomain,
     DELETE_DOMAIN_SNAPSHOT    |-> deleteSnapshoteDomain]

NetRun ==
    [GET_ALL_ENTITY_STATE    |-> getAllNetworkList,
     CREATE_ENTITY           |-> createNetwork,
     DEFINE_ENTITY           |-> defineNetwork,
     EDIT_ENTITY             |-> getVirtNetXMLDesc,
     START_ENTITY            |-> startNetwork,
     DESTROY_ENTITY          |-> destroyNetwork,
     UNDEFINE_ENTITY         |-> undefineNetwork,
     CHANGE_ENTITY_AUTOSTART |-> changeAutoStartNetwork,
     GET_XML_DESCRIPTION     |-> getVirtNetXMLDesc]

PoolRun ==
    [GET_ALL_ENTITY_STATE    |-> getAllStoragePoolList,
     GET_ALL_ENTITY_DATA0    |-> getAllStoragePoolDataList,
     CREATE_ENTITY           |-> createStoragePool,
     DEFINE_ENTITY           |-> defineStoragePool,
     START_ENTITY            |-> startStoragePool,
     DESTROY_ENTITY          |-> destroyStoragePool,
     UNDEFINE_ENTITY         |-> undefineStoragePool,
     CHANGE_ENTITY_AUTOSTART |-> changeAutoStartStoragePool,
     DELETE_ENTITY           |-> deleteStoragePool,
     GET_XML_DESCRIPTION     |-> getStoragePoolXMLDesc]

VolRun ==
    [GET_ALL_ENTITY_STATE |-> getAllStorageVolList,
     CREATE_ENTITY        |-> createStorageVol,
     DELETE_ENTITY        |-> deleteStorageVol,
     DOWNLOAD_ENTITY      |-> downloadStorageVol,
     UPLOAD_ENTITY        |-> uploadStorageVol,
     RESIZE_ENTITY        |-> resizeStorageVol,
     WIPE_ENTITY          |-> wipeStorageVol,
     REFRESH_ENTITY       |-> refreshStorageVolList,
     GET_XML_DESCRIPTION  |-> getStorageVolXMLDesc]

SecretRun ==
    [GET_ALL_ENTITY_STATE |-> getAllSecretList,
     DEFINE_ENTITY        |-> defineSecret,
     UNDEFINE_ENTITY      |-> undefineSecret,
     GET_XML_DESCRIPTION  |-> getVirtSecretXMLDesc]

IfaceRun ==
    [GET_ALL_ENTITY_STATE  |-> getAllIfaceList,
     START_ENTITY          |-> startIface,
     DESTROY_ENTITY        |-> destroyIface,
     DEFINE_ENTITY         |-> defineIface,
     UNDEFINE_ENTITY       |-> undefineIface,
     IFACE_CHANGE_BEGIN    |-> ifaceChangeBegin,
     IFACE_CHANGE_COMMIT   |-> ifaceChangeCommit,
     IFACE_CHANGE_ROLLBACK |-> ifaceChangeRollback,
     GET_XML_DESCRIPTION   |-> getVirtIfaceXMLDesc]

FilterRun ==
    [GET_ALL_ENTITY_STATE |-> getAllNWFilterList,
     DEFINE_ENTITY        |-> defineNWFilter,
     UNDEFINE_ENTITY      |-> undefineNWFilter,
     EDIT_ENTITY          |-> getVirtNWFilterXMLDesc,
     GET_XML_DESCRIPTION  |-> getVirtNWFilterXMLDesc]

\* Which thread serves an entity.
Run ==
    [VIRT_DOMAIN         |-> DomRun,    VIRT_NETWORK        |-> NetRun,
     VIRT_STORAGE_POOL   |-> PoolRun,   VIRT_STORAGE_VOLUME |-> VolRun,
     VIRT_SECRET         |-> SecretRun, VIRT_INTERFACE      |-> IfaceRun,
     VIRT_NETWORK_FILTER |-> FilterRun]

\* An operation is an entity and an action.
Operation == UNION {{e} \X (DOMAIN Run[e]) : e \in DOMAIN Run}
ProgramOf == [op \in Operation |-> Run[op[1]][op[2]]]

\* What an operation does not give back: the domain of a display request, the
\* pool of a volume's task.
UnfreedBy == [op \in Operation |->
    CASE op[1] = "VIRT_STORAGE_VOLUME" -> {"pool"}
      [] op \in {<<"VIRT_DOMAIN", "GET_ALL_ENTITY_DATA0">>,
                 <<"VIRT_DOMAIN", "GET_ALL_ENTITY_DATA1">>} -> {"domain"}
      [] OTHER -> {}]

\* The operations that change nothing, and the streams.
ReadsAndTransfers ==
    Operation \cap ((DOMAIN Run) \X {"GET_ALL_ENTITY_STATE", "GET_ALL_ENTITY_DATA0",
        "GET_ALL_ENTITY_DATA1", "GET_XML_DESCRIPTION", "EDIT_ENTITY",
        "DOWNLOAD_ENTITY", "UPLOAD_ENTITY"})
=============================================================================
