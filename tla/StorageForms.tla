---------------------------- MODULE StorageForms ----------------------------
(***************************************************************************)
(* The forms of the windows that create a storage pool, a storage volume,  *)
(* a secret and a host interface.  Those of pools and volumes can start    *)
(* from a description in a file; they read into a fresh form, in which     *)
(* what the file leaves out stays as the constructor left it.              *)
(***************************************************************************)
EXTENDS DiskForms

Kept(fields) == [i \in DOMAIN fields |-> KeepsOptional(fields[i])]
Unread(fields) == [i \in DOMAIN fields |-> Lost(fields[i])]

Permissions ==
    <<Check("perm")>>
    \o Under("perm", {"yes"}, Kept(<<Text("owner"), Text("group"), Text("mode"), Text("label")>>))
PoolTarget == Kept(<<Text("path")>>) \o Permissions

\* A list of devices; where there is room for one, the last one read stays.
DeviceList == <<ChoiceIf("devices", <<"", "d", "d e">>)>>
OneDevice  == <<Reading(ChoiceIf("devices", <<"", "d", "e">>), {<<"d e", "e">>})>>

\* A list of hosts, of which only the name is read.
HostNames == <<Reading(ChoiceIf("hosts", <<"", "h", "h:1", "h k">>), {<<"h:1", "h">>})>>
OneHost   == <<Reading(ChoiceIf("hosts", <<"", "h", "h:1">>), {<<"h:1", "h">>})>>
\* Here a port is asked for.
HostPorts == <<Reading(ChoiceIf("hosts", <<"", "h:1", "h:1 k:1">>), {<<"h:1", "h">>, <<"h:1 k:1", "h k">>})>>

PoolAuth == <<Head(StorageAuth)>> \o Kept(Tail(StorageAuth))
SourceName == <<TextIf("source.name")>>
SourceDir  == Kept(<<Text("source.dir")>>)

\* The parent of an HBA is given by its address instead of the name, which is then
\* disabled.  (An empty name is taken for none.)  The function of the address is read
\* as a decimal number and written as a hexadecimal one.
Adapter ==
    <<Setting(Able(Choice("adapter", <<"scsi_host", "fc_host">>), "parentaddr", {"no"}),
              <<<<"fc_host", "parentaddr", "no">>>>)>>
    \o Under("adapter", {"scsi_host"}, <<Check("parentaddr")>>)
    \o Under("parentaddr", {"yes"},
           Kept(<<Text("unique_id")>>)
           \o Editing(Editing(Kept(PciAddr), {"addr.function"}, LAMBDA f : Reading(f, {<<"1", "0">>})),
                      {"addr.multifunction"}, Lost))
    \o Under("parentaddr", {"no"}, <<TextIf("name")>>)
    \o Under("adapter", {"fc_host"}, Kept(<<Text("parent"), Text("wwnn"), Text("wwpn")>>))

\* The page of each type of pool.  Some pages write what they do not read, and most
\* have nothing for other parts of a description.
Dir_Pool_Stuff      == PoolTarget
MPath_Pool_Stuff    == PoolTarget
Fs_Pool_Stuff       == DeviceList \o PoolTarget \o <<Unknown("format")>>
Disk_Pool_Stuff     == OneDevice \o PoolTarget \o <<Unknown("format")>>
Logical_Pool_Stuff  == DeviceList \o Unread(SourceName) \o PoolTarget \o <<Unknown("format")>>
NetFs_Pool_Stuff    ==
    HostNames \o SourceDir
    \o <<KeepsOptional(Reading(Choice("format", <<"auto", "nfs", "glusterfs", "cifs">>), {<<"own", "auto">>}))>>
    \o Kept(<<Text("path")>>) \o Unread(Permissions)
iSCSI_Pool_Stuff    == OneDevice \o OneHost \o PoolAuth \o PoolTarget \o <<Unknown("initiator")>>
SCSI_Pool_Stuff     == Adapter \o Unread(<<TextIf("vendor"), TextIf("product")>>) \o PoolTarget
RBD_Pool_Stuff      == SourceName \o HostPorts \o PoolAuth
SheepDog_Pool_Stuff == SourceName \o <<Reading(ChoiceIf("hosts", <<"", "h:1", "h:7000">>), {<<"h", "h:7000">>})>>
Gluster_Pool_Stuff  == SourceName \o <<Reading(ChoiceIf("hosts", <<"", "h">>), {<<"h:1", "h">>})>> \o SourceDir
ZFS_Pool_Stuff      == SourceName \o DeviceList

PoolTypes ==
    <<"dir", "fs", "netfs", "logical", "disk", "iscsi", "scsi", "mpath", "rbd", "sheepdog", "gluster", "zfs">>
PoolPage(type, fields) == Under("type", {type}, Prefixed(type \o ".", fields))
CreatePool ==
    <<Reading(Choice("type", PoolTypes), {<<"vstorage", "dir">>})>>
    \o Kept(<<Text("name"), TextIf("uuid")>>) \o <<Unknown("allocation")>>
    \o PoolPage("dir", Dir_Pool_Stuff) \o PoolPage("fs", Fs_Pool_Stuff) \o PoolPage("netfs", NetFs_Pool_Stuff)
    \o PoolPage("logical", Logical_Pool_Stuff) \o PoolPage("disk", Disk_Pool_Stuff)
    \o PoolPage("iscsi", iSCSI_Pool_Stuff) \o PoolPage("scsi", SCSI_Pool_Stuff) \o PoolPage("mpath", MPath_Pool_Stuff)
    \o PoolPage("rbd", RBD_Pool_Stuff) \o PoolPage("sheepdog", SheepDog_Pool_Stuff)
    \o PoolPage("gluster", Gluster_Pool_Stuff) \o PoolPage("zfs", ZFS_Pool_Stuff)

----------------------------------------------------------------------------

\* Allocation and capacity have one unit between them, as changing that of one
\* changes that of the other.  Whatever is read becomes a number of MiB, no bytes at
\* all one of them.
Amounts == <<"0 MiB", "1 MiB", "0 KiB", "1 KiB">>
Unit(v) == IF v \in {"0 MiB", "1 MiB"} THEN " MiB" ELSE " KiB"
LinkedTo(other) ==
    FlattenSeq([i \in DOMAIN Amounts |->
        <<<<Amounts[i], other, "0" \o Unit(Amounts[i]), {<<other, {"1 MiB", "1 KiB"}>>}>>,
          <<Amounts[i], other, "1" \o Unit(Amounts[i]), {<<other, {"0 MiB", "0 KiB"}>>}>>>>])
Size(name, other) ==
    KeepsOptional(Setting(
        Reading(Choice(name, Amounts), {<<"0 KiB", "0 MiB">>, <<"1 KiB", "0 MiB">>, <<"0 bytes", "1 MiB">>}),
        LinkedTo(other)))

\* A format of one's own can be typed, though not be read.
VolumeFormat ==
    <<KeepsOptional(Reading(ChoiceIf("format", <<"default", "raw", "", "own">>),
                            {<<"own", "default">>, <<"", "default">>}))>>
\* A secret that is read is put down and not used, as its being there checks the box
\* that leaves it to be generated.
VolumeEncryption ==
    <<Check("encrypt")>>
    \o Under("encrypt", {"yes"},
           <<Reading(Choice("encrypt.format", <<"default", "qcow", "luks">>), {<<"aes", "default">>}),
             [Inner("encrypt.auto", <<"yes", "no">>) EXCEPT !.seen = {}]>>
           \o Under("encrypt.auto", {"no"}, <<Lost(Text("encrypt.secret"))>>))
\* The name is written with ".img" behind it and read as it is; the path is shown and
\* never written.
CreateVolume ==
    <<KeepsOptional(Reading(Text("name"), {<<"", ".img">>, <<"a", "a.img">>})),
      Size("allocation", "capacity"), Size("capacity", "allocation"), Unknown("path")>>
    \o VolumeFormat \o Permissions \o VolumeEncryption

----------------------------------------------------------------------------

SecretTypes == <<"volume", "ceph", "iscsi", "tls">>
UsagePage(type) == Under("usage", {type}, <<Text("usage." \o type)>>)
CreateVirtSecret ==
    <<Text("description"), Text("uuid"), YesNo("ephemeral"), YesNo("private"), Choice("usage", SecretTypes)>>
    \o FlattenSeq([i \in DOMAIN SecretTypes |-> UsagePage(SecretTypes[i])])

CreateInterface ==
    <<Choice("type", <<"ethernet">>), Text("name"), Text("ip4.address"), Choice("ip4.prefix", <<"8", "24">>),
      Text("ip6.address"), Choice("ip6.prefix", <<"128", "64">>)>>
=============================================================================
