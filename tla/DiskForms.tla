------------------------------ MODULE DiskForms ------------------------------
(***************************************************************************)
(* The form of a disk: five pages, one per type of source.  A check box    *)
(* and the choice it enables are one field here, blank when unchecked.     *)
(***************************************************************************)
EXTENDS PlainForms

All  == {"volume", "block", "dir", "file", "network"}
Page(types, fields) == Under("type", types, fields)

Device == <<Choice("device", <<"disk", "floppy", "cdrom", "lun">>)>>
StartupPolicy == <<ChoiceIf("startupPolicy", <<"", "mandatory", "requisite", "optional">>)>>
\* The bus fdc is not among the choices.
Target ==
    <<Text("target.dev"),
      Reading(ChoiceIf("bus", <<"default", "ide", "sata", "scsi", "usb", "sd", "virtio", "xen">>),
              {<<"fdc", "default">>}),
      ChoiceIf("tray", <<"", "closed", "open">>), ChoiceIf("removable", <<"", "off", "on">>)>>
ReadOnly == <<Check("readonly")>>

\* A list of labels, each of which may be there once.
SecLabels == <<ChoiceIf("seclabels", <<"", "l", "l m">>)>>

\* Written in one format, whatever it was.
UseEncryption ==
    <<Check("encrypt")>>
    \o Under("encrypt", {"yes"},
           <<Reading(Choice("encrypt.format", <<"qcow">>), {<<"luks", "qcow">>}), Text("encrypt.uuid")>>)

\* All types of an address can be chosen, two have a page that is enabled; the
\* address of another type is not written.
DiskAddress ==
    <<Anyway(WrittenUnder("addr.type", {"pci", "drive"}, <<Check("addr.use")>>)[1])>>
    \o Under("addr.use", {"yes"},
           <<Reading([Choice("addr.type", <<"pci", "drive", "usb">>) EXCEPT !.blank = {"usb"}],
                     {<<"ccid", "usb">>})>>
           \o Under("addr.type", {"pci"}, PciAddr)
           \o Under("addr.type", {"drive"},
                  <<TextIf("addr.controller"), TextIf("addr.drivebus"), TextIf("addr.target"), TextIf("addr.unit")>>))

\* The list of hosts; when two are read, the second gets the first one's name.
Hosts ==
    <<Reading(ChoiceIf("hosts", <<"", "h", "h k", "h h">>), {<<"h k", "h h">>})>>

\* Use, name and secret of an authentication.
StorageAuth ==
    <<Check("auth")>>
    \o Under("auth", {"yes"},
           <<Text("auth.username"),
             Clearing(Choice("auth.usageType", <<"usage", "uuid">>), <<<<"auth.usage", "">>>>), Text("auth.usage")>>)

FileDisk  == <<Text("file"), Unknown("file.encryption")>>
BlockDisk == <<Text("dev"), Unknown("dev.encryption")>>
DirDisk   == <<Text("dir"), Unknown("dir.encryption")>>

\* A volume is picked in a dialog, which tells whether it is one of iSCSI: only
\* then a mode is written, and an authentication can be given.  Neither is
\* signalled.  An authentication that is read makes the secret one of iSCSI.
Volume ==
    Picking(Choice("volume", <<"", "v", "i">>),
        <<<<"i", "iscsi", "yes">>, <<"i", "secret", "iscsi">>>>
        \o ForEach(Choice("volume", <<"", "v">>), <<<<"iscsi", "no">>, <<"secret", "none">>, <<"auth", "no">>>>)
        \o ForEach(Choice("volume", <<"", "v", "i">>), <<<<"encrypt.uuid", "">>>>))
VolumeAuth ==
    LET asked == Editing(StorageAuth, {"auth"}, LAMBDA f : Setting(f, <<<<"yes", "secret", "iscsi">>>>))
    IN ShownUnder("secret", {"iscsi"},
           [i \in DOMAIN asked |-> Mute(Keeps(asked[i]), {Absent} \cup Values(asked[i]))])
VolumeDisk ==
    <<Volume, Inner("iscsi", <<"no", "yes">>), Inner("secret", <<"none", "iscsi">>)>>
    \o Under("iscsi", {"yes"},
           <<Mute(Stray(KeepsOptional(Choice("mode", <<"host", "direct">>)), "iscsi", {"no"}), {"host", "direct"})>>)
    \o VolumeAuth
\* A protocol of one's own can be typed; a change of the protocol clears what was
\* given for it.
Protocol ==
    Clearing(Choice("protocol", <<"nbd", "iscsi", "rbd", "sheepdog", "gluster", "own">>),
             <<<<"network.auth", "no">>, <<"network.auth.usage", "">>, <<"name", "">>>>)
ProtocolAuth == ShownUnder("protocol", {"iscsi", "rbd"}, Prefixed("network.", StorageAuth))
NetworkDisk  == <<Protocol, TextIf("name")>> \o ProtocolAuth \o Hosts

Disk ==
    <<Choice("type", <<"volume", "block", "dir", "file", "network">>)>> \o Device
    \o Page({"volume"}, VolumeDisk) \o Page({"block"}, BlockDisk)
    \o Page({"dir"}, DirDisk) \o Page({"file"}, FileDisk) \o Page({"network"}, NetworkDisk)
    \o Page(All \ {"network"}, StartupPolicy) \o Target
    \o Page({"volume", "block", "file"}, SecLabels)
    \o WrittenUnder("type", {"volume", "network"}, ShownUnder("type", {"volume"}, UseEncryption))
    \o ReadOnly \o DiskAddress \o <<Unknown("driver")>>
Disk_Edit == PciAddressRead(Editing(Disk, {"type"}, Fixed))
=============================================================================
