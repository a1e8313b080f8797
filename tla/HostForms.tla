----------------------------- MODULE HostForms -----------------------------
(***************************************************************************)
(* The forms of the host's devices, to create and to edit them, and of     *)
(* filesystems.                                                            *)
(***************************************************************************)
EXTENDS DiskForms

\* To create one: a device of the list that a thread asks for, the first one if
\* there is any.
OfList(names, use) ==
    <<Inner("device", <<"first", "none">>)>>
    \o Under("device", {"first"},
             [i \in DOMAIN names |-> Fixed(Choice(names[i], <<"1">>))]
             \o [i \in DOMAIN use |-> Fixed(Choice(use[i], <<"yes">>))])
USB_Host_Device  == OfList(<<"vendor", "product", "managed">>, <<>>)
PCI_Host_Device  ==
    OfList(<<"source.addr.domain", "source.addr.bus", "source.addr.slot", "source.addr.function">>,
           <<"source.addr.use">>)
SCSI_Host_Device == OfList(<<"name", "source.bus", "source.target", "source.unit">>, <<"source.address">>)

\* To edit one.  What is not shown is lost: who manages the device, and where on
\* the bus of the host it is.
USB_Host_Device_Edit ==
    StartupPolicy \o <<Text("vendor"), Text("product")>> \o DeviceAddress("usb", USBAddr)
    \o <<Unknown("managed"), Unknown("source.address")>>
PCI_Host_Device_Edit ==
    Editing(Prefixed("source.", PciAddressRead(DeviceAddress("pci", PciAddr))),
            {"source.addr.type"}, Optional)
    \o <<Unknown("managed"), Unknown("address")>>

\* The address on the adapter.
AdapterAddress ==
    <<Check("source.address")>>
    \o Under("source.address", {"yes"}, <<Number("source.bus"), Number("source.target"), Number("source.unit")>>)
ISCSI_Device == <<KeepsOptional(Text("host")), KeepsOptional(Number("port"))>> \o StorageAuth
SCSI_Host_Device_Edit ==
    <<ChoiceIf("protocol", <<"scsi", "iscsi">>), Text("name")>>
    \o Under("protocol", {"iscsi"}, ISCSI_Device) \o Under("protocol", {"scsi"}, AdapterAddress)
    \o DeviceAddress("drive", DriveAddr) \o <<Unknown("readonly")>>

\* A device of the host for a container.
BCh_Host_Device ==
    <<Clearing(Choice("type", <<"storage", "misc", "net">>), <<<<"device", "">>>>), Text("device")>>
BCh_Host_Device_Edit == BCh_Host_Device

\* The type is fixed: the page of the type, or the last one if there is none.
HostDevice(type, page) == page \o <<Choice("hostdev", <<type>>)>>
HostDevice_Edit(type, page, last) ==
    Editing(HostDevice(type, page), {"hostdev"},
            LAMBDA f : Fixed(IF type = last THEN Reading(f, {<<"other", last>>}) ELSE f))

----------------------------------------------------------------------------

\* The parts of a page: the driver and what belongs to it, in the order in which
\* they are read.  A change of the driver fills the formats anew.
Drivers(names) == ChoiceIf("driver", <<"default">> \o names)
WrPolicy == Under("driver", {"path", "handle", "loop", "nbd"}, <<ChoiceIf("wrpolicy", <<"default", "immediate">>)>>)
Format(driver, values) ==
    Under("driver", {driver}, <<Reading(Choice("format." \o driver, values), {<<"other", values[1]>>})>>)
LxcDriver ==
    LET formats == <<<<"nbd", "format.nbd", "bochs">>>>
    IN <<Reading(Setting(Drivers(<<"loop", "nbd">>), formats), {<<"ploop", "default">>})>>
LxcFormats == Format("loop", <<"raw">>) \o Format("nbd", <<"bochs", "qcow2">>)
\* A path that is picked in a dialog is not signalled.
Directories(source) == <<Chosen(Text(source), "picked"), Text("target"), Check("readonly")>>

MountFsType(of) ==
    (IF of = "qemu"
     THEN <<ChoiceIf("accessmode", <<"default", "passthrough", "mapped", "squash">>), Drivers(<<"path", "handle">>)>>
     ELSE LxcDriver)
    \o WrPolicy \o LxcFormats \o Directories("dir")
FileFsType  == LxcDriver \o WrPolicy \o LxcFormats \o Directories("file")
BlockFsType == LxcDriver \o WrPolicy \o LxcFormats \o Directories("dev")
\* A size in MiB, at most one GiB; the description has KiB.
RAMFsType ==
    <<Reading(Choice("usage", <<"0", "1024">>), {<<"1500", "1024">>}), Text("target")>>
BindFsType  == <<Text("dir"), Text("target"), Check("readonly")>>

FileSystems(type, page) == <<Choice("type", <<type>>)>> \o page
FileSystems_Edit(type, page) ==
    Editing(FileSystems(type, page), {"type"},
            LAMBDA f : Fixed(IF type = "mount" THEN Reading(f, {<<"template", "mount">>}) ELSE f))
=============================================================================
