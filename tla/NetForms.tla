------------------------------ MODULE NetForms ------------------------------
(***************************************************************************)
(* The forms of network interfaces: one page per type, and the parts that  *)
(* several pages have.  The lists of networks and filters, which a thread  *)
(* asks for, have arrived.                                                 *)
(***************************************************************************)
EXTENDS PlainForms

\* A page reads its PCI address as the editors do.
InterfaceAddress == PciAddressRead(DeviceAddress("pci", PciAddr))

MAC_Address == <<Check("mac")>> \o Under("mac", {"yes"}, <<Text("mac.address")>>)
NIC_Model ==
    <<Check("model")>>
    \o Under("model", {"yes"}, <<Reading(Choice("model.type", <<"ne2k_isa", "virtio">>), {<<"vmxnet3", "ne2k_isa">>})>>)

\* A change of the type clears the parameters but the profile, and shows those of
\* the new one.  A type of one's own is not written.  A parameter that is absent is
\* left as it was, and of two the name that is read is not the one written.
VirtualPortTypes == <<"own", "802.1Qbh", "openvswitch">>
VirtualPort ==
    LET names == <<"managerid", "typeid", "typeidversion", "instanceid", "interfaceid">>
        cleared == [i \in DOMAIN names |-> <<"virtualport." \o names[i], "">>]
        param(n) == Keeps(TextIf("virtualport." \o n))
        some == {<<"virtualport." \o n, {"a"}>> : n \in Range(names) \cup {"profileid"}}
    IN <<IfAny(Check("virtualport"), some \cup {<<"virtualport.type", {"802.1Qbh", "openvswitch"}>>})>>
       \o Under("virtualport", {"yes"},
              <<Clearing(Reading(Missing(ChoiceIf("virtualport.type", VirtualPortTypes), "802.1Qbh"),
                                 {<<"midonet", "own">>}), cleared)>>
              \o ShownUnder("virtualport.type", {"own", "802.1Qbh"},
                     <<param("managerid"), param("typeid"), Lost(param("typeidversion")), Lost(param("instanceid"))>>)
              \o ShownUnder("virtualport.type", {"own", "openvswitch"}, <<param("interfaceid")>>)
              \o <<param("profileid")>>)
\* The type that a page starts with.
VirtualPortOf(type) == Editing(VirtualPort, {"virtualport.type"}, LAMBDA f : Starting(f, type))

Filters == Choice("filter", <<"f", "g">>)
\* A filter that is not in the list is dropped with its parameters; a description
\* without one leaves the check box as it was, and reading only adds parameters.
NWFilter_Params ==
    <<Reading(Keeps(Check("filterref")), {<<"strange", "no">>})>>
    \o Under("filterref", {"yes"},
           <<Filters, Growing("filter.parameters", "p", "pp"),
             Keeps(ChoiceIf("ip.learning", <<"", "any", "dhcp", "none">>))>>)

\* One of the networks, or a name of one's own; a name that is part of the name of
\* one in the list is taken for it.
Networks == Reading(Choice("network", <<"net", "m", "", "own">>), {<<"ne", "net">>})
Virtual_Network ==
    <<Networks, TextIf("target")>>
    \o NIC_Model
    \o Editing(Editing(MAC_Address, {"mac"}, LAMBDA f : IfAny(f, {<<"mac.address", {"a"}>>})),
               {"mac.address"}, Blank)
    \o VirtualPort \o InterfaceAddress \o NWFilter_Params
Bridge_to_LAN ==
    <<Text("bridge"), TextIf("target")>> \o MAC_Address \o VirtualPortOf("openvswitch")
    \o InterfaceAddress \o NWFilter_Params \o <<Unknown("model")>>
\* The source is one of the interfaces of the host, the last one if there is no such.
\* A filter is for bridge mode; it is switched off whenever the mode changes, and
\* once more by the page's own timer, which ends after the description was read.
AttachmentModes == Choice("mode", <<"vepa", "bridge", "private", "passthrough">>)
Sources == Reading(Choice("source", <<"eth1", "eth0">>), {<<"eth9", "eth1">>})
DirectAttachment ==
    <<Sources, Clearing(AttachmentModes, <<<<"filterref", "no">>>>)>>
    \o VirtualPortOf("802.1Qbh") \o InterfaceAddress
    \o ShownUnder("mode", {"bridge"}, Editing(NWFilter_Params, {"filterref"}, LAMBDA f : Late(f, "no")))
    \o <<Unknown("mac"), Unknown("model")>>
Generic_Ethernet == <<TextIf("target"), TextIf("script")>> \o InterfaceAddress \o <<Unknown("mac")>>
Userspace_SLIRP  == MAC_Address \o InterfaceAddress \o <<Unknown("model")>>
MultiCast_Tunnel == <<Text("address"), Preset("port", "5558")>> \o MAC_Address \o InterfaceAddress
TCP_Tunnel ==
    <<Choice("side", <<"server", "client">>)>> \o MultiCast_Tunnel
\* The address of the host's device is read without multifunction; the driver may
\* be absent, and then is VFIO.
PCI_Passthrough ==
    <<Optional(Choice("driver", <<"vfio", "kvm">>)), Keeps(TextIf("mac.address"))>>
    \o Editing(Prefixed("source.", PciAddr), {"source.addr.multifunction"}, Lost)
    \o VirtualPortOf("802.1Qbh") \o InterfaceAddress

\* The type is fixed once a description is read.
NetInterfaces(type, page)      == <<Choice("type", <<type>>)>> \o page
NetInterfaces_Edit(type, page) ==
    Editing(NetInterfaces(type, page), {"type"},
            LAMBDA f : Fixed(IF type = "mcast" THEN Reading(f, {<<"vhostuser", "mcast">>}) ELSE f))
=============================================================================
