----------------------------- MODULE PlainForms -----------------------------
(***************************************************************************)
(* The address pages and the forms of the devices that have little else:   *)
(* sound, video, memory balloon, hub, input and emulator.                  *)
(***************************************************************************)
EXTENDS Forms

PciAddr ==
    <<TextIf("addr.domain"), TextIf("addr.bus"), TextIf("addr.slot"),
      Setting(Number("addr.function"), <<<<"1", "addr.multifunction", "no">>>>)>>
    \o ShownUnder("addr.function", {"0"}, <<Check("addr.multifunction")>>)
DriveAddr ==
    <<TextIf("addr.controller"), TextIf("addr.bus"), TextIf("addr.target"), TextIf("addr.unit")>>
VirtioSerialAddr == <<TextIf("addr.controller"), TextIf("addr.bus"), TextIf("addr.slot")>>
CCIDAddr      == <<TextIf("addr.bus"), TextIf("addr.slot")>>
USBAddr       == <<TextIf("addr.bus"), TextIf("addr.port")>>
SpaprVioAddr  == <<TextIf("addr.reg")>>
CCWAddr       == <<Choice("addr.machine", <<"s390-ccw-virtio">>), TextIf("addr.cssid"),
                   Number("addr.ssid"), TextIf("addr.devno")>>
IsaAddr       == <<TextIf("addr.iobase"), TextIf("addr.irq")>>

\* The address of a device whose form fixes the type: one of another type is
\* shown, and written, as one of this.
DeviceAddress(type, page) ==
    <<Check("addr.use")>>
    \o Under("addr.use", {"yes"},
             <<Reading(Choice("addr.type", <<type>>), {<<"other", type>>})>> \o page)

\* How the editors read a PCI address: multifunction is left as it was if the
\* description does not have it.
PciAddressRead(form) == Editing(form, {"addr.multifunction"}, Keeps)

----------------------------------------------------------------------------

\* The codec is of ich6 only.
SoundDevice ==
    <<Choice("model", <<"es1370", "sb16", "ac97", "ich6", "usb">>)>>
    \o Under("model", {"ich6"}, <<ChoiceIf("codec", <<"default", "duplex", "micro">>)>>)
    \o DeviceAddress("pci", PciAddr)
SoundDevice_Edit ==
    Editing(Editing(PciAddressRead(SoundDevice), {"codec"}, Anyway),
            {"model"}, LAMBDA f : Reading(f, {<<"ich9", "es1370">>}))

\* Video memory in MiB, eight at least; the description has KiB.
VideoDevice ==
    <<Choice("model", <<"vga", "cirrus", "vmvga", "xen", "vbox", "qxl">>),
      Choice("vram", <<"8192", "16384">>), Hidden(Choice("heads", <<"1">>)),
      Check("accel2d"), Check("accel3d")>>
    \o DeviceAddress("pci", PciAddr)
VideoDevice_Edit ==
    Editing(Editing(Editing(PciAddressRead(VideoDevice),
        {"model"}, LAMBDA f : Reading(f, {<<"virtio", "vga">>})),
        {"vram"},  LAMBDA f : Reading(f, {<<"1024", "8192">>, <<"16385", "16384">>})),
        {"heads"}, LAMBDA f : Reading(f, {<<"2", "1">>}))

\* The period is of virtio, the address of virtio and xen.
MemBalloon ==
    <<Setting(Choice("model", <<"none", "virtio", "xen">>),
              <<<<"none", "stats", "no">>, <<"none", "addr.use", "no">>, <<"xen", "stats", "no">>>>)>>
    \o ShownUnder("model", {"virtio"},
           <<Check("stats")>> \o Under("stats", {"yes"}, <<Preset("period", "10")>>))
    \o ShownUnder("model", {"virtio", "xen"}, DeviceAddress("pci", PciAddr))
MemBalloon_Edit == PciAddressRead(MemBalloon)

HubDevice      == DeviceAddress("usb", USBAddr)
HubDevice_Edit == HubDevice

\* The address is always taken for one on the PCI bus, whatever the bus.
InputDevice ==
    <<Choice("type", <<"tablet", "mouse", "keyboard">>), Choice("bus", <<"usb", "ps2", "xen">>)>>
    \o DeviceAddress("pci", PciAddr)
InputDevice_Edit ==
    Editing(PciAddressRead(InputDevice), {"type", "bus"},
            LAMBDA f : Reading(f, {<<"other", f.vals[1]>>}))

\* A label: nothing to edit.
Emulator      == <<Fixed(Text("emulator"))>>
Emulator_Edit == Emulator
=============================================================================
