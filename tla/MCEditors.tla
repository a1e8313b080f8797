------------------------------ MODULE MCEditors ------------------------------
(***************************************************************************)
(* Every form alone, with each of its descriptions, and lists of three     *)
(* devices.                                                                *)
(***************************************************************************)
EXTENDS DomainPromise, CharForms, HostForms, TabForms, NetForms, GraphicForms, StorageForms, FiniteSets, TLC

CONSTANTS AloneEdits, AloneOps, ListEdits, ListOps, SmallForm, TabEdits, Opens, Changes

MCFormOf ==
    [sound |-> Form(SoundDevice_Edit), video |-> Form(VideoDevice_Edit), memballoon |-> Form(MemBalloon_Edit),
     hub |-> Form(HubDevice_Edit), input |-> Form(InputDevice_Edit), emulator |-> Form(Emulator_Edit),
     serial |-> Form(CharDevice_Edit), channel |-> Form(ChannelDevice), console |-> Form(ConsoleDevice_Edit),
     smartcard |-> Form(SmartCardDevice_Edit), redirdev |-> Form(RedirDevDevice_Edit), rng |-> Form(Random_Edit), disk |-> Form(Disk_Edit),
     network |-> Form(NetInterfaces_Edit("network", Virtual_Network)),
     bridge |-> Form(NetInterfaces_Edit("bridge", Bridge_to_LAN)),
     direct |-> Form(NetInterfaces_Edit("direct", DirectAttachment)),
     ethernet |-> Form(NetInterfaces_Edit("ethernet", Generic_Ethernet)),
     user |-> Form(NetInterfaces_Edit("user", Userspace_SLIRP)),
     mcast |-> Form(NetInterfaces_Edit("mcast", MultiCast_Tunnel)),
     tcp |-> Form(NetInterfaces_Edit("tcp", TCP_Tunnel)),
     hostnet |-> Form(NetInterfaces_Edit("hostdev", PCI_Passthrough)),
     usbhost |-> Form(HostDevice_Edit("usb", USB_Host_Device_Edit, "scsi")),
     pcihost |-> Form(HostDevice_Edit("pci", PCI_Host_Device_Edit, "scsi")),
     scsihost |-> Form(HostDevice_Edit("scsi", SCSI_Host_Device_Edit, "scsi")),
     bchhost |-> Form(HostDevice_Edit("bch", BCh_Host_Device_Edit, "bch")),
     mount |-> Form(FileSystems_Edit("mount", MountFsType("qemu"))),
     lxcmount |-> Form(FileSystems_Edit("mount", MountFsType("lxc"))),
     filefs |-> Form(FileSystems_Edit("file", FileFsType)), blockfs |-> Form(FileSystems_Edit("block", BlockFsType)),
     ramfs |-> Form(FileSystems_Edit("ram", RAMFsType)), bindfs |-> Form(FileSystems_Edit("bind", BindFsType)),
     sdl |-> Form(GraphicsDevice_Edit("sdl", SDL_Graphics)),
     vnc |-> Form(GraphicsDevice_Edit("vnc", VNC_Graphics)),
     spice |-> Form(GraphicsDevice_Edit("spice", Spice_Graphics)),
     rdp |-> Form(GraphicsDevice_Edit("rdp", RDP_Graphics)),
     desktop |-> Form(GraphicsDevice_Edit("desktop", Desktop_Graphics))]
\* The forms that create host devices, and what they write as the editors see it.
Creation ==
    [usbhost |-> Form(USB_Host_Device), pcihost |-> Form(PCI_Host_Device), scsihost |-> Form(SCSI_Host_Device),
     bchhost |-> Form(BCh_Host_Device)]
Created(form, creation) ==
    LET doc == Write(creation, First(creation))
        blank == Write(form, First(form))
    IN [n \in DOMAIN blank |-> IF n \in DOMAIN doc THEN doc[n] ELSE IF n = "hostdev" THEN blank[n] ELSE Absent]
GraphicKinds == {"sdl", "vnc", "spice", "rdp", "desktop"}
InterfaceKinds == {"network", "bridge", "direct", "ethernet", "user", "mcast", "tcp", "hostnet"}
HostKinds == {"usbhost", "pcihost", "scsihost", "bchhost"}
FilesystemKinds == {"mount", "lxcmount", "filefs", "blockfs", "ramfs", "bindfs"}
MCRank == [k \in HostKinds |-> 5] @@ [k \in FilesystemKinds |-> 4] @@ [k \in InterfaceKinds |-> 3] @@ [k \in GraphicKinds |-> 12] @@ [disk |-> 2, serial |-> 15, channel |-> 17, console |-> 14, smartcard |-> 7, redirdev |-> 6, rng |-> 21, emulator |-> 1, input |-> 10, hub |-> 11, video |-> 13, sound |-> 18, memballoon |-> 20]
NewDoc(form) == Write(form, First(form))
MCTabForm ==
    [General |-> Form(General), SecurityLabel |-> Form(SecurityLabel), OS_Booting |-> Form(OS_Booting("qemu")),
     LXC_Booting |-> Form(OS_Booting("lxc")), CPU |-> Form(CPU), Memory |-> Form(Memory), Misc |-> Form(Misc_Settings)]
\* The keys of the tabs in their alphabetical order.
Order == <<"CPU", "Devices", "General", "Memory", "Misc", "OS_Booting", "LXC_Booting", "SecurityLabel">>
SetByArch == [OS_Booting |-> OnArch, LXC_Booting |-> <<>>]
MCEmulator == [p \in {"qemu", ""} |-> [emulator |-> p]]

\* Bounds: a form reads each of its descriptions, and the user changes the fresh
\* one, or any if the form is small, and leaves it; a list is worked on; the tabs
\* that depend on each other are open together.
Small(form) == Cardinality(Names(form)) <= SmallForm
NoTabs == [t \in {} |-> <<>>]
AloneWith(k, docs, small, fresh) ==
    {[list |-> <<<<k, d>>>>, ops |-> AloneOps, tabs |-> NoTabs, restores |-> 0,
      edits |-> IF small \/ d = fresh THEN AloneEdits ELSE 0] : d \in docs}
Alone(k, form, creation) ==
    AloneWith(k, Docs(form) \cup (IF k \in DOMAIN creation THEN {Created(form, creation[k])} ELSE {}),
              Small(form), NewDoc(form))
Lists(hub) ==
    {[list |-> <<<<"hub", hub>>, <<"hub", hub>>, <<"hub", hub>>>>,
      edits |-> ListEdits, ops |-> ListOps, restores |-> 1, tabs |-> NoTabs]}
TabAlone(t, form) ==
    {[list |-> <<>>, ops |-> 0, edits |-> TabEdits, restores |-> 1, tabs |-> t :> d] : d \in Docs(form)}
Both(b, c) ==
    [list |-> <<<<"emulator", [emulator |-> "own"]>>>>, ops |-> 0, edits |-> TabEdits, restores |-> 1,
     tabs |-> "OS_Booting" :> b @@ "CPU" :> c]
Together(os, cpu) ==
    {Both(b, NewDoc(cpu)) : b \in Docs(os)} \cup {Both(NewDoc(os), c) : c \in Docs(cpu)}
MCStarts(forms, tabForms, creation) ==
    Lists(NewDoc(forms["hub"]))
    \cup UNION {Alone(k, forms[k], creation) : k \in DOMAIN forms}
    \cup UNION {TabAlone(t, tabForms[t]) : t \in DOMAIN tabForms \ {"OS_Booting", "CPU"}}
    \cup Together(tabForms["OS_Booting"], tabForms["CPU"])

\* A hub can be created, a watchdog is offered and cannot.
MCNewFormOf == [hub |-> Form(HubDevice), watchdog |-> Form(<<>>)]

MCCreationForm ==
    [pool |-> Form(CreatePool), volume |-> Form(CreateVolume), secret |-> Form(CreateVirtSecret),
     interface |-> Form(CreateInterface)]
MCSaved(forms) == [k \in {"pool", "volume"} \cap DOMAIN forms |-> Docs(forms[k])]

VARIABLES stack, edits, ops, tabs, xmlDesc, open, window, file, running, opens

\* The forms are parameters: TLC's statistics would unfold their definitions at
\* each use.
Editor(forms, tabForms, others, creation) == INSTANCE Editors WITH
    FormOf <- forms, TabForm <- tabForms, CreationForm <- others,
    Rank <- MCRank, Unique <- {"emulator"}, NewFormOf <- MCNewFormOf, Emulator <- MCEmulator,
    Starts <- MCStarts(forms, tabForms, creation), Saved <- MCSaved(others)

\* What the proofs ask of the parameters (Editors).
ASSUME Editor(MCFormOf, MCTabForm, MCCreationForm, Creation)!EditorsFit

vars == <<devices, current, panel, stack, past, edits, ops, tabs, xmlDesc, open, restores,
          window, file, running, opens>>
Init ==
    \E f \in {MCFormOf}, t \in {MCTabForm}, o \in {MCCreationForm}, c \in {Creation} :
        Editor(f, t, o, c)!WindowsInit
Next == \E f \in {MCFormOf}, t \in {MCTabForm}, o \in {MCCreationForm} : Editor(f, t, o, <<>>)!WindowsNext
Spec == Init /\ [][Next]_vars

\* A form that says it is saved would write what is saved, one that was not touched
\* what it was opened with (Editors).
ShownIsSaved == Editor(MCFormOf, MCTabForm, MCCreationForm, <<>>)!ShownIsSaved
\* What the user never saw is not written (Editors).
NothingHiddenIsWritten == Editor(MCFormOf, MCTabForm, MCCreationForm, <<>>)!NothingHiddenIsWritten
=============================================================================
