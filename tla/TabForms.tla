------------------------------ MODULE TabForms ------------------------------
(***************************************************************************)
(* The forms of the tabs of the domain editor, but for its devices.        *)
(***************************************************************************)
EXTENDS DiskForms

General == <<Text("name"), Text("uuid"), Optional(Text("title")), Optional(Text("description"))>>

SecurityLabel == SecLabels

----------------------------------------------------------------------------
(* OS_Booting: a page for each way to boot; "boot" is what the description *)
(* amounts to.                                                             *)

\* The architecture: a change fills the list of machines anew and sets the type of
\* the system to that of the capabilities.
OnArch == <<<<"machine", "pc">>, <<"os.type", "hvm">>>>
Arch == KeepsOptional(Clearing(Choice("arch", <<"x86_64", "ppc64">>), OnArch))
Machine == KeepsOptional(Reading(Choice("machine", <<"pc", "q35">>), {<<"old", "pc">>}))

BootMenu == <<Optional(YesNo("bootmenu")), KeepsOptional(Number("bootmenu.timeout"))>>
\* The variables need both paths, to be written.
NVRAM ==
    <<Anyway(WrittenUnder("nvram.template", {"a"}, <<TextIf("nvram")>>)[1]),
      Optional(Anyway(WrittenUnder("nvram", {"a"}, <<TextIf("nvram.template")>>)[1]))>>
BIOS_Boot == <<Arch, Machine, TextIf("loader")>> \o BootMenu \o NVRAM
Host_Boot == <<Text("bootloader"), Optional(Text("bootloader_args"))>>
\* Everything is written, if only as an empty element.
Direct_Kernel_Boot ==
    <<Optional(Text("kernel.loader")), Text("kernel"), Optional(Text("initrd")), Optional(Text("cmdline")),
      Optional(Text("dtb"))>>
LXC_OSBooting ==
    <<Keeps(TextIf("init")), Check("idmap")>>
    \o Under("idmap", {"yes"},
             <<KeepsOptional(Preset("uid.target", "1000")), KeepsOptional(Preset("uid.count", "10")),
               KeepsOptional(Preset("gid.target", "1000")), KeepsOptional(Preset("gid.count", "10"))>>)
    \o <<Fixed(Choice("lxc.arch", <<"x86_64">>))>>

\* The pages of the other kind of hypervisor can be chosen, but are disabled.
Bootings(of) ==
    LET page(boot, fields) ==
            Under("boot", {boot},
                  IF (boot = "container") = (of = "lxc") THEN fields
                  ELSE [i \in DOMAIN fields |-> Fixed(fields[i])])
    IN page("bios", BIOS_Boot) \o page("host", Host_Boot) \o page("kernel", Direct_Kernel_Boot)
       \o page("container", LXC_OSBooting)
\* A page that is chosen starts from the first architecture, if it has one.
ChangeBootType(of) ==
    IF of = "lxc" THEN <<>>
    ELSE <<<<"bios", "arch", "x86_64">>, <<"bios", "machine", "pc">>, <<"bios", "os.type", "hvm">>>>
\* A type that is read first is lost again if the architecture read next is another
\* one than that shown.
OS_Booting(of) ==
    WrittenUnder("boot", {"bios", "kernel", "container"},
                 <<Keeps(Reading(ChoiceIf("os.type", <<"", "hvm", "xen">>), {<<"xen", "xen">>}))>>)
    \o <<Setting(Choice("boot", <<"bios", "host", "kernel", "container">>), ChangeBootType(of))>>
    \o Bootings(of)

----------------------------------------------------------------------------
(* CPU.                                                                    *)

\* As many as the machine may have; the current ones are no more.
CPU_Allocation ==
    <<Reading(Setting(Choice("vcpu", <<"1", "2">>), <<<<"1", "current", "1">>>>), {<<"300", "2">>}),
      Check("placement.use")>>
    \o Under("placement.use", {"yes"}, <<Reading(Choice("placement", <<"static", "auto">>), {<<"other", "static">>})>>)
    \o <<Check("cpuset.use")>> \o Under("cpuset.use", {"yes"}, <<Text("cpuset")>>)
    \o <<Check("current.use")>> \o Under("current.use", {"yes"}, <<Choice("current", <<"1", "2">>)>>)

\* The model tells the mode; one that is typed is not signalled.  The form remembers
\* the model that it read last.
Models == <<"host", "manual", "typed", "kvm64">>
CPU_Model ==
    <<Inner("currModel", Models),
      Mute(KeepsOptional(Reading(Choice("model", Models), {<<"host with a name", "kvm64">>})), {"manual", "typed"}),
      KeepsOptional(Choice("fallback", <<"forbid", "allow">>)),
      Anyway(KeepsOptional(Under("model", {"manual", "typed", "kvm64"},
          <<Choice("match", <<"exact", "strict", "minimum">>)>>)[1]))>>

\* The number of sockets stands for the product: "9" is more than the machine may
\* have.  It becomes the number of virtual CPUs, unless it is too large; then
\* nothing is written.  (That the check box is disabled once a description
\* without topology was read is left out.)
CPU_Topology ==
    <<IfAny(Check("topology"), {<<"sockets", {"1", "2"}>>})>>
    \o Under("topology", {"yes"},
             <<[Setting(Choice("sockets", <<"1", "2", "9">>), <<<<"1", "vcpu", "1">>, <<"2", "vcpu", "2">>>>)
                   EXCEPT !.blank = {"9"}]>>)

\* The same as the host, or a model; the features are dropped.
CPU ==
    CPU_Allocation \o <<Check("cpu")>>
    \o Under("cpu", {"yes"},
             <<Setting(YesNo("passthrough"), <<<<"yes", "topology", "no">>, <<"no", "topology", "yes">>>>)>>
             \o Under("passthrough", {"no"}, CPU_Model \o CPU_Topology) \o <<Unknown("feature")>>)

----------------------------------------------------------------------------
(* Memory, in MiB.                                                         *)

\* The current memory is never more than the maximum: each pulls the other.
ChangeCurrentMemValue == <<<<"0", "currentMemory", "0">>, <<"1", "currentMemory", "1", {<<"currentMemory", {"0", "1"}>>}>>>>
ChangeMaximumMemValue == <<<<"2", "memory", "2">>, <<"1", "memory", "1", {<<"memory", {"1", "2"}>>}>>>>
\* Whole MiB, and nothing if the unit is missing or not known.
ConvertNiBtoMiB == {<<"1500 KiB", "1">>, <<"2 ?", "0">>}
UnknownUnit == {<<"2 ?", "0">>}
MemValues ==
    <<Reading(Setting(Choice("memory", <<"0", "1", "2">>), ChangeCurrentMemValue), ConvertNiBtoMiB),
      Optional(Reading(Setting(Choice("currentMemory", <<"0", "1", "2">>), ChangeMaximumMemValue), UnknownUnit))>>

\* Reading adds pages and never removes any.
HugePages == <<Keeps(Growing("pages", "p", "pp"))>>
MemBacking ==
    <<Check("memoryBacking")>>
    \o Under("memoryBacking", {"yes"},
             <<IfAny(Check("hugepages"), {<<"pages", {"p", "pp"}>>})>>
             \o Under("hugepages", {"yes"}, HugePages)
             \o <<Check("nosharepages"), Check("locked")>>)
Limit(name) == Keeps(ChoiceIf(name, <<"0", "1">>))
MemTune ==
    <<Check("memtune")>>
    \o Under("memtune", {"yes"},
             <<Limit("hard_limit"), Limit("soft_limit"), Limit("swap_hard_limit"), Limit("min_guarantee")>>)
Memory == MemValues \o MemBacking \o MemTune

----------------------------------------------------------------------------
(* Misc.                                                                   *)

Event(name, actions) ==
    <<Check(name)>>
    \o Under(name, {"yes"}, <<Reading(Choice(name \o ".action", actions), {<<"other", actions[1]>>})>>)
Events ==
    Event("on_poweroff", <<"destroy", "restart">>) \o Event("on_reboot", <<"destroy", "restart">>)
    \o Event("on_crash", <<"destroy", "coredump-restart">>) \o Event("on_lockfailure", <<"poweroff", "ignore">>)
Power ==
    <<Check("pm")>>
    \o Under("pm", {"yes"}, <<Optional(YesNo("suspend-to-disk")), Optional(YesNo("suspend-to-mem"))>>)
\* A text that is no description of features is not written.
HV_Features ==
    <<IfAny(Check("features"), {<<"features.text", {"f"}>>})>>
    \o Under("features", {"yes"}, <<[Choice("features.text", <<"", "f", "bad">>) EXCEPT !.blank = {"", "bad"}]>>)
Misc_Settings == Events \o Power \o HV_Features
=============================================================================
