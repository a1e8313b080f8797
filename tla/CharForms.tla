------------------------------ MODULE CharForms ------------------------------
(***************************************************************************)
(* The forms of character devices: serial and parallel ports, channels,    *)
(* the console, smartcards, USB redirectors and the random number          *)
(* generator.                                                              *)
(***************************************************************************)
EXTENDS PlainForms

\* The pages, each with its own copy of path and mode.
DevWidget  == <<Text("dev.path")>>
FileWidget == <<Text("file.path")>>
TcpWidget  ==
    <<Choice("tcp.mode", <<"bind", "connect">>), Given("tcp.host", "127.0.0.1"),
      Preset("tcp.service", "4555"),
      KeepsOptional(Choice("tcp.protocol", <<"raw", "telnet", "telnets", "tls">>))>>
\* A description may have only one of the two sources.
UdpWidget ==
    <<KeepsOptional(Given("bind.host", "127.0.0.1")), KeepsOptional(Preset("bind.service", "4555")),
      Given("connect.host", "127.0.0.1"), Preset("connect.service", "4555")>>
UnixWidget == <<Text("unix.path"), Choice("unix.mode", <<"bind", "connect">>)>>
PtyWidget  == <<Unknown("pty.source"), Unknown("pty.target")>>

CharPages(on) ==
    Under(on, {"pty"}, PtyWidget) \o Under(on, {"dev"}, DevWidget)
    \o Under(on, {"file"}, FileWidget) \o Under(on, {"tcp"}, TcpWidget)
    \o Under(on, {"udp"}, UdpWidget) \o Under(on, {"unix"}, UnixWidget)
\* The port of the target is always 0.
CharTarget(on) ==
    Under(on, {"dev", "file", "tcp", "udp", "unix"},
          <<Reading(Choice("target.port", <<"0">>), {<<"1", "0">>})>>)

CharTypes  == <<"pty", "dev", "file", "tcp", "udp", "unix">>
\* Serial and parallel ports.
CharDevice == <<Choice("type", CharTypes)>> \o CharPages("type") \o CharTarget("type")
CharDevice_Edit == Editing(CharDevice, {"type"}, LAMBDA f : Reading(f, {<<"null", "pty">>}))

\* A channel's types are two more, for which the page stays that was shown last,
\* and is written; a fresh form has the pseudo TTY's.  A name can be typed, and
\* then brings a type and a path; when read, it is the Spice agent's unless it is
\* in the list.
ChannelNames ==
    Reading(Setting(Missing(Choice("target.name", <<"spice", "agent", "webdav", "own">>), "spice"),
        <<<<"spice", "type", "spicevmc">>, <<"spice", "page", "unix">>,
          <<"webdav", "type", "spiceport">>, <<"webdav", "page", "unix">>,
          <<"agent", "type", "unix">>, <<"agent", "page", "unix">>, <<"agent", "unix.path", "agent">>,
          <<"own", "type", "unix">>, <<"own", "page", "unix">>, <<"own", "unix.path", "own">>>>),
        {<<"own", "spice">>})
ChannelDevice ==
    <<ChannelNames,
      Reading(Setting(Choice("type", <<"spicevmc", "spiceport">> \o CharTypes),
                      [i \in DOMAIN CharTypes |-> <<CharTypes[i], "page", CharTypes[i]>>]),
              {<<"null", "pty">>}),
      Inner("page", CharTypes)>>
    \o [i \in DOMAIN CharPages("page") |->
           Stray(CharPages("page")[i], "type", {"spicevmc", "spiceport"})]

\* The types of the target are filled in by a thread.
ConsoleDevice ==
    <<Choice("type", <<"pty">>), Choice("target.port", <<"0">>),
      ChoiceIf("target.type", <<"", "serial", "virtio", "sclp">>)>>
ConsoleDevice_Edit ==
    Editing(Editing(Editing(ConsoleDevice, {"type"}, LAMBDA f : Reading(f, {<<"file", "pty">>})),
        {"target.port"}, LAMBDA f : Reading(f, {<<"1", "0">>})),
        {"target.type"}, LAMBDA f : Reading(f, {<<"xen", "">>}))

\* The channel of a smartcard loses its target, and with it its name.
SmartCardDevice ==
    <<Choice("mode", <<"host", "passthrough">>)>>
    \o Under("mode", {"passthrough"},
           Editing(ChannelDevice, {"target.name"}, LAMBDA f : [f EXCEPT !.blank = Values(f)]))
    \o DeviceAddress("ccid", CCIDAddr)
\* The channel is read in any mode.
SmartCardDevice_Edit ==
    Editing(Editing(SmartCardDevice, {"mode"},
                    LAMBDA f : Reading(f, {<<"host-certificates", "host">>})),
            {"type"}, LAMBDA f : Anyway(Missing(f, "spicevmc")))

\* The rules of the filter; to allow one is not signalled.
RedirFilter ==
    <<Mute(Choice("filter", <<"", "12", "21", "12yes", "21yes">>), {"12", "12yes"})>>
RedirDevDevice ==
    <<Choice("type", <<"tcp", "spicevmc">>)>>
    \o Under("type", {"tcp"},
             <<Choice("mode", <<"connect">>), Text("host"), Choice("service", <<"4000", "1000">>)>>)
    \o DeviceAddress("usb", USBAddr)
    \o Editing(RedirFilter, {"filter"}, LAMBDA f : [f EXCEPT !.blank = {""}])
\* The rules are read in the reverse order.
RedirDevDevice_Edit ==
    Editing(Editing(Editing(RedirDevDevice,
        {"mode"},    LAMBDA f : Reading(f, {<<"bind", "connect">>})),
        {"service"}, LAMBDA f : Reading(f, {<<"80", "1000">>})),
        {"filter"},  LAMBDA f : Reading(f, {<<"12", "21">>, <<"21", "12">>,
                                            <<"12yes", "21yes">>, <<"21yes", "12yes">>}))

\* A model of one's own is typed without a signal.  The entropy source /dev/urandom
\* is not among the choices.
Random ==
    <<Check("rate")>>
    \o Under("rate", {"yes"}, <<Choice("rate.period", <<"1000", "1">>), Choice("rate.bytes", <<"1024", "1">>)>>)
    \o <<Mute(Choice("model", <<"virtio", "", "a">>), {"", "a"}), Choice("backend.model", <<"random", "egd">>)>>
    \o Under("backend.model", {"random"}, <<ChoiceIf("source", <<"default", "/dev/random", "/dev/hwrng">>)>>)
    \o Under("backend.model", {"egd"}, CharDevice)
Random_Edit ==
    Editing(Editing(Editing(Editing(Random,
        {"model"},         LAMBDA f : Reading(f, {<<"custom", "">>})),
        {"backend.model"}, LAMBDA f : Reading(f, {<<"builtin", "random">>})),
        {"source"},        LAMBDA f : Reading(f, {<<"/dev/urandom", "default">>})),
        {"type"},          LAMBDA f : Reading(f, {<<"null", "pty">>}))
=============================================================================
