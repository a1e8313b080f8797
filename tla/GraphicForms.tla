---------------------------- MODULE GraphicForms ----------------------------
(***************************************************************************)
(* The forms of a graphical display: one page per type.                    *)
(***************************************************************************)
EXTENDS Forms

\* A check box that a fresh form has checked.
Checked(name) == [Field(name, <<"yes", "no">>) EXCEPT !.blank = {"no"}, !.none = "no"]
\* A port in the range of its box; what is below is read as the least.
Port(name, start, least) == Missing(Reading(Choice(name, <<start, least>>), {<<"-1", least>>}), least)

Desktop_Graphics == <<Text("display"), YesNo("fullscreen")>>
SDL_Graphics     == <<Text("display"), Text("xauth"), YesNo("fullscreen")>>
RDP_Graphics ==
    <<Checked("autoport")>>
    \o Under("autoport", {"no"}, <<[Choice("port", <<"1000", "3389">>) EXCEPT !.none = "1000"]>>)
    \o <<Check("multiUser"), Check("replaceUser")>>

\* Where the server listens: a choice, and what belongs to it.  An address or a
\* socket is typed, which is not signalled, and cleared when the choice changes;
\* an address of the list is read as a typed one, which writes the same.  A
\* description without a listen element leaves the choice as it was.
Listens == <<"", "127.0.0.1", "0.0.0.0", "own", "network", "socket">>
OnPort  == Range(Listens) \ {"socket"}
ListenAddress ==
    <<Reading(Setting(Keeps(ChoiceIf("listen", Listens)), <<<<"own", "listen.text", "">>, <<"socket", "listen.text", "">>>>),
              {<<"none", "">>})>>
    \o Under("listen", {"own", "socket"}, <<Mute(Text("listen.text"), {"", "a"})>>)
    \o Under("listen", {"network"}, <<Reading(Choice("listen.network", <<"n", "m">>), {<<"o", "n">>})>>)
\* The ports, which a socket does not have.
AutoPort ==
    LET none == Under("listen", OnPort, <<Anyway(Checked("autoport"))>>)
    IN none \o Under("autoport", {"no"}, Under("listen", OnPort, <<Port("port", "5900", "1000")>>))
\* A keymap of one's own is typed, without a signal.
Password ==
    <<Check("passwd.use")>>
    \o Under("passwd.use", {"yes"},
           <<Text("passwd"), Mute(Reading(Choice("keymap", <<"auto", "own">>), {<<"own", "auto">>}), {"auto", "own"})>>)

VNC_Graphics ==
    <<ChoiceIf("sharePolicy", <<"", "allow-exclusive", "force-shared", "ignore">>)>>
    \o AutoPort \o Password \o ListenAddress \o <<Unknown("websocket")>>

\* The policies of the channels, of which two stand for eight, are shown with TLS,
\* without auto port, and with a default policy other than any; before they are
\* shown they follow the default.  A channel that is absent is left as it was.
Policies == <<"any", "secure", "insecure">>
Channels == <<"main", "usbredir">>
Channel(name) == <<Anyway(Keeps(Check(name)))>> \o Under(name, {"yes"}, <<Choice(name \o ".mode", Policies)>>)
PolicyShown == {<<"autoport", {"no"}>>, <<"tls", {"yes"}>>, <<"defaultPolicy", {"secure", "insecure"}>>}
DefaultPolicy ==
    Setting(Choice("defaultPolicy", Policies),
            FlattenSeq([i \in DOMAIN Policies |-> [j \in DOMAIN Channels |->
                <<Policies[i], Channels[j] \o ".mode", Policies[i], PolicyShown>>]]))
PolicyElements ==
    Under("autoport", {"no"}, Under("tls", {"yes"}, Under("defaultPolicy", {"secure", "insecure"},
        FlattenSeq([j \in DOMAIN Channels |-> Channel(Channels[j])]))))
\* A port for TLS.
TlsPort ==
    Under("listen", OnPort,
        <<Anyway(Check("tls"))>> \o Under("tls", {"yes"}, <<Port("tlsPort", "5901", "10")>>))

\* A group of elements that a check box shows; it is checked if one is there.
Group(name, elements) ==
    <<IfAny(Check(name), {<<elements[i].name, Values(elements[i]) \ {""}>> : i \in DOMAIN elements})>>
    \o Under(name, {"yes"}, [i \in DOMAIN elements |-> Anyway(elements[i])])
Compression ==
    Group("compress",
        <<ChoiceIf("image", <<"", "auto_glz", "quic", "off">>), ChoiceIf("jpeg", <<"", "auto", "never", "always">>),
          ChoiceIf("zlib", <<"", "auto", "never", "always">>), ChoiceIf("playback", <<"", "on", "off">>)>>)
\* The mode of streaming is written empty, whatever it is.
Addition ==
    Group("addition",
        <<Reading(ChoiceIf("streaming", <<"", "empty">>), {<<"filter", "empty">>, <<"all", "empty">>}),
          ChoiceIf("clipboard", <<"", "yes", "no">>), ChoiceIf("mouse", <<"", "client", "server">>),
          ChoiceIf("filetransfer", <<"", "yes", "no">>)>>)

Spice_Graphics ==
    AutoPort \o TlsPort \o Password \o ListenAddress \o <<DefaultPolicy>> \o PolicyElements
    \o Addition \o Compression

\* The type is fixed once a description is read; one that is not known is SDL.
GraphicsDevice(type, page) == <<Choice("type", <<type>>)>> \o page
GraphicsDevice_Edit(type, page) ==
    Editing(GraphicsDevice(type, page), {"type"},
            LAMBDA f : Fixed(IF type = "sdl" THEN Reading(f, {<<"egl-headless", "sdl">>}) ELSE f))
=============================================================================
