---------------------------- MODULE DomainEditor ----------------------------
(***************************************************************************)
(* The window that edits a domain (CreateVirtDomain): the Devices tab      *)
(* (DeviceEditor) and the other tabs, each a form with a panel to save,    *)
(* revert and reset it.  What is chosen for booting has effects on other   *)
(* tabs.  Ok visits every tab and hands the description over.              *)
(***************************************************************************)
EXTENDS Forms, DomainPromise, FiniteSetsExt

CONSTANTS
    FormOf, Rank, Unique, NewFormOf,  \* of DeviceEditor
    TabForm,     \* the form of each tab but Devices
    Order,       \* the sequence in which Ok visits the tabs
    SetByArch,   \* [tab |-> <<field, value>>, ...]: what the choice of an architecture
                 \* sets anew in the booting tabs
    Emulator,    \* the description of an emulator, by its path
    Starts       \* [list, edits, ops, tabs, restores]: of DeviceEditor, the descriptions of
                 \* the tabs, and how often the user may start again

\* devices, current, panel, past and restores are those of DomainPromise.
VARIABLES
    stack, edits, ops,  \* of DeviceEditor
    tabs,        \* wdgList: [tab |-> [shown, saved, current, first]]
    xmlDesc,     \* [list, tabs]: the description the window was opened with
    open         \* the window is

D == INSTANCE DeviceEditor
devVars == <<devices, current, panel, stack, past>>
vars == <<devVars, edits, ops, tabs, xmlDesc, open, restores>>

Tabs == DOMAIN tabs
Booting == {"OS_Booting", "LXC_Booting"}

----------------------------------------------------------------------------
(* Effects of one tab on the others.  A window is [dev, tabs].             *)

\* The number of virtual CPUs is set to one, as no machine is chosen for a moment,
\* or to that of the topology; the model is looked for in the new list.
WithModelsOf(s) ==
    [n \in DOMAIN s |-> IF n \in {"vcpu", "current"} THEN "1" ELSE IF n = "model" THEN s.currModel ELSE s[n]]
ChangeArch(tab) ==
    LET f == TabForm["CPU"]
        now == WithModelsOf(tab.shown)
        used == now.topology = "yes" /\ now.sockets \in {"1", "2"}
    IN [tab EXCEPT !.shown = IF used THEN Change(now, f.at.vcpu, now.sockets) ELSE now, !.saved = FALSE]
SetEmulator(win, path) == [win EXCEPT !.dev = D!SetEmulator(win.dev, Emulator[path])]

\* archChanged of the page that is shown, or of the one with the architectures.
ToldCPU(win) == IF "CPU" \in DOMAIN win.tabs THEN [win EXCEPT !.tabs.CPU = ChangeArch(win.tabs.CPU)] ELSE win
ArchChanged(win, t) ==
    IF t = "OS_Booting" THEN ToldCPU(SetEmulator(win, "qemu")) ELSE SetEmulator(win, "qemu")
\* A boot type without architectures leaves the domain without emulator path.
Boot(win, t, s, r) ==
    IF t \notin Booting THEN win
    ELSE IF r.arch # s.arch \/ (r.boot # s.boot /\ r.boot = "bios") THEN ArchChanged(win, t)
    ELSE IF r.boot # s.boot THEN SetEmulator(win, "")
    ELSE win

\* A tab shows r.
ShowIn(win, t, r) == Boot([win EXCEPT !.tabs[t].shown = r], t, win.tabs[t].shown, r)

\* readXMLDesciption.  The CPU tab remembers the model it read.
ReadTab(t, s, doc) ==
    LET r == Read(TabForm[t], s, doc)
    IN IF t = "CPU" /\ doc.model # Absent THEN [r EXCEPT !.currModel = Shows(TabForm[t].at.model, s, doc.model)] ELSE r

----------------------------------------------------------------------------

\* Fields are set one after the other.
SetAll(pairs, s) == Apply([i \in DOMAIN pairs |-> <<0, pairs[i][1], pairs[i][2]>>], s, 0)

\* create_specified_widgets and set_specified_Tabs: the tabs read the description,
\* then the booting tab, of which there is one, tells the others of its
\* architecture, as if it had changed.
NewTab(t, doc) == [shown |-> ReadTab(t, First(TabForm[t]), doc), saved |-> TRUE, current |-> doc, first |-> doc]
InitMaxVCPU(win, t) ==
    ArchChanged([win EXCEPT !.tabs[t].shown = SetAll(SetByArch[t], win.tabs[t].shown),
                            !.tabs[t].saved = FALSE], t)
Opened(desc) ==
    LET win == [dev |-> D!Detected(desc.list), tabs |-> [t \in DOMAIN desc.tabs |-> NewTab(t, desc.tabs[t])]]
        booting == Booting \cap DOMAIN win.tabs
    IN IF booting = {} THEN win ELSE InitMaxVCPU(win, CHOOSE t \in booting : TRUE)

Now == [dev |-> D!Now, tabs |-> tabs]
Become(win) == D!Become(win.dev) /\ tabs' = win.tabs

Start(s) ==
    /\ \E win \in {Opened(s)} :
          /\ devices = win.dev.devices /\ current = win.dev.current
          /\ panel = win.dev.panel /\ past = win.dev.past
          /\ tabs = win.tabs
    /\ xmlDesc = [list |-> s.list, tabs |-> s.tabs]
    /\ edits = s.edits
    /\ ops = s.ops
    /\ restores = s.restores
    /\ stack = D!NewStack
Init == open = TRUE /\ \E s \in Starts : Start(s)
\* There is no such window.
NoWindow == open = FALSE /\ Start([list |-> <<>>, tabs |-> [t \in {} |-> <<>>], edits |-> 0, ops |-> 0, restores |-> 0])

Devices == D!Next /\ UNCHANGED <<tabs, xmlDesc, open, restores>>

\* The user changes a field of a tab.
Edit(t) ==
    /\ edits > 0
    /\ D!MaySetEmulator
    /\ \E e \in Edits(TabForm[t], tabs[t].shown) :
          LET r == Pick(tabs[t].shown, e[1], e[2])
              told == Told(TabForm[t], tabs[t].shown, r)
              win == ShowIn(Now, t, r)
          IN Become([win EXCEPT !.tabs[t].saved = @ /\ ~told])
    /\ edits' = edits - 1
    /\ UNCHANGED <<stack, ops, xmlDesc, open, restores>>

SaveData(tab, t) == [tab EXCEPT !.current = Write(TabForm[t], tab.shown), !.saved = TRUE]
RevertData(win, t) ==
    LET r == ShowIn(win, t, ReadTab(t, win.tabs[t].shown, win.tabs[t].current))
    IN [r EXCEPT !.tabs[t].saved = TRUE]

Save(t) ==
    /\ tabs' = [tabs EXCEPT ![t] = SaveData(@, t)]
    /\ UNCHANGED <<devVars, edits, ops, xmlDesc, open, restores>>
Revert(t) ==
    /\ ~tabs[t].saved
    /\ D!MaySetEmulator
    /\ Become(RevertData(Now, t))
    /\ UNCHANGED <<stack, edits, ops, xmlDesc, open, restores>>
Reset(t) ==
    /\ D!MaySetEmulator
    /\ Become(RevertData([Now EXCEPT !.tabs[t].current = tabs[t].first], t))
    /\ UNCHANGED <<stack, edits, ops, xmlDesc, open, restores>>

\* A tab is asked to close: on Ok it is saved, on Cancel reverted and the window
\* stays.
CloseDataEdit(win, t, ok) ==
    IF t = "Devices" THEN [win EXCEPT !.dev = D!CloseDataEdit(@, ok)]
    ELSE IF t \notin DOMAIN win.tabs \/ win.tabs[t].saved THEN win
    ELSE IF ok THEN [win EXCEPT !.tabs[t] = SaveData(win.tabs[t], t)]
    ELSE RevertData(win, t)

\* Ok: the tabs in their order up to the one that refuses, if any.  (Cancel hands
\* nothing over and is left out.)
Asked == {t \in Tabs : ~tabs[t].saved} \cup (IF panel.saved THEN {} ELSE {"Devices"})
Refuses(t, ok) == t \in Tabs /\ ~tabs[t].saved /\ t \notin ok
BuildXMLDescription(ok) ==
    LET refuse  == {i \in DOMAIN Order : Refuses(Order[i], ok)}
        visited == IF refuse = {} THEN Order ELSE SubSeq(Order, 1, Min(refuse))
    IN /\ ~stack.open
       /\ D!MaySetEmulator
       /\ Become(FoldLeft(LAMBDA w, t : CloseDataEdit(w, t, t \in ok), Now, visited))
       /\ open' = (refuse # {})
       /\ UNCHANGED <<stack, edits, ops, xmlDesc, restores>>

\* The button that starts again from the first description.
RestoreParameters ==
    /\ restores > 0
    /\ restores' = restores - 1
    /\ Become(Opened(xmlDesc))
    /\ stack' = D!NewStack
    /\ UNCHANGED <<edits, ops, xmlDesc, open>>

Next ==
    /\ open
    /\ \/ Devices
       \/ \E t \in Tabs : Edit(t) \/ Save(t) \/ Revert(t) \/ Reset(t)
       \/ \E ok \in SUBSET Asked : BuildXMLDescription(ok)
       \/ RestoreParameters

Spec == Init /\ [][Next]_vars

----------------------------------------------------------------------------
(* Properties, beside those of DomainPromise.                              *)

\* As in DeviceEditor, and: when a tab says that it is saved, as all do when the
\* window hands the description over, it would write what it saved (_tab.cpp:9-66).
DomainIsSaved ==
    /\ D!ShownIsSaved
    /\ \A t \in Tabs : tabs[t].saved => Agrees(TabForm[t], tabs[t].shown, tabs[t].current)

\* As in DeviceEditor, and the same of the tabs.
NothingHiddenInDomain ==
    /\ D!NothingHiddenIsWritten
    /\ \A t \in Tabs : Visible(TabForm[t], tabs[t].shown, tabs[t].current)
=============================================================================
