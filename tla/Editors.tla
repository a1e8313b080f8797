------------------------------ MODULE Editors ------------------------------
(***************************************************************************)
(* The windows that edit descriptions: that of a domain, or those that     *)
(* create storage, secrets and interfaces.  They share nothing, so that a  *)
(* behaviour has windows of one sort only.                                 *)
(***************************************************************************)
EXTENDS DomainEditor, SteadyForms

CONSTANTS CreationForm, Saved, Opens, Changes   \* of CreationWindow

VARIABLES window, file, running, opens          \* of CreationWindow

C == INSTANCE CreationWindow WITH FormOf <- CreationForm

domainVars == <<devices, current, panel, stack, past, edits, ops, tabs, xmlDesc, open, restores>>
creationVars == <<window, file, running, opens>>
windowVars == <<domainVars, creationVars>>

WindowsInit ==
    \/ Init /\ C!None
    \/ C!Init /\ NoWindow
WindowsNext ==
    \/ Next /\ UNCHANGED creationVars
    \/ C!Next /\ UNCHANGED domainVars
WindowsSpec == WindowsInit /\ [][WindowsNext]_windowVars
----------------------------------------------------------------------------

\* A form that says it is saved would write what is saved, one that was not touched
\* what it was opened with: no reading, and no change of another field, alters a
\* part of the description unnoticed (DeviceEditor, DomainEditor, CreationWindow).
ShownIsSaved == DomainIsSaved /\ C!ShownIsSaved
\* What the user never saw is not written (DeviceEditor, DomainEditor, CreationWindow).
NothingHiddenIsWritten == NothingHiddenInDomain /\ C!NothingHiddenIsWritten

\* ShownIsSaved of the steady fields, those of which it can be told from the text of
\* the form alone.
SteadyAgrees(form, shown, is) == \A n \in Steady(form) : AgreesAt(form, shown, is, n)
SteadyIsSaved ==
    /\ PanelShows /\ panel.saved /\ panel.form.read =>
          SteadyAgrees(FormOf[panel.form.kind], panel.form.shown, panel.form.current)
    /\ \A t \in Tabs : tabs[t].saved => SteadyAgrees(TabForm[t], tabs[t].shown, tabs[t].current)
    /\ C!IsOpen => (window.ready /\ window.from # C!NoWindow /\ window.edits = 0 =>
          SteadyAgrees(CreationForm[window.kind], window.shown, window.from))

\* NothingHiddenIsWritten of the covered fields, those of which it can be told from
\* the text of the form alone; also before a window is complete.
AreVisible(form, shown, is) == \A n \in Covered(form) : VisibleAt(form, shown, is, n)
CreatedFrom == IF window.from = C!NoWindow THEN C!Nothing(CreationForm[window.kind]) ELSE window.from
CoveredIsShown ==
    /\ PanelShows => AreVisible(FormOf[panel.form.kind], panel.form.shown, panel.form.current)
    /\ \A t \in Tabs : AreVisible(TabForm[t], tabs[t].shown, tabs[t].current)
    /\ C!IsOpen => AreVisible(CreationForm[window.kind], window.shown, CreatedFrom)
----------------------------------------------------------------------------
(* What the proofs ask of the parameters.                                  *)

IsList(s) == s \in Seq({s[i] : i \in DOMAIN s})
StartsFit == IsList(Order) /\ \A s \in Starts : IsList(s.list) /\ s.restores \in Nat

\* Each description is one of its form.
DeviceFits(k, doc) == k \in DOMAIN FormOf /\ Describes(FormOf[k], doc)
TabFits(t, doc)    == t \in DOMAIN TabForm /\ Describes(TabForm[t], doc)
DescFits(list, docs) ==
    /\ \A i \in DOMAIN list : DeviceFits(list[i][1], list[i][2])
    /\ \A t \in DOMAIN docs : TabFits(t, docs[t])
DocsFit ==
    /\ \A s \in Starts : DescFits(s.list, s.tabs)
    /\ \A path \in {"qemu", ""} : DeviceFits("emulator", Emulator[path])
    /\ \A k \in C!FromFile \cap DOMAIN CreationForm : \A d \in Saved[k] : Describes(CreationForm[k], d)

\* What creates a device writes what its editor reads.
WordsFit ==
    /\ \A k \in DOMAIN FormOf : Worded(FormOf[k])
    /\ \A k \in DOMAIN NewFormOf :
          /\ Worded(NewFormOf[k])
          /\ NewFormOf[k].order # <<>> => k \in DOMAIN FormOf /\ Worded(FormOf[k]) /\ Alike(NewFormOf[k], FormOf[k])
    /\ \A t \in DOMAIN TabForm : Worded(TabForm[t])
    /\ \A k \in DOMAIN CreationForm : k # "none" /\ Worded(CreationForm[k])

\* The choice of an architecture sets fields that are there, in forms that hide none
\* which is written.  The model remembered by the CPU tab is not part of the description.
ArchFits ==
    /\ \A t \in (Booting \cup {"CPU"}) \cap DOMAIN TabForm : Guards(TabForm[t]) = {}
    /\ \A t \in Booting \cap DOMAIN TabForm :
          /\ IsList(SetByArch[t])
          /\ \A i \in DOMAIN SetByArch[t] : SetByArch[t][i][1] \in Names(TabForm[t]) /\ SetByArch[t][i][2] # Absent
    /\ "CPU" \in DOMAIN TabForm =>
          LET f == TabForm["CPU"]
          IN /\ {"vcpu", "current", "model", "currModel", "topology", "sockets"} \subseteq Names(f)
             /\ IsInner(f.at["currModel"])
             /\ \A m \in Names(f) \ {"currModel"} :
                   \A c \in f.at[m].when \cup f.at[m].any : c[1] \in Names(f) \ {"currModel"}

EditorsFit == StartsFit /\ WordsFit /\ DocsFit /\ ArchFits
=============================================================================
