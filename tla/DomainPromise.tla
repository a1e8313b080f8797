---------------------------- MODULE DomainPromise ----------------------------
(***************************************************************************)
(* What the window that edits a domain promises of its list of devices and *)
(* of the panel that edits one of them, whatever the forms are.            *)
(***************************************************************************)
EXTENDS Naturals, Sequences, FiniteSets

VARIABLES
    devices,     \* usedDeviceList: [id, kind, doc]; id tells the devices apart
    current,     \* the current row of the list, 0 for none
    panel,       \* DeviceData
    past,        \* what happened to the rows since the device was selected
    restores     \* bound: how often the user may still start again

PanelShows == panel.form.of # 0

\* A save replaces the row remembered when the device was selected (devices.cpp:
\* 400-409, 454-469).  Unless one came after selecting saved another device, or after
\* one was added or deleted, the list holds every device that was there or was added
\* and not deleted, each once.
DevicesAreKept ==
    ~past.spoilt =>
        LET ids == {devices[i].id : i \in DOMAIN devices}
        IN /\ Cardinality(ids) = Len(devices)
           /\ ids = (1 .. (Len(devices) + Cardinality(past.gone))) \ past.gone

\* What was changed and saved in the panel is in the list once the panel shows
\* this device no more, however it was left, unless this device was deleted, or
\* another one: storing a device moves rows, what is shown anew may then not be of
\* the current row, and delDevice takes the current row (devices.cpp:383-394).
Strayed == current # 0 /\ devices[current].id # panel.form.of
StoresWhatIsSaved ==
    PanelShows /\ panel.saved /\ panel.changed /\ panel'.form.of # panel.form.of =>
        \/ panel.form.of \in past'.gone
        \/ \E i \in DOMAIN devices' :
              devices'[i].id = panel.form.of /\ devices'[i].doc = panel.form.current
        \/ Strayed /\ devices[current].id \in past'.gone
\* Unless the window starts again.
SavedIsStored == [][restores' = restores => StoresWhatIsSaved]_<<devices, current, panel, past, restores>>
=============================================================================
