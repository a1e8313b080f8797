---------------------------- MODULE DeviceEditor ----------------------------
(***************************************************************************)
(* The Devices tab of the domain editor: the list of the devices and the   *)
(* panel that edits one of them, which remembers the row of its device and *)
(* has two flags of its own, saved and changed.  The form of a device is   *)
(* shown at once and reads the description 333 ms later.                   *)
(***************************************************************************)
EXTENDS Forms, FiniteSetsExt

CONSTANTS
    FormOf,      \* the form of each kind of device (module Forms)
    Rank,        \* the place of each kind in the order of the list
    Unique,      \* the kinds of which the list has one device at most
    NewFormOf,   \* the forms that create devices, by kind; with no fields for a
                 \* kind of which none can be created
    Starts       \* [list, edits, ops]: a list to start with, a sequence of
                 \* <<kind, description>>, and how much the user does to it

VARIABLES
    devices,     \* usedDeviceList: [id, kind, doc]; id tells the devices apart
    current,     \* the current row of the list, 0 for none
    panel,       \* DeviceData
    stack,       \* DeviceStack, which takes the place of list and panel while it is open
    past,        \* what happened to the rows since the device was selected
    edits, ops   \* bound: how often the user may still change a field; select,
                 \* add or delete a device

vars == <<devices, current, panel, stack, past, edits, ops>>

NoForm == [of |-> 0]
Open(p) == p.form.of # 0

Now == [devices |-> devices, current |-> current, panel |-> panel, past |-> past]
Become(e) ==
    /\ devices' = e.devices
    /\ current' = e.current
    /\ panel'   = e.panel
    /\ past'    = e.past

Nothing == [since |-> "nothing", spoilt |-> FALSE, gone |-> {}]
NoDevice == [kind |-> "none"]

\* The tab as it is made from a list of devices.
Detected(list) ==
    [devices |-> [i \in DOMAIN list |-> [id |-> i, kind |-> list[i][1], doc |-> list[i][2]]],
     current |-> 0,
     panel   |-> [form |-> NoForm, saved |-> TRUE, changed |-> FALSE],
     past    |-> Nothing]
NewStack == [open |-> FALSE, enabled |-> TRUE, chosen |-> "none", device |-> NoDevice]

Init ==
    /\ stack = NewStack
    /\ \E s \in Starts : \E e \in {Detected(s.list)} :
          /\ devices = e.devices /\ current = e.current /\ panel = e.panel /\ past = e.past
          /\ edits = s.edits
          /\ ops = s.ops

----------------------------------------------------------------------------
(* The list.                                                               *)

\* A row is taken out: the next row, or else the one before, becomes current.
TakeItem(e, r) ==
    IF r \notin DOMAIN e.devices THEN e
    ELSE LET left == RemoveAt(e.devices, r)
         IN [e EXCEPT !.devices = left,
                      !.current = IF @ > r \/ @ > Len(left) THEN @ - 1 ELSE @]

\* The device that one of a unique kind replaces.
Others(list, kind) == {i \in DOMAIN list : kind \in Unique /\ list[i].kind = kind}
Replace(e, r) == [TakeItem(e, r) EXCEPT !.past.gone = @ \cup {e.devices[r].id}]

\* A device goes behind the last one of its kind, or of the nearest kind before.
InsertDevice(e, row, d) ==
    [e EXCEPT !.devices = InsertAt(@, row, d), !.current = IF @ >= row THEN @ + 1 ELSE @]
PlaceFor(list, kind) == Max({0} \cup {i \in DOMAIN list : Rank[list[i].kind] <= Rank[kind]}) + 1
Placed(e, d) == InsertDevice(e, PlaceFor(e.devices, d.kind), d)
AddDeviceToUsedDevList(e, d) ==
    LET others == Others(e.devices, d.kind)
    IN Placed(IF others = {} THEN e ELSE Replace(e, Min(others)), d)

\* The device of the remembered row is replaced, without a signal of the list.
\* Mutant: the old description stays in the list.
SaveDeviceXMLDescriptionTwice(e, row, d) ==
    AddDeviceToUsedDevList([e EXCEPT !.past.spoilt = @ \/ e.past.since # "nothing"], d)
SaveDeviceXMLDescription(e, row, d) ==
    AddDeviceToUsedDevList(
        TakeItem([e EXCEPT !.past.spoilt = @ \/ e.past.since # "nothing"], row), d)

----------------------------------------------------------------------------
(* The panel.                                                              *)

SetStartState(e)  == [e EXCEPT !.panel.saved = TRUE, !.panel.changed = FALSE]
ClearDataEdit(e)  == [e EXCEPT !.panel.form = NoForm, !.past.since = "nothing"]
SaveDeviceData(e) ==
    LET s == [e EXCEPT !.panel.saved = TRUE]
        f == e.panel.form
    IN IF Open(e.panel) THEN [s EXCEPT !.panel.form.current = Write(FormOf[f.kind], f.shown)] ELSE s

\* A device whose panel was closed is stored if it had changed.
Store(e, f) ==
    SaveDeviceXMLDescription(SetStartState(e), f.row, [id |-> f.of, kind |-> f.kind, doc |-> f.current])
Leave(e, stores) == ClearDataEdit(IF Open(e.panel) /\ stores THEN Store(e, e.panel.form) ELSE e)
LeaveData(e)     == Leave(e, e.panel.changed)
\* The question about unsaved changes is asked first; on Cancel the changes that
\* were saved before go too.
Asking(e, ok) == IF e.panel.saved THEN e ELSE IF ok THEN SaveDeviceData(e) ELSE SetStartState(e)
\* Mutant: only what is saved on closing is stored.
CloseDataEditLoses(e, ok) == Leave(Asking(e, ok), ok /\ e.panel.changed /\ ~e.panel.saved)
CloseDataEdit(e, ok)      == LeaveData(Asking(e, ok))

\* The row is looked up before the device shown so far is closed; the flags are
\* those of the panel.
ShowForm(e, closed, d, r) ==
    [closed EXCEPT
        !.panel.form = [of |-> d.id, kind |-> d.kind, row |-> r, read |-> FALSE, settled |-> FALSE,
                        shown |-> First(FormOf[d.kind]), first |-> d.doc, current |-> d.doc],
        !.past.since = IF closed.devices # e.devices THEN "left" ELSE "nothing"]
Closed(e, ok) == IF Open(e.panel) THEN CloseDataEdit(e, ok) ELSE e
ShowDevice(e, r, ok) == ShowForm(e, Closed([e EXCEPT !.current = r], ok), e.devices[r], r)

\* The user is asked only if there is something to ask about.
Answers == IF panel.saved THEN {TRUE} ELSE BOOLEAN
\* While a form has not read its description the list is disabled.
ListEnabled == ~stack.open /\ (Open(panel) => panel.form.read)
PanelOpen   == ~stack.open /\ Open(panel)

Operate == ops > 0 /\ ops' = ops - 1 /\ UNCHANGED edits

Select(r, ok) ==
    /\ Operate
    /\ ListEnabled
    /\ Become(ShowDevice(Now, r, ok))
    /\ UNCHANGED stack

\* complete(), 333 ms after the form was made: it reads what the panel holds,
\* and is listened to from now on.
DeviceDataProcessed ==
    /\ Open(panel)
    /\ ~panel.form.read
    /\ panel' = [panel EXCEPT !.form.read = TRUE,
                              !.form.settled = LateFields(FormOf[panel.form.kind]) = {},
                              !.form.shown = Read(FormOf[panel.form.kind], @, panel.form.current)]
    /\ UNCHANGED <<devices, current, stack, past, edits, ops>>

\* What the form shows becomes s: currentStateChanged, unless nobody was told.
Shown(s) ==
    LET form == FormOf[panel.form.kind]
        told == Told(form, panel.form.shown, s)
    IN panel' = [panel EXCEPT !.form.shown = s, !.saved = @ /\ ~told, !.changed = @ \/ told]

\* A timer of the form ends after it was read, or has ended before.
Settle ==
    /\ Open(panel) /\ panel.form.read /\ ~panel.form.settled
    /\ LET s == Settled(FormOf[panel.form.kind], panel.form.shown)
           told == Told(FormOf[panel.form.kind], panel.form.shown, s)
       IN panel' = [panel EXCEPT !.form.shown = s, !.form.settled = TRUE,
                                 !.saved = @ /\ ~told, !.changed = @ \/ told]
    /\ UNCHANGED <<devices, current, stack, past, edits, ops>>

Edit ==
    /\ edits > 0
    /\ PanelOpen /\ panel.form.read
    /\ \E e \in Edits(FormOf[panel.form.kind], panel.form.shown) :
          Shown(Pick(panel.form.shown, e[1], e[2]))
    /\ edits' = edits - 1
    /\ UNCHANGED <<devices, current, stack, past, ops>>

\* The buttons of the panel work before the form has read its description.
Save ==
    /\ PanelOpen
    /\ Become(SaveDeviceData(Now))
    /\ UNCHANGED <<stack, edits, ops>>

\* The description read is that of the last save, or the first one.
Restored(doc) ==
    LET p == panel.form
        s == Read(FormOf[p.kind], p.shown, doc)
        told == p.read /\ Told(FormOf[p.kind], p.shown, s)
    IN panel' = [panel EXCEPT !.form.shown = s, !.form.current = doc,
                              !.saved = TRUE, !.changed = @ \/ told]
Revert ==
    /\ PanelOpen
    /\ ~panel.saved
    /\ Restored(panel.form.current)
    /\ UNCHANGED <<devices, current, stack, past, edits, ops>>
Reset ==
    /\ PanelOpen
    /\ Restored(panel.form.first)
    /\ UNCHANGED <<devices, current, stack, past, edits, ops>>

\* The close button, and what the other operations and the Ok of the window do
\* first: getDataDocument.
Close(ok) ==
    /\ ~stack.open
    /\ Open(panel) \/ ~panel.saved
    /\ Become(CloseDataEdit(Now, ok))
    /\ UNCHANGED <<stack, edits, ops>>

\* The current row goes after the list has selected the next one, which is shown
\* with the row it is about to leave and with the flags of the device that goes.
NextShown(e, n) == IF n = 0 THEN e ELSE ShowDevice(e, n, TRUE)
TakeCurrent(e) ==
    LET r == e.current
        n == IF r < Len(e.devices) THEN r + 1 ELSE r - 1
    IN [Replace([NextShown(ClearDataEdit(e), n) EXCEPT !.current = r], r) EXCEPT
           !.past.since = IF n = 0 THEN @ ELSE "deleted"]
Delete(ok) ==
    /\ Operate
    /\ ListEnabled
    /\ current # 0
    /\ Become(CloseDataEdit(TakeCurrent(Now), ok))
    /\ UNCHANGED stack

\* The dialog that creates a device.  A kind that is chosen already cannot be
\* chosen again; the list is disabled until the form is complete.
ShowDeviceStack ==
    /\ Operate
    /\ ListEnabled
    /\ stack' = [stack EXCEPT !.open = TRUE]
    /\ UNCHANGED <<devices, current, panel, past>>
ShowNewDevice(k) ==
    /\ stack.open /\ stack.enabled /\ stack.chosen # k
    /\ stack' = [stack EXCEPT !.enabled = FALSE, !.chosen = k,
                              !.device = [kind |-> k, ready |-> FALSE, shown |-> First(NewFormOf[k])]]
    /\ UNCHANGED <<devices, current, panel, past, edits, ops>>
NewDeviceProcessed ==
    /\ stack.device.kind # "none"
    /\ ~stack.device.ready
    /\ stack' = [stack EXCEPT !.enabled = TRUE, !.device.ready = TRUE]
    /\ UNCHANGED <<devices, current, panel, past, edits, ops>>
EditNewDevice ==
    /\ edits > 0
    /\ stack.open /\ stack.device.kind # "none" /\ stack.device.ready
    /\ \E e \in Edits(NewFormOf[stack.device.kind], stack.device.shown) :
          stack' = [stack EXCEPT !.device.shown = Pick(@, e[1], e[2])]
    /\ edits' = edits - 1
    /\ UNCHANGED <<devices, current, panel, past, ops>>

NewDevice(e, kind, doc) == [id |-> 1 + Len(e.devices) + Cardinality(e.past.gone), kind |-> kind, doc |-> doc]
Put(e, kind, doc) ==
    [AddDeviceToUsedDevList(e, NewDevice(e, kind, doc)) EXCEPT !.past.since = "added"]
\* The new device is inserted before the device shown is closed.  The buttons work
\* before the form is complete, and the list stays disabled then.
AddDevice(accepted, ok) ==
    LET d == stack.device
        made == accepted /\ d.kind # "none" /\ NewFormOf[d.kind].order # <<>>
    IN /\ stack.open
       /\ Become(IF made THEN CloseDataEdit(Put(Now, d.kind, Write(NewFormOf[d.kind], d.shown)), ok) ELSE Now)
       /\ stack' = [stack EXCEPT !.open = FALSE, !.device = NoDevice]
       /\ UNCHANGED <<edits, ops>>

\* The emulator that the system needs takes the place of the one that is there.
\* (Bound: the one replaced is not shown with changes, nor while it is the only
\* device, when no other is shown in its place and its panel stays.)
MaySetEmulator ==
    current \in Others(devices, "emulator") => ~panel.changed /\ panel.saved /\ Len(devices) > 1
SetEmulator(e, doc) ==
    LET old == Others(e.devices, "emulator")
    IN Put(IF old = {} THEN e ELSE IF Min(old) = e.current THEN TakeCurrent(e) ELSE Replace(e, Min(old)),
           "emulator", doc)

Next ==
    \/ \E r \in DOMAIN devices, ok \in Answers : Select(r, ok)
    \/ DeviceDataProcessed
    \/ Settle
    \/ Edit
    \/ Save
    \/ Revert
    \/ Reset
    \/ ShowDeviceStack
    \/ \E k \in DOMAIN NewFormOf : ShowNewDevice(k)
    \/ NewDeviceProcessed
    \/ EditNewDevice
    \/ \E ok \in Answers : Close(ok) \/ Delete(ok) \/ \E accepted \in BOOLEAN : AddDevice(accepted, ok)

Spec == Init /\ [][Next]_vars

----------------------------------------------------------------------------
(* Properties, beside those of DomainPromise.                              *)

\* When the panel says that all is saved, the form would write what is saved: no
\* reading, and no change of another field, alters a part of the description
\* unnoticed.
ShownIsSaved ==
    Open(panel) /\ panel.saved /\ panel.form.read =>
        Agrees(FormOf[panel.form.kind], panel.form.shown, panel.form.current)

\* Nothing that the user never saw goes into the description.
NothingHiddenIsWritten ==
    Open(panel) => Visible(FormOf[panel.form.kind], panel.form.shown, panel.form.current)
=============================================================================
