---------------------------- MODULE EntityControls ----------------------------
(***************************************************************************)
(* One entity control (VirtDomainControl or one of its six siblings, see   *)
(* ControlTables) beside its user: the list of the entities of a           *)
(* hypervisor, its context menu, toolbar, dialogs and auto-reload timer,   *)
(* the tasks it orders and what it does with their answers.  Menus and     *)
(* dialogs run an event loop of their own, so timers and answers go on     *)
(* while one is open, and others change the hypervisor at any time.        *)
(*                                                                         *)
(* The connection stays open; TaskWarehouse says what a close does to the  *)
(* tasks, TaskMachine what a task does on the way.                         *)
(***************************************************************************)
EXTENDS ControlTables, Integers, SequencesExt

CONSTANTS
    Name,        \* the entities that a hypervisor may have
    NoName,      \* "none"
    Kinds,       \* which of the controls are checked
    MaxEvents    \* bound on what users, timers and other clients do

ASSUME ControlsAssumption ==
    /\ NoName \notin Name
    /\ IsFiniteSet(Name)
    /\ Kinds \subseteq DOMAIN Control
    /\ MaxEvents \in Nat

VARIABLES
    kind,       \* which control this is
    world,      \* the hypervisor's entities
    rows,       \* DataList of the model
    current,    \* entityList->currentIndex(), or 0; a row keeps its number
    usable,     \* entityList->isEnabled()
    menu,       \* the context menu on screen
    dialog,     \* the dialog of execAction or newVirtEntityFromXML on screen
    tasks,      \* ordered and not yet answered, in the order of ordering
    events,     \* how much users, timers and other clients have done
    stale,      \* others have changed the hypervisor since it was listed
    overtaken,  \* a listing has been answered before one ordered earlier
    crashed     \* the process has ended at an access beyond the list

uiVars   == <<rows, current, usable, menu, dialog>>
ghosts   == <<stale, overtaken>>
vars     == <<kind, world, uiVars, tasks, events, ghosts, crashed>>

\* What an entity may be; volumes, secrets and filters are never started.
Condition ==
    IF kind \in {"VIRT_STORAGE_VOLUME", "VIRT_SECRET", "VIRT_NETWORK_FILTER"}
    THEN {"absent", "stopped"} ELSE {"absent", "stopped", "active"}

NoRow == [name |-> NoName, active |-> FALSE, changing |-> FALSE]

\* relisted: the list has been filled anew since it came on screen.
NoMenu   == [open |-> FALSE, of |-> NoRow, relisted |-> FALSE]
MenuOf(row) == [open |-> TRUE, of |-> row, relisted |-> FALSE]

NoDialog == [what |-> Signal, name |-> NoName, row |-> 0, relisted |-> FALSE]
DialogFor(what, name, row) ==
    [what |-> what, name |-> name, row |-> row, relisted |-> FALSE]

----------------------------------------------------------------------------
(* Orders.                                                                 *)

\* The operations that change no entity that is listed: the reads, the
\* transfers, and the deletion of what a stopped pool stores.
Untouching ==
    ReadsAndTransfers \cup {<<"VIRT_STORAGE_POOL", "DELETE_ENTITY">>,
                            <<"VIRT_STORAGE_VOLUME", "WIPE_ENTITY">>}

\* A refresh finds volumes that others have made.
Finding == {<<"VIRT_STORAGE_VOLUME", "REFRESH_ENTITY">>}

\* What is created has no name yet; an end of changes is for all interfaces.
Reach(op, name) ==
    IF op \in Untouching THEN {}
    ELSE IF name = NoName \/ op[2] \in {"IFACE_CHANGE_COMMIT", "IFACE_CHANGE_ROLLBACK"}
         THEN Name ELSE {name}

Mark(act) ==
    CASE act = "IFACE_CHANGE_BEGIN" -> "set"
      [] act \in {"IFACE_CHANGE_COMMIT", "IFACE_CHANGE_ROLLBACK"} -> "clear"
      [] OTHER -> "keep"

TaskFor(act, name) ==
    [answer |-> Control[kind].result[act], effect |-> Reach(<<kind, act>>, name),
     hidden |-> <<kind, act>> \in Finding, mark |-> Mark(act), name |-> name,
     ran |-> FALSE, ok |-> FALSE, report |-> <<>>]

Listing == TaskFor("GET_ALL_ENTITY_STATE", NoName)
Listings(s) == {i \in DOMAIN s : s[i].answer = "list"}

\* emit addNewTask(&task), after the tasks that are outstanding.
AddNewTask(act, name, outstanding) ==
    /\ tasks' = Append(outstanding, TaskFor(act, name))
    /\ UNCHANGED overtaken

ReloadState(outstanding) ==
    /\ usable' = FALSE
    /\ tasks' = Append(outstanding, Listing)
    /\ overtaken' = (overtaken /\ Listings(outstanding) # {})

Init ==
    /\ kind \in Kinds
    /\ world \in [Name -> Condition]
    /\ rows = <<>>
    /\ current = 0
    /\ usable = FALSE              \* setListHeader has ordered the first listing
    /\ menu = NoMenu
    /\ dialog = NoDialog
    /\ tasks = <<Listing>>
    /\ events = 0
    /\ stale = FALSE
    /\ overtaken = FALSE
    /\ crashed = FALSE

\* What one branch of execAction does, for the entity name.
Perform(what, name) ==
    /\ \/ what.how = "reload" /\ ReloadState(tasks) /\ UNCHANGED dialog
       \/ /\ what.how = "task"
          /\ \E act \in what.acts : AddNewTask(act, name, tasks)
          /\ UNCHANGED <<usable, dialog>>
       \/ /\ what.how \in {"dialog", "dialogAndRow"}
          /\ dialog' = DialogFor(what, name, current)
          /\ UNCHANGED <<usable, tasks, overtaken>>
       \/ what.how = "signal" /\ UNCHANGED <<usable, dialog, tasks, overtaken>>
    /\ UNCHANGED crashed

Branch(branches, method) ==
    IF method \in DOMAIN branches THEN branches[method] ELSE Signal

\* Mutant: the current row is not compared with the length of the list.
ExecActionUnguarded(method) ==
    IF current # 0
    THEN IF current \in DOMAIN rows
         THEN Perform(Branch(Control[kind].exec, method), rows[current].name)
         ELSE crashed' = TRUE /\ UNCHANGED <<usable, dialog, tasks, overtaken>>
    ELSE Perform(Branch(Control[kind].noRow, method), NoName)

\* The row is the current one, whatever the menu was opened on.
ExecAction(method) ==
    IF current \in DOMAIN rows
    THEN Perform(Branch(Control[kind].exec, method), rows[current].name)
    ELSE Perform(Branch(Control[kind].noRow, method), NoName)

----------------------------------------------------------------------------
(* The user.  A menu or a dialog keeps the rest of the control from them.   *)

Act == ~crashed /\ events < MaxEvents /\ events' = events + 1
AtHand == ~menu.open /\ dialog = NoDialog

\* A click of the left button.
SelectRow(i) ==
    /\ ~crashed /\ AtHand /\ usable
    /\ i \in DOMAIN rows
    /\ current' = i
    /\ UNCHANGED <<kind, world, rows, usable, menu, dialog, tasks, events, ghosts, crashed>>

\* Mutant: the menu leaves the current row alone.
EntityClickedKeepingCurrent(i) ==
    /\ Act /\ AtHand /\ usable
    /\ i \in DOMAIN rows
    /\ menu' = MenuOf(rows[i])
    /\ UNCHANGED <<kind, world, rows, current, usable, dialog, tasks, ghosts, crashed>>

\* The press of the right button makes the row current.
EntityClicked(i) ==
    /\ Act /\ AtHand /\ usable
    /\ i \in DOMAIN rows
    /\ current' = i
    /\ menu' = MenuOf(rows[i])
    /\ UNCHANGED <<kind, world, rows, usable, dialog, tasks, ghosts, crashed>>

\* clearSelection() leaves the current row current.
ClickedBesideRows ==
    /\ Act /\ AtHand /\ usable
    /\ menu' = MenuOf(NoRow)
    /\ UNCHANGED <<kind, world, rows, current, usable, dialog, tasks, ghosts, crashed>>

\* When a menu shows a method.
Offered(method) ==
    LET when == Control[kind].menu[method] IN
    \/ when = "anywhere"
    \/ /\ menu.of # NoRow
       /\ \/ when = "row"
          \/ when = "active" /\ menu.of.active
          \/ when = "stopped" /\ ~menu.of.active
          \/ when = "changing" /\ menu.of.changing

ChooseFromMenu(method) ==
    /\ ~crashed /\ menu.open
    /\ method \in DOMAIN Control[kind].menu /\ Offered(method)
    /\ menu' = NoMenu
    /\ ExecAction(method)
    /\ UNCHANGED <<kind, world, rows, current, events, stale>>

CloseMenu ==
    /\ ~crashed /\ menu.open
    /\ menu' = NoMenu
    /\ UNCHANGED <<kind, world, rows, current, usable, dialog, tasks, events, ghosts, crashed>>

\* The toolbar stays enabled while the list is not.
DetectTriggeredAction(method) ==
    /\ Act /\ AtHand
    /\ method \in Control[kind].toolBar
    /\ ExecAction(method)
    /\ UNCHANGED <<kind, world, rows, current, menu, stale>>

EntityDoubleClicked(i) ==
    /\ Act /\ AtHand /\ usable
    /\ i \in DOMAIN rows
    /\ current' = i
    /\ Perform(Control[kind].double, rows[i].name)
    /\ UNCHANGED <<kind, world, rows, menu, stale>>

NewVirtEntityFromXML(what) ==
    /\ Act /\ AtHand
    /\ what \in Control[kind].new
    /\ Perform(what, NoName)
    /\ UNCHANGED <<kind, world, rows, current, menu, stale>>

\* The dialog's exec() returns what.exit.  One branch reads the row again,
\* DataList.at() without a look at the length of the list.
AcceptDialog ==
    /\ ~crashed /\ dialog # NoDialog
    /\ LET beyond == dialog.what.how = "dialogAndRow" /\ dialog.row \notin DOMAIN rows
           order  == \E act \in dialog.what.acts : AddNewTask(act, dialog.name, tasks)
       IN \/ dialog.what.exit # 0 /\ order /\ dialog' = NoDialog /\ UNCHANGED crashed
          \/ beyond /\ crashed' = TRUE /\ UNCHANGED <<dialog, tasks, overtaken>>
          \/ /\ dialog.what.exit = 0 /\ dialog' = NoDialog
             /\ UNCHANGED <<tasks, overtaken, crashed>>
    /\ UNCHANGED <<kind, world, rows, current, usable, menu, events, stale>>

CancelDialog ==
    /\ ~crashed /\ dialog # NoDialog
    /\ dialog' = NoDialog
    /\ UNCHANGED <<kind, world, rows, current, usable, menu, tasks, events, ghosts, crashed>>

\* The toolbar's timer, or ...StateChanged() of the hypervisor; a menu or a
\* dialog does not hold it up.
ReloadByItself ==
    /\ Act
    /\ ReloadState(tasks)
    /\ UNCHANGED <<kind, world, rows, current, menu, dialog, stale, crashed>>

----------------------------------------------------------------------------
(* The hypervisor and the tasks.                                           *)

Changed(names) ==
    \E n \in names, s \in Condition :
        s # world[n] /\ world' = [world EXCEPT ![n] = s]

WorldChanges ==
    /\ Act
    /\ Changed(Name)
    /\ stale' = TRUE
    /\ UNCHANGED <<kind, uiVars, tasks, overtaken, crashed>>

Present == {n \in Name : world[n] # "absent"}
ReportOf(names) == [i \in DOMAIN names |-> [name |-> names[i], active |-> world[names[i]] = "active"]]

\* The libvirt calls of a listing, in any order of the entities; or it fails
\* and lists nothing.
RunListing(i) ==
    /\ tasks[i].answer = "list"
    /\ \/ \E names \in SetToSeqs(Present) :
              /\ tasks' = [tasks EXCEPT ![i].ran = TRUE, ![i].ok = TRUE,
                                        ![i].report = ReportOf(names)]
              /\ stale' = (stale /\ \E j \in Listings(tasks) : tasks[j].ran)
       \/ tasks' = [tasks EXCEPT ![i].ran = TRUE] /\ stale' = TRUE
    /\ UNCHANGED world

\* Those of an action; a listed entity may change, or come, or go.
RunAction(i) ==
    /\ tasks[i].answer # "list"
    /\ \/ tasks' = [tasks EXCEPT ![i].ran = TRUE] /\ UNCHANGED <<world, stale>>
       \/ /\ tasks' = [tasks EXCEPT ![i].ran = TRUE, ![i].ok = TRUE]
          /\ stale' = (stale \/ tasks[i].hidden)
          /\ Changed(tasks[i].effect) \/ UNCHANGED world

RunTask(i) ==
    /\ ~crashed
    /\ i \in DOMAIN tasks /\ ~tasks[i].ran
    /\ RunListing(i) \/ RunAction(i)
    /\ UNCHANGED <<kind, uiVars, events, overtaken, crashed>>

----------------------------------------------------------------------------
(* resultReceiver.                                                         *)

\* removeRow(0) or insertRow(1) until the list has n rows.
Resized(s, n) ==
    IF Len(s) > n THEN SubSeq(s, Len(s) - n + 1, Len(s))
    ELSE LET top == Min({1, Len(s)})
         IN SubSeq(s, 1, top) \o [i \in 1 .. n - Len(s) |-> NoRow] \o SubSeq(s, top + 1, Len(s))

\* setData row by row; the mark of a change in hand is not among the data.
Filled(report) ==
    LET old == Resized(rows, Len(report))
    IN [i \in DOMAIN report |->
            [name |-> report[i].name, active |-> report[i].active, changing |-> old[i].changing]]

\* Mutant: an empty list is not an answer.
ReceiveListIfAny(i, rest) ==
    /\ IF tasks[i].report = <<>>
       THEN UNCHANGED <<rows, usable, menu, dialog>>
       ELSE /\ rows' = Filled(tasks[i].report)
            /\ usable' = TRUE
            /\ menu' = [menu EXCEPT !.relisted = menu.open]
            /\ dialog' = [dialog EXCEPT !.relisted = dialog # NoDialog]
    /\ tasks' = rest
    /\ overtaken' = (overtaken \/ \E j \in Listings(tasks) : j < i)

ReceiveList(i, rest) ==
    /\ rows' = Filled(tasks[i].report)
    /\ usable' = TRUE
    /\ menu' = [menu EXCEPT !.relisted = menu.open]
    /\ dialog' = [dialog EXCEPT !.relisted = dialog # NoDialog]
    /\ tasks' = rest
    /\ overtaken' = (overtaken \/ \E j \in Listings(tasks) : j < i)

\* Any other answer; some are followed by a new listing.
ReceiveOther(i, rest, reload) ==
    /\ IF reload THEN ReloadState(rest) ELSE tasks' = rest /\ UNCHANGED <<usable, overtaken>>
    /\ UNCHANGED <<rows, menu, dialog>>

\* The row is looked for by its name, and then the list is ordered.
ReceiveChanging(i, rest) ==
    LET task == tasks[i]
        found == {r \in DOMAIN rows : rows[r].name = task.name}
        mark == task.mark = "set"
    IN /\ IF task.ok
          THEN rows' = [r \in DOMAIN rows |->
                           IF found # {} /\ r = Min(found)
                           THEN [rows[r] EXCEPT !.changing = mark] ELSE rows[r]]
          ELSE UNCHANGED rows
       /\ ReloadState(rest)
       /\ UNCHANGED <<menu, dialog>>

\* TaskWareHouse passes the answers on in the order in which the threads end.
ResultReceiver(i) ==
    /\ ~crashed
    /\ i \in DOMAIN tasks /\ tasks[i].ran
    /\ LET rest == RemoveAt(tasks, i)
           answer == tasks[i].answer
       IN \/ answer = "list" /\ ReceiveList(i, rest)
          \/ answer = "changing" /\ ReceiveChanging(i, rest)
          \/ answer = "told" /\ ReceiveOther(i, rest, TRUE)
          \/ answer = "reload" /\ ReceiveOther(i, rest, tasks[i].ok)
          \/ answer \in {"show", "editor", "none"} /\ ReceiveOther(i, rest, FALSE)
    /\ UNCHANGED <<kind, world, current, events, stale, crashed>>

----------------------------------------------------------------------------

Methods == DOMAIN Control[kind].menu \cup Control[kind].toolBar

Next ==
    \/ \E i \in DOMAIN rows : SelectRow(i) \/ EntityClicked(i) \/ EntityDoubleClicked(i)
    \/ ClickedBesideRows
    \/ \E method \in Methods : ChooseFromMenu(method) \/ DetectTriggeredAction(method)
    \/ CloseMenu
    \/ \E what \in Control[kind].new : NewVirtEntityFromXML(what)
    \/ AcceptDialog \/ CancelDialog
    \/ ReloadByItself \/ WorldChanges
    \/ \E i \in DOMAIN tasks : RunTask(i) \/ ResultReceiver(i)

\* The threads run and the GUI thread takes what they emit.
Spec ==
    /\ Init /\ [][Next]_vars
    /\ WF_vars(\E i \in DOMAIN tasks : RunTask(i))
    /\ WF_vars(\E i \in DOMAIN tasks : ResultReceiver(i))

----------------------------------------------------------------------------
(* Properties.                                                             *)

\* What the user picks from a row's menu is ordered, or its dialog opened, for
\* the entity whose menu it was, though execAction takes the current row; a
\* list that is filled while the menu is open is the only way to hit another.
MenuActsOnItsEntity ==
    [][menu.open /\ menu.of # NoRow /\ ~menu.relisted =>
           /\ Len(tasks') = Len(tasks) + 1 /\ Last(tasks').answer # "list"
                  => Last(tasks').name = menu.of.name
           /\ dialog' # dialog /\ dialog = NoDialog => dialog'.name = menu.of.name]_vars

\* When nothing is outstanding, nobody else has changed the hypervisor since
\* and no listing was overtaken, the rows are its entities and their states:
\* every answer that may have changed them has been followed by a listing.
ShownIsTrue ==
    tasks = <<>> /\ ~stale /\ ~overtaken =>
        /\ {r.name : r \in ToSet(rows)} = Present
        /\ Len(rows) = Cardinality(Present)
        /\ \A r \in ToSet(rows) : r.active <=> world[r.name] = "active"

\* An access beyond the list needs a list that was filled under a dialog.
CrashNeedsRelist == crashed => dialog # NoDialog /\ dialog.relisted

\* A list that waits for its entities is enabled again.
ListComesBack == ~usable ~> (usable \/ crashed)
=============================================================================
