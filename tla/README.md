# qt-virt-manager in TLA+

qt-virt-manager is a Qt program that manages virtual machines through libvirt.
Its own logic is the coordination of threads around libvirt handles: connection
threads, task threads, the libvirt event loop's thread and the GUI thread share
one `virConnectPtr` per connection and talk through Qt's queued signals. That
coordination is what this project models, checks and proves.

## The system

| part | state | operations | talks to |
|---|---|---|---|
| `ConnAliveThread` (one per connection) | the handle slot `*ptr_ConnPtr`, `keep_alive`, `onView`, the close callback | open, register events, sleep in a loop, close; callbacks of the event loop | `ConnElement` by queued signals, the GUI by its slot |
| `ConnElement`, `ConnItemIndex` | what the row says: state and availability | `setConnectionState`, open, close, overview | `ConnectionList`, `MainWindow` |
| `ConnectionList` | `onViewExist`, the model of rows, its own `isEnabled()` | create, open, close, overview, delete, refresh localhost | elements, search threads |
| `MainWindow` | whose pointer the docks hold, the mask of updated controls, the registry of windows | `receiveConnPtrPtr`, `entityControlUpdated`, `stopConnProcessing`, viewers, editors, exit, restart | everything |
| six entity controls | `ptr_ConnPtr`, the list, enabled or not | reload, act on a row, receive a result | `TaskWareHouse`, `MainWindow` |
| `TaskWareHouse` | `counter`, `threadPool`, the list of tasks | `addNewTask`, `taskResultReceiver` | one `ControlThread` per task |
| `VirtEventLoop` | the default event loop of libvirt | run, stop | the callbacks of `ConnAliveThread` |
| `SearchThread`, `WaitLocalConn`, `Wait` | what is being waited for | search for local hypervisors, close everything at the end | `ConnectionList`, `MainWindow` |
| `ConnSettings`, the map `connections` | names: of rows, elements, keys, settings groups | new, edit, rename, cancel, delete | `ConnectionList`, the settings file |
| task threads (one class per kind of entity) | the libvirt objects a task holds, its result | about seventy operations, each a sequence of libvirt calls | the handle of their connection, `TaskWareHouse` |
| control menus, toolbars, dialogs | the row they were opened on, an auto-reload timer | offer and choose a method | their control |
| viewers, editors, dialogs, state monitor | a reference to a connection each | open, close | `MainWindow`'s registry |
| creation windows, tabs, the Devices tab | the description shown, saved and first read | read, write, save, revert, reset, Ok | each other, a temporary file, a control |
| `SSH_Tunnel` | the state of an ssh process | start, stop, retry ports | a viewer |

A signal emitted in the GUI thread runs its slots at once; one emitted in any
other thread is posted to the GUI thread's queue, which is first in, first out.
What is hard is the order of things: two threads and a user act on a handle that
only one of them knows to be closed, results come back after the view has
changed, and a list stays disabled until six answers have come in. PROJECT.json
lists these hazards at their lines. The editors are hard in another way: a form
must write back what it read, whatever it does not know or does not show.

## The modules

### ConnLifecycle, ConnRows

`ConnLifecycle` models a set of connections: the row (`item`, `busy`), the
thread (`thread`, `keepAlive`), the handle slot (`ptr`: null, open, or dead when
the peer has gone), the close callback, the view (`onView`, `onViewExist`,
`docks`, `listEnabled`), the search at start (`searching`) and the GUI thread's
queue. The worker's actions are the steps of `ConnAliveThread::run`; `Deliver`
runs the slot of one posted signal to its end; `CreateConnection`, `OpenItem`,
`CloseItem`, `OverviewItem`, `CloseOverview`, `DeleteConnection` and
`RefreshLocalhost` are the user's. A close by the user runs in the GUI thread,
so its signals are direct; a close by the peer (`RemoteClose`) runs in the event
loop's thread and posts. `aborted` is the end of the process when a running
`QThread` is destroyed.

`ConnRows` is the abstract specification of one row: the states a user may see
one after the other. `ConnLifecycle` is shown to implement it (`RowsInOrder`).

### TaskWarehouse

The docks of the connection on view: the controls order tasks, each task runs in
a thread of its own, its result is posted, delivered to the control, and
announced to `MainWindow`, which enables the connection list when all controls
have reported. A task has a number, a control, a connection, a kind (`reload`,
or a `change` such as start, destroy, define) and a step. The connections of
`ConnLifecycle` appear by their handles only: they open, are closed by the user
or by their peers at any time (`OpenConnection`, `CloseConnection`,
`RemoteClose`). The six controls differ in what they list and not in this
protocol, so they are `1 .. NControls`; the lines in the map are those of the
domain control, its siblings repeat them.

`version` numbers what a hypervisor really has, so that "the list is true" can be
said. A result carries no connection (struct `Result` has none): the task's
connection is kept in the model to say whose entities fill the list, and no
action reads it for a decision.

Who is told of a close is the thread's own `onView` (`conn_alive_thread.cpp:81`),
and not the docks: an Overview of a row that is not running (`OverviewOfOther`)
takes the thread off view and leaves the docks as they are, and a failed
`virConnectClose` emits no `connClosed` at all. The docks then keep a null pointer
(`DocksUntold`, remembered in `untold`), a reload that is ordered is refused and its
list stays disabled: `DisabledListIsAwaited` and `QuietListIsTrue` except such docks.
Hypervisors announce changes of domains, networks, pools and secrets while the
thread is on view, and never those of interfaces and network filters
(`conn_alive_thread.cpp:131-189`): `Watched` are the controls of the first sort, and
what changes unannounced is in `missed` until the next listing.

Bounds: `connClosed` is delivered at once here and delayed in `ConnLifecycle`; no row
is renamed here (that is in `ConnNames`, `AppLifecycle` and `ConnWindows`); docks are
shown a handle that is open or whose peer is gone. That leaves out one behaviour:
RUNNING is posted while the GUI is busy, the peer closes and a new attempt fails,
and the delivery then shows a null handle in the docks. All six reloads are refused
and the connection list stays disabled.

### AppLifecycle

`AppLifecycle` extends `ConnLifecycle` with the start, the restart and the end of the
program. `loop` is the thread of `VirtEventLoop`, `wait`, `todo` and `toDelete` are
the thread `Wait`, `inputs` and `fileMenu` say what the user can reach, `restarting`,
`toExit` and `quit` are what `MainWindow` knows. `label` is what a row goes by: the
name of its element, or a new one that the settings dialog gave it, by which no
element is found until the row is clicked or the element writes its own name back with
its next state (`RenameRow`, `ClickRenamed`, `DeleteRenamed`, `Found`). The actions of
the connections go on under it; a row is a connection whose `item` is not `absent`,
and an element whose row the `Wait` thread has removed lives on without one
(`DeliverEvent`). `WaitVisit` closes a connection from the `Wait` thread: its signals
are posted, where those of a close by the user are direct. `WaitVisit` and
`WaitRemove` do nothing to a row that finds no element (`wait_thread.cpp:30-55`): with
a row that was renamed and not clicked, `Wait::run` goes on for ever and the program
ends only by a second close event. `ExitEnds` and `RestartEnds` except just that
(`Stuck`).

Bounds: a row that was reset by a click while its thread ran, and has heard nothing
from its element since, is not renamed again, and a renamed row that
`CloseAllConnections` takes over is not one to be opened at start; nobody exits or
restarts while the program starts or searches (`StartIsOver`); a pass of `Wait` begins
only when the queue is within `QueueBound`; a connection is listed again only when its
earlier element has come to rest (`Free`). `Wait` sleeps for a second and a connection
thread for half of one, so a thread that is due to leave its loop has left it when
`Wait` wakes (`Awake`); this is the one use of time in the project. Signals of the
threads other than the connections' are delivered at any time after they were posted,
which allows more orders than Qt does. The last moment of the event loop's `run()`,
after `freeCallback`, counts as ended when the window is destroyed.

`hasty` is a history variable: an exit or restart began while a connection was opening
or an event was queued, the user closed the window a second time, or a renamed row was
reset or deleted while its thread ran, whose handle is then live behind a row that
reads CLOSED, or behind none. Such an exit is not clean in the code: a connection that
is opening is told to close, posts FAILED, loses its row, and opens afterwards, with a
thread that is then destroyed while it runs. `CleanExit` says what holds of all the
others. `hasty` stays set, so `AppPair` does not go on from states that have it (`InTime`);
`MainWindow` does.

### AuthHandshake, Application

`AuthHandshake` opens `AppLifecycle`'s one step "the open call returns":
`ConnAliveThread::authCallback` runs inside `virConnectOpenAuth`, posts a
question (`mail`) and polls `authWaitKey` for at most half a minute (`TimeOut`
may come at any moment); `ConnectionList` shows an input dialog with an event
loop of its own, so `dialogs` is a stack; `SetAuthCredentials` runs in two steps,
as the thread polls between them. `cbdata` is the static `virConnectAuth` that
every opening overwrites, so the callback of one connection may ask in the name
of another. `setAuthCredentials` keeps a pointer into a temporary: what is read
through it is either the text or `Garbage`, at the model's choice. A pointer
never set is null, and `strdup` of it ends the process. `overlapped` and `late`
remember which openings were disturbed by another one or by a late answer; the
two properties speak of the others. Bound: `MaxTurn` openings.

`Application` puts both beside each other: a behaviour has one `scene`, the life
cycle or the questions. They change nothing in common. The main window's two jobs
are put together in the same way (`MainWindow`), and so are the editors
(`Editors`).

### ConnNames

Under which name a connection is found. A connection has up to four names: its
row's, the row's `initName`, the element's, and the key in `connections`; and a
group in the settings. `SaveConnection` is the dialog's Save (which renames the
row and the group) together with what `addConnItem` does afterwards; `RefuseName` is
the Save that is refused, which has already made the refused name the dialog's
(`conn_settings.cpp:136`), so that `CancelConnection` removes the group of that name,
be it another connection's (line 181); `Click` and
`DoubleClick` give element and key the row's name; `Deliver` writes the element's
name back into the row (`conn_element.cpp:222`); `Delete` looks up by the row's
name; `WaitLooks` and `WaitRemoves` are a round of `WaitLocalConn`, which looks up
by the element's. Threads are shortened to what `ConnLifecycle` says of them.

`rash` is history: a name was changed while its connection was in use, a name
was taken under which another connection was kept, or the search removed a row
whose thread was opening. Each of the three is needed: without it TLC finds
- a running connection renamed and not clicked gets its old name back with its
  next state, while the group of that name is gone; clicked, it reads CLOSED and
  available while it runs;
- a renamed row that is deleted before a click leaves its element in the map and
  its group in the settings, which comes back at the next start; a name given up
  and taken by a new connection makes the old row act on the new element;
- a local connection that is opening when the user refreshes loses its row and
  opens afterwards, with no row to close it from.

`WaitLocalConn` turns for ever, without a sleep, with list and menus disabled, when
a local connection's row was renamed and not clicked, or deleted after that:
`RefreshEnds` excepts the case by name (`Lost`). `forgotten` are the names whose group
a Cancel has removed with the dialog of another row: New, the name of a listed
connection, Save, which is refused, and Cancel, and at the next start that connection
is gone. `ListedIsSaved` excepts these names and no others. A dialog takes its
connection for new, and removes a group and the row when it is cancelled, when it was
just created or has no group (`newbe`, `conn_settings.cpp:44, 124-133`).

Bounds: nobody types "<noname>" as a name; `Budget` dialogs and searches; `Elem`
identities, used again when nobody holds one (`Free`); a thread is started, and a
round of the search begins, when the connection's earlier events are delivered;
deleting a connection whose thread still runs ends the program and is left to
`ConnLifecycle`; whether a settings group says AtStart is a choice each time it is
read. A dialog is open with nothing else inserted into the list: `addConnItem` goes on
with row 0, which may be another one if the search inserts rows meanwhile, and the
search is not started while a dialog is open.

### ConnWindows, MainWindow

`ConnWindows` has, per connection, one viewer, one editor, one pool overview and one
domain monitor, with the handle slot (`link`), its references beside the owner's
(`held`), the docks' pointer and the answers that will open a window. A viewer has its
timers, attempts (`Tries`), display and what runs behind it: an ssh tunnel, or the
console threads of LXC. `viewed` are the connections whose thread is on view: its
flag, not the docks, says whether a close empties them. `astray` are those renamed
while they ran and clicked: docks and windows go on under the former name.
`CloseConnGenerations` closes by prefix of the name, hence `Shadows`, the pairs of
names of which one begins the other. Close events, the tray and the last window's
close are `UserCloses`, `ChangeVisibility` and `CloseEvent`. The properties except by
history variables what the code does get wrong: `untold` (the main window is not told
of a close, when `virConnectClose` fails, or in vain, when the connection has got
another name or was off view while the docks were on it: its windows stay open),
`late` (the docks changed with an answer or a notice due: the answer opens a window
under the name now on view, or one of a connection closed before), `rash` (a reference
was dropped by one who had none of this session, as monitors and consoles do after a
reopen), `hurried` (a viewer asked for again before it was shown stays an empty
window). Bounds: `Budget` openings and renames in a run, four references of one
monitor (`MonitorTick`), a connection renamed while it ran opens again only when docks
and windows no longer use its former name (`FormerNameInUse`), and no new name begins
another.

`MainWindow` puts it beside `AppLifecycle` with one connection.

### TaskMachine, TaskPrograms, TaskPromise

`TaskPrograms` has one definition per method of the seven `ControlThread`
classes: the libvirt calls in order, as statements *need* (look up, return when it
fails), *make*, *act* (change the hypervisor), *try*, *ask*, *free*, *send* and so
on. `TaskMachine` runs tasks through their programs, one call a step, while the
connection loses its peer, is closed by the user (which drops every reference in a
loop) and is opened again. A task reads `*ptr_ConnPtr` at every call, as the code
does. `refs` keeps the holders of each handle; a call through a freed one is a
`Stray` step, which ends the process or goes on with anything.

`TaskPromise` is what a task promises to the one who ordered it, and
`KeepsPromise` is the refinement: one answer, at most one change and none after
the answer, and an answer that says whether it was made; the operations that only
read or stream are `Loose` (they have nothing to promise of the last kind).
`Unfreed` lists the objects that an operation does not give back on some path
(`getDomainData0` and `getDomainData1` never free the domain); `ObjectsAreFreed`
says that these are all. `TaskEnds` excepts the upload whose file cannot be read
(`storage_vol_control_thread.cpp:433`): its loop never ends. Bounds: `MaxHandle`
openings, two tasks; a call is carried out and answered, or fails: one that the
hypervisor carries out and whose answer is lost with the connection is left out.

### EntityControls, ControlTables

One control beside its user. `ControlTables` has one record per control: what its
menu and toolbar offer and when, what each branch of `execAction` orders or which
dialog it opens, what `newVirtEntityFromXML` orders, and how `resultReceiver`
takes each answer. `EntityControls` gives these words a meaning: rows are filled
and removed by number, the current row keeps its number, a menu or dialog has an
event loop of its own under which timers and answers go on, tasks end in any
order, and other clients change the hypervisor (`WorldChanges`). An access to a
row that is no more ends the process (`crashed`). `stale` and `overtaken` remember
changes by others and listings that overtook each other. The connection stays
open; a close is in `TaskWarehouse` and `TaskMachine`. Bound: `MaxEvents` things
done by users, timers and others.

### Forms and the modules of forms

`Forms` is a language for the widgets that edit a libvirt description: a form is
the sequence of its fields in the order in which they are read, each with the
values it can show, under which conditions it is written, read and shown, what
reading alters, and what its slots do to other fields. `Read` goes through
the fields in their order, `Change` sets one and lets its slots set others,
`Write` is what the form would save. `SteadyForms` tells from the text of a form
which fields keep what was read, and which are written only when they are shown (see
the proofs). `PlainForms`, `CharForms`, `DiskForms`, `NetForms`,
`GraphicForms`, `HostForms`, `TabForms` and `StorageForms` have one definition per
widget class, named like it. Texts are "" or a letter, numbers "0" or "1", and a
choice has the values the code tells apart.

`DeviceEditor` is the Devices tab: the list, the panel that edits one device with
its flags `saved` and `changed` and the row it remembers, and the dialog that
creates one. `DomainEditor` adds the other tabs, each with its save, revert and
reset, Ok (which visits the tabs in the order of their keys and asks about what is
unsaved) and what a boot choice does to other tabs; what it promises of list and
panel, whatever the forms are, is in `DomainPromise`. `CreationWindow` is the window
of a pool, volume, secret or interface, with the file it may start from. `Editors`
puts them beside each other, and `MCEditors` opens each form alone with each of
its descriptions, a list of three devices, and the two tabs that depend on each
other together.

What the code does on the way is in the forms, each at its line in the map, and
excepted from the properties by the field's own attributes (`reads`, `lost`,
`stray`, `joins`, `silent`, `late`) or by `past`. What a user may meet:
- *Devices.* The row of the next device is computed before the device shown so
  far is saved, and saving moves rows (`devices.cpp:400`): a later save replaces
  another device. The same after Add and after Delete. A device whose description
  becomes empty is dropped by a save; Cancel at the close question also drops an
  earlier explicit Save. An added device's dialog left within 333 ms keeps its list
  of kinds disabled (`device_stack.cpp:168, 309-324`); watchdog, tpm, nvram, panic,
  controller and emulator are offered and create nothing (`device_stack.cpp:287`).
- *Disks, networks, host devices.* A network disk writes the encryption page it hides;
  file, block and directory disks do not read theirs; the format is always written as
  qcow; the driver element, the second host's name (`network_disk.cpp:191`), a fdc bus
  and an iSCSI volume's mode are lost. A virtual port writes typeidversion and
  instanceid under other names than it reads; one without a type is read as 802.1Qbh,
  which hides its interface id (`Supplied` in `Forms`, the one thing hidden that is
  written later without being in the description); filter parameters only ever grow
  (`nwfilter_parameters.cpp:118`). Host devices lose `managed` and the source address;
  two with one vendor and product are listed once (`usb_host_device.cpp:128`). A
  redirection filter is reversed by each reading.
- *Tabs.* Opening the window re-emits `archChanged` (`os_booting.cpp:122`): the
  machine is reset, the number of processors forced to one, the emulator replaced,
  and Ok asks about changes nobody made. A host or kernel boot sets an empty
  emulator (`os_booting.cpp:208`). Memory without a unit reads as 0, and KB, MB
  and GB have wrong factors (`memory.cpp:377`). Huge pages are only appended.
- *Storage.* A volume's name gains ".img" at each round, its size is rounded to MiB
  (`create_volume.cpp:113`), its secret is read and never written (158), a pool's
  netfs permissions and logical source are written and not read, address functions
  are read with base 10 (`scsi_pool_stuff.cpp:53`), and Choose before the type of
  the pool is known dereferences an uninitialised pointer (`ChooseBlindly`).
- *Not signalled.* Several changes do not mark the panel as changed: typed VNC and
  Spice addresses and keymaps, a file system's source picked in a dialog, a typed
  CPU model.

Bounds: the lists that helper threads fill (networks, filters, host interfaces) are
taken as filled before the form reads; the code waits 333 ms and does not read at all
when they come later. An emulator that is the only device and on show is not replaced
(`MaySetEmulator`). The slots of the CPU form are taken as connected during its first
reading too, where `cpu.cpp` reads (28) before it connects (33). The order of devices
to boot from, which Ok sets, is left out. Edits, list operations, windows and changes
are bounded by the constants of `Editors.cfg`; a form with more than `SmallForm`
fields is changed only from its fresh description, and read from all of them. A form
opened alone can be changed twice (`AloneEdits`): a change that hides a field and
another that would write it is what `NothingHiddenIsWritten` needs to be broken.

## The runs

All runs bound the number of connections and of orders; the bounds are constants
of the modules and are named in their guards.

| run | question | instance |
|---|---|---|
| `ConnFaults` | Do rows, threads and handles stay coherent, do rows change in the promised order, and is, until the first fault, the connection on view the live one in the docks? | two connections, peers that close, closes that fail; no thread started while more than one event is queued |
| `ConnFindStaleClose` | "clear Overview Docks if closed connection is on View" | two connections; violated |
| `ConnFindDestroy` | A connection in use is not deleted | one connection; violated |
| `Tasks` | Where the docks know of what they show: does everything disabled wait for an answer that is on its way, and does it come? If nobody acts before the last answer, do the lists show what the hypervisor has? | two connections, two controls; one of them announced; a hurried user and a patient one with three orders each, and changes of the hypervisor |
| `TasksFindEnabled` | "if all Controls updated, then enable connection list widget" | two connections, two controls; violated |
| `AppPair` | Does an exit that begins at rest leave nothing behind? Does each server get its own credentials? | two connections, closes that fail, renamed rows; three openings, one or two questions each |
| `MainWindow` | Do windows go with their connection, count its references, wait for what runs behind them, settle? Do exits and restarts end, a busy row become available, a lost connection show? | two connections, one name a prefix of the other, three openings; one connection with all faults, queue bound 1, its row renamed as well |
| `AppFindRestart` | "stop virtEventLoop after closing all connections" | one connection; violated |
| `ConnNames` | Is a running connection found by its row, is what the list shows saved, does a search end? | two connections, two names, one local hypervisor, two dialogs or searches |
| `EntityTasks` | Does each operation keep its promise, free what it takes, end, and leave the handle to its owner? | every operation alone, four pairs, two openings |
| `EntityControls` | Is what is chosen ordered for the right entity, is the list true after the last answer, does it come back? | each of seven controls, two entities, two events beside their answers |
| `Editors` | Is what was saved stored in its own row, and written without change or addition? | every form with each description, three devices, two tabs together |

Two connections are what the interesting cases need: one on view and one that
takes its place. A third would only repeat the second, since the code compares a
connection with the one on view and with no other. Two controls make the mask of
updated controls more than a flag. `Wait` treats each row by itself and only asks
whether any is left: two connections show rows that are removed and rows that run
in the same pass. Two entities let a list shrink under a menu, and the row above
the current one go. Three devices let a save move a row over another. What is
proved (below) does not depend on these bounds.

Deadlock is not checked: a user may do nothing for ever, and a process that has
aborted or spent its budget of orders stops.

The type invariants are not among the runs' properties: they are proved, or part of
what is, in every proof module. The run of the editors asks what a type would not
say.

### Fairness

Fairness is weak and assumed of what the operating system and Qt schedule:
- the event loop's thread, the `Wait` thread, each connection thread's steps (the
  open call returns) and the delivery of posted events (`AppFairness`,
  `ConnNames`);
- in `TaskWarehouse` and `EntityControls`, that tasks run and that results are
  received; in `TaskMachine`, that some task or the close under way goes on, which
  is enough since each step takes a task further;
- in `ConnWindows`, that timers fire and the helper threads of a console return;
- in `ConnNames`, that the rounds of `WaitLocalConn` go on and the probes end.

Nothing is assumed of users, peers, ssh, displays, or other clients of the
hypervisor.

### Findings

Four runs are expected to fail, each on one sentence of the code's comments or
messages.
1. `ConnFindStaleClose`: a close by the peer captures `onView` when it happens and
   is delivered later; the docks of the connection shown meanwhile are cleared.
2. `ConnFindDestroy`: a row reads CLOSED, or CONNECT and available, while its
   thread runs; deleting it destroys a running thread.
3. `TasksFindEnabled`: results name no connection, so late ones of the connection
   shown before set the bits and fill the lists of the one shown now.
4. `AppFindRestart`: a restart deletes the event loop's thread object while the
   thread runs; nobody has stopped it.

Others were met and are not kept as runs: an overview of a row that is not running
takes the shown connection off view and leaves its pointer in the docks, where a later
close leaves it null, with lists that stay disabled and windows that stay open
(`untold` in `TaskWarehouse` and `ConnWindows`); a Cancel after a refused Save removes
another connection's settings (`forgotten` in `ConnNames`); a row renamed and not
clicked keeps the program from ending (`Stuck` in `AppLifecycle`); after the close
callback the row reads RUNNING for up to half a second, in which the user can close
the connection a second time although the comment at `conn_alive_thread.cpp:762` says
`closeConnection() will not be called`; "New settings apply at next job start"
(`conn_settings.cpp:246`) is not so for a connection edited while it runs or after it
failed, whose URI is built only for a CLOSED row (`conn_list_widget.cpp:207`); what
was changed and saved in the panel of a device is dropped without a word when storing
another change has moved the rows and the user then deletes a device: the current row
that goes is not the one whose panel is open (`devices.cpp:383`), which
`SavedIsStored` excepts (`Strayed`); and what the sections on `ConnNames` and on the
forms list.

## The proofs

Each proof module has a component's lemmas, its inductive invariant, checked by
TLC on an instance before it was proved, and its theorems, which hold for every
value of the constants that the component's assumptions allow. No theorem has a
hypothesis on the code except those named below. A proof has one lemma per action
or part of an action, and one step in it per conjunct of the invariant that the
action can disturb.

`ConnLifecycle_proofs` begins with lemmas on the queue: what posting, delivering
and dropping an event do to each predicate on its order. It proves type
correctness and all properties of `ConnFaults`, for every set of connections,
every choice of faults and every bound.
- `AbsentIsGone`: a deleted row has no thread, handle or queued event.
- `SettledAtLast(c)`, for connections whose thread does not run: the last state
  event of the connection is not one that leaves the row at unrest. `UnrestHasCause`
  needs it because a thread may be restarted while events of its last run are still
  queued: what is pending must then end in something that settles the row.
- `RowsKept`, the refinement of `ConnRows`: each delivery moves a row as `ConnRows`
  allows, since `AllInOrder` holds. It says of the row's state and the queued
  state events of a connection, in their order, that each may follow the one
  before it (`MayFollow`), and of the last of them that it fits where the thread
  is (`MayEnd`), so that what the thread posts next may follow too.
- `CalmIsConsistent`: until a peer closes a connection or a close fails, what is on
  view is the live connection, from the invariant `Calm`: RUNNING is posted with
  the handle open and is the last state event, and no close signal is ever queued.
  With faults it is false, as `ConnFindStaleClose` shows; `ViewIsConsistent` says
  the same of `Faults = {}`.

Its last part goes on from there to the exit and the restart of the program,
`AppLifecycle`. `Orderly` has the parts
- `HandlesAreKept`: a live handle is kept alive, its thread is beside it, and its
  row reads RUNNING or will, however events are queued, so that `Wait` finds it (under
  a new name it does not, and does not end either);
- `WaitIsAlone`: while `Wait` works the user is shut out, nothing opens, and
  nothing announces that it runs: a pass of `Wait` misses no connection that gets
  ready behind it;
- `DeletesNoneHeld`, `AbsentRests`, `AllRest`, `LoopStopsLast`: what `Wait` collects
  for removal holds no handle, a row that is not listed has no thread, all threads
  have ended when it ends, and only then the event loop is stopped.

The invariant is `OrderlyExit`: these unless the exit was hasty, and `CleanExit`.
`ExitLeavesNothing` and `NoHandleIsLost` follow.

`Application_proofs` carries both over to `Application`, of which `AppLifecycle` is
an instance (`LP`, with the lemmas), and proves the handshake of
`AuthHandshake`: `CredentialsAreOwn` and `NullNeedsDelay`, for any connections,
any requests of servers and any number of attempts. It assumes `AuthAssumption`
(requests are sequences of kinds of credentials, `NoConn` is no connection) and
`LifecycleAssumption` (faults are those the model has, the bound is a number). Of
the handshake's two properties neither is inductive. The invariant has two parts:
- `AsksForOwn`: a callback asks for its own connection, or both its connection and
  the one it asks for have been opened beside another one;
- `InOrder(c)`, for connections that nothing has disturbed: there is one question
  about `c` at most, in the mail or on the screen, it is the one that the thread
  of `c` waits for, its text is set when its dialog says so, and when the key is
  cleared the question is gone and the text is the answer of this attempt.
`CredentialsAreOwn` allows `Garbage` beside the answer, as the code's dangling
string does; what is proved is that nobody else's text is ever given.

`ConnNames_proofs` is about the connection list's own book-keeping. The invariant,
`NamesInv`, is the agreement `Fine` of everything that knows a connection by name,
until a name changes hands while it is in use (`rash`): the key of an element is its
name and its row is its own, `initName` finds the row's element, no two rows have one
name, a new name is free until its element is keyed anew, local names are those the
search has given, named rows have their groups but for `forgotten` ones, a busy
element's row is still called as it is, and the dialog and the search hold what is
still so. No smaller part of it is inductive: deleting, renaming and searching each
need the others' part. It assumes `NamesAssumption` (user and local names are
different; "none" and the empty name are neither).

`ConnWindows_proofs` proves four properties of `MainWindow` from `Whole`: windows have
references where something runs behind them (`RefsAreHeld`), the controls carry
the name of the pointer they use (`ControlsAreNamed`), a notice is of a connection
that is lost, and what is asked is asked of the connection on view, which is up or
about to be taken off, or whose close the docks were not told of (`ViewIsCurrent`),
until an answer has come too late. `NothingOutlivesConnection` leaves out the
connections of whose close nobody was told (`untold`).
`AbortIsHasty` is an action property: the process is aborted by a close only in
the cases it lists.

`TaskWarehouse_proofs` proves type correctness, `AnswersMatchTasks`,
`HandshakeHasCause`, `DisabledListIsAwaited` and `QuietListIsTrue` for any number of
controls, tasks and changes, from `PointerGiven` (nobody orders before a connection
has been on view) and `TasksNumbered` (tasks have the numbers 1 to `counter`). The
argument for `HandshakeHasCause` is the lemma `ReloadsKept`: an outstanding reload
stays outstanding until its result has filled the list and has been announced,
whatever else happens. `QuietListIsTrue` follows from `PatientInv`: a thread on view
is that of the docks' connection, whose handle is freed only behind their back
(`DocksAreOpen`, a theorem of its own for all users), and, while nobody hurries, what
is outstanding concerns that connection, a change or an event of the hypervisor is
alone, what a reload has read is still so, and every list that is not what the
hypervisor has is being read again or about to be (`StaleIsAwaited`), or of entities
that have changed unannounced (`missed`).

`EntityControls_proofs` proves `ShownIsTrue`, `CrashNeedsRelist` and
`MenuActsOnItsEntity` for any entities and any number of events. It begins with one
lemma per control, that its tables are sound (`TableIsSound`): an operation whose
answer is not followed by a listing changes nothing that is listed, or finds what
others have changed; and the task that reads its row again is only ordered from a
row. Everything else is proved of any sound table. The invariant is
- `AgreesAtLast`: unless others have changed something or a listing was overtaken,
  what is outstanding will make the list true. Some task that has run will be
  followed by a listing; or the listing ordered last has not run or reports what
  is so, and, where none is outstanding, the rows are true. It speaks of the listing
  ordered last because an earlier one may be answered after a change;
- `ChangesAreTold`, of what each outstanding task may change and how it will be
  answered;
- `MenuIsOfRow` and `DialogKnowsRow`: the current row is the menu's, and the row
  that a dialog will read again is there, until the list is filled.

`TaskMachine_proofs` is about any programs, and then about those of the code.
- `HandleLives`: whatever a program calls, its references are its own, so that the
  one of `ConnAliveThread` is dropped by `DropAllReferences` alone.
- `StrayOnlyAfterClose` has a hypothesis, `AllFreeLast`: no program names an object
  again after it has freed it. The invariant beside types is `NotReused`: no
  statement still to come is called on what a task has given back. A stray call
  then can only meet a handle whose references are all gone, which a close does.
- `ObjectsGivenBack` has a hypothesis, `AllGiveBack`: on each path from where a
  program takes an object to an end it passes the place that frees it. The
  invariant, `HeldIsDue`, says that what a running task holds it is going to give
  back.
- `ProgramsFit` goes through the operations of the seven task threads and shows
  that each meets both hypotheses, and that those which change something have one
  change. `CodeGivesBack` is the two theorems above without hypotheses, for the
  programs of the code.
- `PromiseKept` is the refinement: each action maps to one of `TaskPromise` or to a
  stutter. The invariant is `ResultTold`: a task that has made its change reports
  success and has only lookups and frees before it, and one that reports success
  has made its change or is `Loose`. It rests on `MachineAssumption`, which says of
  the programs that one not `Loose` has one change; `ProgramsFit` proves that of the
  code's. `StatementShape` says how little any statement may change, and saves the
  other lemmas from going through them all.

`Editors_proofs` has three parts. The first proves `WindowListIsWhole`
(`DevicesAreKept`) and `SavedReachesWindow` (`SavedIsStored`) for any forms, tabs,
kinds of devices and lists, any order in which Ok asks the tabs, and any number of
operations. Its hypothesis, `StartsFit`, is that the lists and that order are
sequences. It begins with what taking out, adding, storing, closing, showing and
deleting a device do to a list and its panel, each a lemma on the operator that the
actions are built from.
- `Good` is the invariant: the list is whole unless a save has spoilt it, and the
  row that the panel remembers is that of its device unless something has happened
  to the rows since. Neither half holds without the other: storing a device takes
  out the remembered row.
- `Fits` is what the steps inside one action keep, as tabs exchange the emulator
  (`Emulates`) and Ok closes the panel: what was saved and changed is in the panel
  still, or in the list, or its device has gone.
- Ok is a fold over the tabs. That the fold is a function at all (`VisitExists`) and
  keeps `Fits` (`FitsVisited`) is induction on the number of tabs, by the least
  number for which it fails.

The second part is about what forms compute: `SteadyShownIsSaved` proves
`ShownIsSaved` of every steady field, for any forms, descriptions, windows and
sequences of reading, changing, saving, reverting and other tabs at work. A field is
steady (`SteadyForms`) when, read off the text of its form,
- it has a name of its own, and neither it nor a field read after it sets it
  (`Undisturbed`), so that a value that was read stays;
- each condition under which it is written is on itself or on an undisturbed field
  before it, which is there when it is and signals its changes (`Relies`);
- it has a value that is not written if it has any, and its own unsignalled changes
  are not to such a one.

Its hypothesis, `EditorsFit`, is on the parameters only, and TLC evaluates it of
the code's forms, with all their descriptions, by the `ASSUME` of `MCEditors`: lists
are sequences (`StartsFit`), forms are made by `Form` and set fields that exist, what
creates a device writes what its editor reads (`WordsFit`), descriptions hold what
their form would write (`DocsFit`), and an architecture sets fields that are there, of
forms without guarded fields (`ArchFits`).
- `ReadSteps` unfolds the recursion that reads; that it is a function, and what holds
  after every field, is induction on the number of fields by the least that fails.
- `ReadAgrees`: a form that has read a description would write each steady field as
  it is there. `WriteDescribes`: what it writes then is a description of it.
  `QuietAgrees`: a change that is not signalled alters no steady field.
- `EditorsKept` is the invariant: whatever the panel, a tab or the window that creates
  something shows is a state of its form, what it holds as saved or read is a
  description of that form, so is every row of the list, and while it says that it is
  saved they agree. It has to speak of the rows, which are read into the panel, of the
  dialog, whose description goes to a row, and of the tabs, whose fields and whose
  emulator another tab sets.

`SteadyFormsAreSaved` draws the conclusion: while the forms shown have steady fields
only, `ShownIsSaved` holds as it stands. That is so for 31 of the 47 forms that edit:
sound, video, memballoon, hub, input, emulator, serial, console, redirdev, rng, the
interfaces ethernet, user, mcast and tcp, all host devices, all file systems, sdl, rdp
and desktop graphics, the tabs General and SecurityLabel, secrets and interfaces. Of
the others the theorem says as much as they have steady fields, such as 89 of 96 of
a pool, 28 of 45 of a disk, 16 of 26 of a network interface, 12 of 14 of a volume, 20
of 23 of the boot tab, 12 of 16 of CPU, 9 of 12 of Memory, 8 of 26 of spice.

The third part proves `NothingHiddenIsWritten` in the same way:
`CoveredFieldsAreShown` of every covered field, `CoveredFormsHideNothing` of the
property as it stands while the forms shown have covered fields only. Many a field is
hidden under conditions under which it would be written (`Loose`): a virtual port's, a
memory balloon's period, a pool's adapter. It is covered when for each such condition
the form has a guarded field, itself or one without which it is not written: a check
box, say, that is blank unless the condition is met. That a field is guarded
(`Guarded`) can be told from the text of its form:
- it is blank, or the condition is met, in the form as it is made;
- no slot of any field, whatever value that field gets, takes it out of this
  (`StaysCovered`), and where it is shown the condition is met, so that the user cannot;
- reading it makes the condition true by its slots (`MakesItAllowed`), or it is read
  after the field that the condition is on, which is there whenever it is
  (`ReadAfter`); and nothing that is not in a description is left over from before.

`IsShown` joins the invariant, `EditorsKept`: guarded fields are blank or their
conditions are met. `Describes` has the other half: what a description has of a
guarded field, its condition lets be written. So a description in a row, a file or a
tab may be read in any later state of the form. `ReadCovers` follows one guarded field
through the fields that are read before and after it; `WriteDiscloses` shows that what
is written then is again such a description. 46 of the 47 forms have covered fields
only; the disk's has 43 of 45, as a network disk writes an encryption page that it
hides. What that page holds there is only what was read, which is for TLC to say.

`Read` is a recursive function of the number of fields read, and the slots of a
choice set what the last of them sets, rather than folds over selected sequences, of
which the provers know nothing.

The attempt to prove `SavedIsStored` refuted it as it was stated first, with the
bound of one change in all under which it had passed: see what is said of `Strayed` above.
The attempt at the third part refuted three forms as they were modelled: the
authentication and encryption of disks of several sorts shared their fields, a pool's
adapter could be changed while it is disabled (`able` in `Forms`), and a virtual port
that is read as 802.1Qbh was taken for one whose type the user had chosen (`Supplied`).

### What is only model-checked

Liveness (`BusyEnds`, `LossIsShown`, `HandshakeEnds`, `ProcessingEnds`,
`ExitEnds`, `RestartEnds`, `RefreshEnds`, `ListComesBack`, `ViewerSettles`,
`TaskEnds`), because the prover does not do fairness. Of the editors,
`NothingHiddenIsWritten` of the encryption of a network disk, and `ShownIsSaved` of the
fields that are not steady. They are true of the forms of the code for reasons that lie
in several fields at once: a field that is hidden or shown by fields read after it, that
several others may set, or that some values clear.

## The plan

1. The forms of networks, network filters and snapshots: lists inside lists, for
   which `Forms` has no field yet.
2. Exits and restarts during the start and during a search; openings during a
   second exit.
3. Steadiness of fields that later ones show, set or clear, with which
   `SteadyShownIsSaved` would say more of disks, network interfaces and spice.

## Not modelled

- Painting, item columns, tray, log, soft touched layout, shortcuts, geometry:
  presentation of state that is modelled.
- The protocols of the viewers (`krdc_vnc_qtonly`, `qspice_widgets`, `qterminal`):
  libraries taken over from elsewhere; a viewer is modelled from outside them. The
  stand-alone viewer (`vm_viewer_only`) has no connection list and no docks.
- URIs, texts of messages, formats of single values, saved window settings.
- Network, network filter and snapshot forms: see the plan. The boot order of
  devices (`bios_boot.cpp:167`), which matches devices by their text.
- Memory: the deletion of a task's thread object just before `run()` returns is
  below the grain of the model, as is the iteration over the connection list's
  items in `WaitLocalConn` and `Wait` while the GUI thread changes it.
- Build files, icons, translations.
