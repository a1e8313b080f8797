---------------------------- MODULE TaskWarehouse ----------------------------
(***************************************************************************)
(* What the docks of a connection on view do: the entity controls          *)
(* (VirtDomainControl and its five siblings) order tasks, TaskWareHouse    *)
(* runs each in a ControlThread of its own, and the results come back      *)
(* through the GUI thread's queue, to the control that waits for them and  *)
(* to MainWindow, which keeps the connection list disabled until all       *)
(* controls have filled their lists.                                       *)
(*                                                                         *)
(* Of the connections (module ConnLifecycle) only their handles are kept.  *)
(***************************************************************************)
EXTENDS Integers, Sequences

CONSTANTS
    Conn,         \* connections, all listed
    NoConn,       \* "none": no connection given to the controls yet, empty list
    NControls,    \* how many entity controls (the code: 6)
    Watched,      \* those whose entities libvirt announces changes of: domains,
                  \* networks, pools and secrets; not interfaces and filters
    Paces         \* how people act: hurried, that is while an answer is
                  \* outstanding, or not; and two bounds: no order is begun after
                  \* this many tasks, entities change no oftener than changes

ASSUME WarehouseAssumption ==
    /\ NoConn \notin Conn
    /\ NControls \in Nat \ {0}
    /\ Watched \subseteq 1 .. NControls
    /\ Paces \subseteq [hurried : BOOLEAN, tasks : Nat, changes : Nat]

Control == 1 .. NControls

VARIABLES
    pace,         \* how people act in this behaviour
    handle,       \* *ptr_ConnPtr of a connection: "null", "open", "dead"
    version,      \* the entities of each kind that a hypervisor really has, ...
    changes,      \* ... numbered by how often any of them has changed
    ptr,          \* ptr_ConnPtr of the controls: whose handle they use
    active,       \* the controls are enabled: a connection is on view
    list,         \* what a control lists: whose entities, of which version
    listEnabled,  \* entityList->isEnabled() of each control
    updated,      \* MainWindow.entityControlIsUpdated
    connList,     \* connListWidget->isEnabled()
    counter,      \* TaskWareHouse.counter
    pool,         \* TaskWareHouse.threadPool: the tasks not yet answered
    processing,   \* the numbers that the task list shows as "Processing"
    queue,        \* events posted to the GUI thread
    onView,       \* the connection whose ConnAliveThread.onView is set
    untold,       \* history: the handle on view was freed or replaced, and the
                  \* docks were not told
    missed        \* history: the controls on view whose entities have changed
                  \* unannounced since they were last listed

controlVars == <<ptr, active, list, listEnabled>>
windowVars  == <<updated, connList>>
taskVars    == <<counter, pool, processing>>
hyperVars   == <<pace, version, changes>>
viewVars    == <<onView, untold, missed>>
vars == <<handle, hyperVars, controlVars, windowVars, taskVars, queue, viewVars>>

\* One ControlThread.  step: "running" before its libvirt call, "computed"
\* after it, "posted" once run() has emitted resultData.
Task == [num : Nat, ctl : Control, conn : Conn, kind : {"reload", "change"},
         step : {"running", "computed", "posted"}, ok : BOOLEAN, seen : Nat]

NewTask(n, ctl, c, kind) ==
    [num |-> n, ctl |-> ctl, conn |-> c, kind |-> kind,
     step |-> "running", ok |-> FALSE, seen |-> 0]

\* What is posted: the result of task num, or (num 0) a ...StateChanged() of
\* the hypervisor on view for the control ctl.
Event == [num : Nat, ctl : Control]

EmptyList == [of |-> NoConn, seen |-> 0]
List == [of : Conn \cup {NoConn}, seen : Nat]

ViewTypeOK ==
    /\ onView \in Conn \cup {NoConn}
    /\ untold \in BOOLEAN
    /\ missed \in SUBSET Control

TypeOK ==
    /\ pace \in Paces
    /\ handle \in [Conn -> {"null", "open", "dead"}]
    /\ version \in [Conn -> [Control -> Nat]]
    /\ changes \in Nat
    /\ ptr \in Conn \cup {NoConn}
    /\ active \in BOOLEAN
    /\ list \in [Control -> List]
    /\ listEnabled \in [Control -> BOOLEAN]
    /\ updated \in SUBSET Control
    /\ connList \in BOOLEAN
    /\ counter \in Nat
    /\ pool \in SUBSET Task
    /\ processing \in SUBSET Nat
    /\ queue \in Seq(Event)
    /\ ViewTypeOK

Init ==
    /\ pace \in Paces
    /\ handle \in [Conn -> {"null", "open"}]
    /\ version = [c \in Conn |-> [k \in Control |-> 0]]
    /\ changes = 0
    /\ ptr = NoConn
    /\ active = FALSE
    /\ list = [k \in Control |-> EmptyList]
    /\ listEnabled = [k \in Control |-> TRUE]
    /\ updated = {}
    /\ connList = TRUE
    /\ counter = 0
    /\ pool = {}
    /\ processing = {}
    /\ queue = <<>>
    /\ onView = NoConn
    /\ untold = FALSE
    /\ missed = {}

Quiet == pool = {} /\ queue = <<>>
MayAct == counter < pace.tasks /\ (pace.hurried \/ Quiet)

----------------------------------------------------------------------------
(* The connections.  Bound: connClosed is delivered at once (ConnLifecycle     *)
(* delays it), and no row is renamed (ConnNames renames them).                *)

\* MainWindow::stopProcessing, and that of the connection list or the element:
\* no thread is on view and the lists are emptied, but ptr_ConnPtr stays.
StopProcessing ==
    /\ active' = FALSE
    /\ list' = [k \in Control |-> EmptyList]
    /\ onView' = NoConn
    /\ untold' = FALSE
    /\ missed' = {}
    /\ UNCHANGED <<ptr, listEnabled>>

\* The docks hear nothing of what became of a handle they may be using.
DocksUntold(c) ==
    /\ untold' = (untold \/ (active /\ ptr = c))
    /\ UNCHANGED <<controlVars, onView, missed>>

OpenConnection(c) ==
    /\ handle[c] # "open"
    /\ handle' = [handle EXCEPT ![c] = "open"]
    /\ DocksUntold(c)
    /\ UNCHANGED <<hyperVars, windowVars, taskVars, queue>>

\* Mutant: the docks keep a connection that was on view.
CloseConnectionKeepsDocks(c) ==
    /\ connList
    /\ handle[c] # "null"
    /\ handle' = [handle EXCEPT ![c] = "null"]
    /\ IF onView = c THEN UNCHANGED <<controlVars, viewVars>> ELSE DocksUntold(c)
    /\ UNCHANGED <<hyperVars, windowVars, counter, pool, processing, queue>>

\* The user closes: virConnectClose is called until no reference is left, those
\* of running tasks included.  connClosed(onView) stops the docks if the thread
\* is on view, not if the docks merely show it; it is not emitted at all when
\* virConnectClose has failed.
CloseConnection(c) ==
    /\ connList
    /\ handle[c] # "null"
    /\ handle' = [handle EXCEPT ![c] = "null"]
    /\ \/ onView = c /\ StopProcessing
       \/ DocksUntold(c)
    /\ UNCHANGED <<hyperVars, windowVars, counter, pool, processing, queue>>

\* The peer is gone: connClosed(onView), but the handle stays.
RemoteClose(c) ==
    /\ handle[c] = "open"
    /\ handle' = [handle EXCEPT ![c] = "dead"]
    /\ IF onView = c THEN StopProcessing ELSE UNCHANGED <<controlVars, viewVars>>
    /\ UNCHANGED <<hyperVars, windowVars, taskVars, queue>>

----------------------------------------------------------------------------
(* Orders.                                                                 *)

\* Every control takes the pointer, empties its list and orders a reload.
ShowInControls(c) ==
    /\ connList' = FALSE
    /\ ptr' = c
    /\ active' = TRUE
    /\ list' = [k \in Control |-> EmptyList]
    /\ listEnabled' = [k \in Control |-> FALSE]
    /\ counter' = counter + NControls
    /\ pool' = pool \cup {NewTask(counter + k, k, c, "reload") : k \in Control}
    /\ onView' = c
    /\ untold' = FALSE
    /\ missed' = {}
    /\ UNCHANGED <<handle, hyperVars, processing, queue>>

\* Mutant: the mask of updated controls is not cleared.
OverviewKeepsMask(c) ==
    /\ MayAct
    /\ connList \/ ~active
    /\ handle[c] # "null"
    /\ ShowInControls(c)
    /\ UNCHANGED updated

\* MainWindow::receiveConnPtrPtr, setCurrentWorkConnection and setListHeader of
\* each control.  The user needs the connection list for it; a connection that
\* is up takes empty docks by itself.  A row can be RUNNING still when its
\* peer is gone.
Overview(c) ==
    /\ MayAct
    /\ connList \/ ~active
    /\ handle[c] # "null"
    /\ ShowInControls(c)
    /\ updated' = {}

\* The toolbar's Overview of a row that is not RUNNING: the threads of the other
\* rows are taken off view, and the docks stay as they are.
OverviewOfOther(c) ==
    /\ connList
    /\ handle[c] # "open"
    /\ onView' = IF onView = c THEN c ELSE NoConn
    /\ UNCHANGED <<handle, hyperVars, controlVars, windowVars, taskVars, queue,
                   untold, missed>>

\* MainWindow::stopProcessing from the toolbar.
CloseOverview ==
    /\ connList
    /\ StopProcessing
    /\ UNCHANGED <<handle, hyperVars, windowVars, taskVars, queue>>

\* addNewTask while the threads in answered leave the pool.  virConnectRef
\* refuses a null handle: such a task is answered at once with _NONE_ACTION,
\* which its control ignores.
AddNewTask(k, kind, answered) ==
    /\ counter' = counter + 1
    /\ IF handle[ptr] # "null"
       THEN pool' = (pool \ answered) \cup {NewTask(counter + 1, k, ptr, kind)}
       ELSE pool' = pool \ answered

ReloadState(k, answered) ==
    /\ listEnabled' = [listEnabled EXCEPT ![k] = FALSE]
    /\ AddNewTask(k, "reload", answered)

\* The toolbar's button or its timer, which nobody stops.
Reload(k) ==
    /\ MayAct
    /\ ptr # NoConn
    /\ ReloadState(k, {})
    /\ UNCHANGED <<handle, hyperVars, ptr, active, list, windowVars, processing, queue,
                   viewVars>>

\* execAction on a row or newVirtEntityFromXML: start, destroy, define, ...
ExecAction(k) ==
    /\ MayAct
    /\ active
    /\ AddNewTask(k, "change", {})
    /\ processing' = IF handle[ptr] # "null" THEN processing \cup {counter + 1} ELSE processing
    /\ UNCHANGED <<handle, hyperVars, controlVars, windowVars, queue, viewVars>>

Change(c, k) ==
    /\ changes < pace.changes
    /\ changes' = changes + 1
    /\ version' = [version EXCEPT ![c][k] = changes + 1]
    /\ UNCHANGED pace

\* Something changed in the hypervisor on view.  Its callback posts
\* ...StateChanged() if there is one for entities of this kind, and the thread
\* is on view; otherwise nobody hears of it.
HypervisorEvent(k) ==
    /\ MayAct
    /\ active /\ handle[ptr] = "open"
    /\ Change(ptr, k)
    /\ \/ /\ k \in Watched /\ onView = ptr
          /\ queue' = Append(queue, [num |-> 0, ctl |-> k])
          /\ UNCHANGED missed
       \/ /\ ~(k \in Watched /\ onView = ptr)
          /\ missed' = missed \cup {k}
          /\ UNCHANGED queue
    /\ UNCHANGED <<handle, controlVars, windowVars, taskVars, onView, untold>>

----------------------------------------------------------------------------
(* The task threads.                                                       *)

Replace(t, u) == pool' = (pool \ {t}) \cup {u}

\* The libvirt call of run(): it fails on a closed or dead connection.
Compute(t) ==
    /\ t.step = "running"
    /\ \/ /\ t.kind = "reload"
          /\ Replace(t, [t EXCEPT !.step = "computed",
                                  !.ok = (handle[t.conn] = "open"),
                                  !.seen = version[t.conn][t.ctl]])
          /\ UNCHANGED hyperVars
       \/ /\ t.kind = "change"
          /\ Replace(t, [t EXCEPT !.step = "computed", !.ok = FALSE])
          /\ UNCHANGED hyperVars
       \/ /\ t.kind = "change"
          /\ handle[t.conn] = "open"
          /\ Change(t.conn, t.ctl)
          /\ Replace(t, [t EXCEPT !.step = "computed", !.ok = TRUE])
    /\ UNCHANGED <<handle, controlVars, windowVars, counter, processing, queue, viewVars>>

\* emit resultData(result), the last statement of run().
PostResult(t) ==
    /\ t.step = "computed"
    /\ Replace(t, [t EXCEPT !.step = "posted"])
    /\ queue' = Append(queue, [num |-> t.num, ctl |-> t.ctl])
    /\ UNCHANGED <<handle, hyperVars, controlVars, windowVars, counter, processing, viewVars>>

----------------------------------------------------------------------------
(* The GUI thread delivers what was posted.                                *)

\* The slot of entityListUpdated: one bit per control.
EntityControlUpdated(k) ==
    /\ updated' = updated \cup {k}
    /\ connList' = (connList \/ updated' = Control)

\* Mutant: a result without data leaves the list disabled and unannounced.
ListReceivedIfOk(t) ==
    /\ t.kind = "reload"
    /\ IF t.ok
       THEN /\ list' = [list EXCEPT ![t.ctl] = [of |-> t.conn, seen |-> t.seen]]
            /\ listEnabled' = [listEnabled EXCEPT ![t.ctl] = TRUE]
            /\ EntityControlUpdated(t.ctl)
       ELSE UNCHANGED <<list, listEnabled, windowVars>>
    /\ missed' = missed \ {t.ctl}
    /\ pool' = pool \ {t}
    /\ UNCHANGED counter

\* resultReceiver on GET_ALL_ENTITY_STATE, whatever the result.
ListReceived(t) ==
    /\ t.kind = "reload"
    /\ list' = [list EXCEPT ![t.ctl] = IF t.ok THEN [of |-> t.conn, seen |-> t.seen]
                                               ELSE EmptyList]
    /\ listEnabled' = [listEnabled EXCEPT ![t.ctl] = TRUE]
    /\ EntityControlUpdated(t.ctl)
    /\ missed' = missed \ {t.ctl}
    /\ pool' = pool \ {t}
    /\ UNCHANGED counter

\* Mutant: the list is not reloaded after a change.
ChangeSucceededNoReload(t) ==
    /\ t.kind = "change" /\ t.ok
    /\ pool' = pool \ {t}
    /\ UNCHANGED <<list, listEnabled, windowVars, counter, missed>>

\* A control reloads its list when one of its other tasks has succeeded.
ChangeSucceeded(t) ==
    /\ t.kind = "change" /\ t.ok
    /\ ReloadState(t.ctl, {t})
    /\ UNCHANGED <<list, windowVars, missed>>

\* Nor does it when the task has failed, or has only read.
ChangeFailed(t) ==
    /\ t.kind = "change" /\ ~t.ok
    /\ pool' = pool \ {t}
    /\ UNCHANGED <<list, listEnabled, windowVars, counter, missed>>

\* Mutant: only a success is recorded in the task list.
ResultReceivedIfOk(t) ==
    /\ ListReceived(t) \/ ChangeSucceeded(t) \/ ChangeFailed(t)
    /\ processing' = IF t.ok THEN processing \ {t.num} ELSE processing

\* TaskWareHouse::taskResultReceiver: the control's resultReceiver runs, the
\* thread leaves the pool, the item of the task list is updated.
ResultReceived(t) ==
    /\ ListReceived(t) \/ ChangeSucceeded(t) \/ ChangeFailed(t)
    /\ processing' = processing \ {t.num}

Deliver ==
    /\ queue # <<>>
    /\ queue' = Tail(queue)
    /\ LET e == Head(queue) IN
         \/ /\ e.num = 0
            /\ ReloadState(e.ctl, {})
            /\ UNCHANGED <<list, windowVars, processing, missed>>
         \/ /\ e.num # 0
            /\ \E t \in pool : t.num = e.num /\ ResultReceived(t)
    /\ UNCHANGED <<handle, hyperVars, ptr, active, onView, untold>>

----------------------------------------------------------------------------

Thread == \E t \in pool : Compute(t) \/ PostResult(t)

Next == \/ \E c \in Conn : \/ OpenConnection(c) \/ CloseConnection(c)
                           \/ RemoteClose(c) \/ Overview(c) \/ OverviewOfOther(c)
        \/ \E k \in Control : Reload(k) \/ ExecAction(k) \/ HypervisorEvent(k)
        \/ CloseOverview \/ Thread \/ Deliver

\* Every task thread is scheduled, its libvirt call returns, and the Qt event
\* loop delivers what is posted.
Fairness == WF_vars(Thread) /\ WF_vars(Deliver)

Spec == Init /\ [][Next]_vars /\ Fairness

----------------------------------------------------------------------------
(* Properties.                                                             *)

Reloading(k) == \E t \in pool : t.kind = "reload" /\ t.ctl = k

\* The connection list waits only for lists that are on their way: a control
\* that has not reported has a reload outstanding, whatever was closed, ordered
\* or answered since, so that the list cannot stay disabled for ever.
HandshakeHasCause ==
    ~connList => /\ updated # Control
                 /\ \A k \in Control \ updated : Reloading(k)

\* The same of a control on view: its list is disabled only while a reload is
\* outstanding, and it holds no pointer that a reload could be refused for.
\* Excepted are docks that show a connection closed behind their back, when it
\* was off view or virConnectClose failed: there a list can stay disabled.
DisabledListIsAwaited ==
    active /\ ~untold => /\ handle[ptr] # "null"
                         /\ \A k \in Control : ~listEnabled[k] => Reloading(k)

\* A posted result finds its thread in the pool, once: no answer is lost to a
\* second answer or to a task that reuses its number.
AnswersMatchTasks ==
    /\ \A s, t \in pool : s.num = t.num => s = t
    /\ \A t \in pool : t.num <= counter
    /\ \A i \in DOMAIN queue : queue[i].num # 0 =>
         /\ \E t \in pool : t.num = queue[i].num /\ t.step = "posted"
         /\ \A j \in DOMAIN queue : queue[j].num = queue[i].num => i = j

\* The connection list comes back after every overview.
HandshakeEnds == ~connList ~> connList

\* Everything the task list shows as Processing ends.
ProcessingEnds ==
    \A n \in UNION {1 .. p.tasks : p \in Paces} : n \in processing ~> n \notin processing

\* If nobody acts before the last answer is in, then what the docks list is of
\* the connection they show, and is what its hypervisor has, changes that nobody
\* announced apart.  (Results carry no connection and overtake each other, so this
\* is not so for users in a hurry.)
QuietListIsTrue ==
    ~pace.hurried /\ Quiet /\ active /\ ~untold /\ handle[ptr] = "open" =>
        \A k \in Control \ missed : list[k] = [of |-> ptr, seen |-> version[ptr][k]]

----------------------------------------------------------------------------
(* What a comment of the code says.                                        *)

\* mainwindow.cpp: "if all Controls updated, then enable connection list
\* widget": no list then shows the entities of another connection.
EnabledWhenUpdated ==
    [][ ~connList /\ connList' => \A k \in Control : list'[k].of \in {ptr', NoConn} ]_vars
=============================================================================
