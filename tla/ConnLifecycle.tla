--------------------------- MODULE ConnLifecycle ---------------------------
(***************************************************************************)
(* The life of a hypervisor connection: one ConnElement (the row of the    *)
(* connection list, living in the GUI thread), its ConnAliveThread (a      *)
(* QThread that opens the libvirt connection and sleeps beside it), the    *)
(* ConnectionList that decides which connection is on view, and the part   *)
(* of MainWindow that the connection signals reach.                        *)
(*                                                                         *)
(* Threads: the GUI thread runs user actions and Deliver (one queued Qt    *)
(* event at a time); every ConnAliveThread runs the worker actions; the    *)
(* libvirt event loop thread runs RemoteClose.  A signal emitted in the    *)
(* GUI thread calls its slots at once, one emitted in any other thread is  *)
(* posted to the GUI thread's queue, which is first-in first-out.          *)
(***************************************************************************)
EXTENDS Integers, Sequences

CONSTANTS
    Conn,        \* the connections of the list
    NoConn,      \* "no connection": empty docks, receiver of a dropped event
    Faults,      \* which faults of the environment happen
    QueueBound   \* no new thread is started while the queue is longer

ASSUME ConnAssumption == NoConn \notin Conn
ASSUME FaultsAssumption == Faults \subseteq {"remoteClose", "closeError"}
ASSUME BoundAssumption == QueueBound \in Nat

VARIABLES
    item,         \* ConnItemIndex data "isRunning", or "absent": no such row
    busy,         \* ConnItemIndex data "availability" = NOT_AVAILABLE
    thread,       \* where ConnAliveThread is; "idle" = not isRunning()
    keepAlive,    \* ConnAliveThread.keep_alive
    ptr,          \* *ptr_ConnPtr: "null", "open", or "dead" (peer is gone)
    closeCb,      \* closeCallbackRegistered
    onView,       \* ConnAliveThread.onView
    onViewExist,  \* ConnectionList.onViewExist
    docks,        \* whose pointer the six entity docks of MainWindow hold
    listEnabled,  \* connListWidget->isEnabled()
    searching,    \* waitLocalConn or searchThread runs, list disabled
    queue,        \* events posted to the GUI thread
    aborted       \* a running QThread was destroyed: qFatal ends the process

threadVars == <<thread, keepAlive, ptr, closeCb>>
viewVars   == <<onView, onViewExist, docks, listEnabled>>
vars == <<item, busy, threadVars, viewVars, searching, queue, aborted>>

CONN_STATE == {"FAILED", "CLOSED", "RUNNING", "CONNECT"}

\* Signals that cross threads.  The bool of connClosed(bool) is in the name.
StateSignal == {"started", "RUNNING", "FAILED", "finished"}
CloseSignal == {"closedOnView", "closedOffView"}
Event == [to : Conn \cup {NoConn}, sig : StateSignal \cup CloseSignal]

\* The state each of them makes ConnElement show.
Shows(sig) == IF sig = "started" THEN "CONNECT"
              ELSE IF sig = "finished" THEN "CLOSED" ELSE sig

Emit(c, sig) == queue' = Append(queue, [to |-> c, sig |-> sig])

TypeOK ==
    /\ item \in [Conn -> CONN_STATE \cup {"absent"}]
    /\ busy \in [Conn -> BOOLEAN]
    /\ thread \in [Conn -> {"idle", "starting", "opening", "opened", "loop"}]
    /\ keepAlive \in [Conn -> BOOLEAN]
    /\ ptr \in [Conn -> {"null", "open", "dead"}]
    /\ closeCb \in [Conn -> BOOLEAN]
    /\ onView \in [Conn -> BOOLEAN]
    /\ onViewExist \in BOOLEAN
    /\ docks \in Conn \cup {NoConn}
    /\ listEnabled \in BOOLEAN
    /\ searching \in BOOLEAN
    /\ queue \in Seq(Event)
    /\ aborted \in BOOLEAN

\* MainWindow::initConnections: the saved connections are listed, those marked
\* AtStart are being opened, and the search for local hypervisors has begun.
Init ==
    /\ \E saved \in SUBSET Conn : \E atStart \in SUBSET saved :
         /\ item = [c \in Conn |-> IF c \in saved THEN "CLOSED" ELSE "absent"]
         /\ busy = [c \in Conn |-> c \in atStart]
         /\ thread = [c \in Conn |-> IF c \in atStart THEN "starting" ELSE "idle"]
    /\ keepAlive = [c \in Conn |-> FALSE]
    /\ ptr = [c \in Conn |-> "null"]
    /\ closeCb = [c \in Conn |-> FALSE]
    /\ onView = [c \in Conn |-> FALSE]
    /\ onViewExist = FALSE
    /\ docks = NoConn
    /\ listEnabled = TRUE
    /\ searching = TRUE
    /\ queue = <<>>
    /\ aborted = FALSE

----------------------------------------------------------------------------
(* ConnAliveThread: the worker.                                            *)

\* Mutant: the CONNECT state is skipped.
StartedSilently(c) ==
    /\ thread[c] = "starting"
    /\ thread' = [thread EXCEPT ![c] = "opening"]
    /\ UNCHANGED <<item, busy, keepAlive, ptr, closeCb, viewVars, searching,
                   queue, aborted>>

Started(c) ==
    /\ thread[c] = "starting"
    /\ thread' = [thread EXCEPT ![c] = "opening"]
    /\ Emit(c, "started")
    /\ UNCHANGED <<item, busy, keepAlive, ptr, closeCb, viewVars, searching, aborted>>

OpenSucceeds(c) ==
    /\ thread[c] = "opening"
    /\ ptr' = [ptr EXCEPT ![c] = "open"]
    /\ keepAlive' = [keepAlive EXCEPT ![c] = TRUE]
    /\ Emit(c, "RUNNING")
    /\ thread' = [thread EXCEPT ![c] = "opened"]
    /\ UNCHANGED <<item, busy, closeCb, viewVars, searching, aborted>>

OpenFails(c) ==
    /\ thread[c] = "opening"
    /\ ptr' = [ptr EXCEPT ![c] = "null"]
    /\ keepAlive' = [keepAlive EXCEPT ![c] = FALSE]
    /\ Emit(c, "FAILED")
    /\ thread' = [thread EXCEPT ![c] = "loop"]
    /\ UNCHANGED <<item, busy, closeCb, viewVars, searching, aborted>>

\* registerConnEvents, after RUNNING was announced: the GUI may have closed the
\* connection already, or its peer may be gone, and libvirt refuses.
RegisterConnEvents(c) ==
    /\ thread[c] = "opened"
    /\ closeCb' = [closeCb EXCEPT ![c] = (ptr[c] = "open")]
    /\ thread' = [thread EXCEPT ![c] = "loop"]
    /\ UNCHANGED <<item, busy, keepAlive, ptr, viewVars, searching, queue, aborted>>

\* Mutant: the end of run() is not announced.
LeaveLoopSilently(c) ==
    /\ thread[c] = "loop"
    /\ ~ (keepAlive[c] /\ ptr[c] # "null")
    /\ keepAlive' = [keepAlive EXCEPT ![c] = FALSE]
    /\ thread' = [thread EXCEPT ![c] = "idle"]
    /\ UNCHANGED <<item, busy, ptr, closeCb, viewVars, searching, queue, aborted>>

\* Mutant: the loop does not look at keep_alive.
LeaveLoopOnNullOnly(c) ==
    /\ thread[c] = "loop"
    /\ ptr[c] = "null"
    /\ keepAlive' = [keepAlive EXCEPT ![c] = FALSE]
    /\ thread' = [thread EXCEPT ![c] = "idle"]
    /\ Emit(c, "finished")
    /\ UNCHANGED <<item, busy, ptr, closeCb, viewVars, searching, aborted>>

\* run() leaves its 500 ms loop; QThread stops running and emits finished().
LeaveLoop(c) ==
    /\ thread[c] = "loop"
    /\ ~ (keepAlive[c] /\ ptr[c] # "null")
    /\ keepAlive' = [keepAlive EXCEPT ![c] = FALSE]
    /\ thread' = [thread EXCEPT ![c] = "idle"]
    /\ Emit(c, "finished")
    /\ UNCHANGED <<item, busy, ptr, closeCb, viewVars, searching, aborted>>

Worker(c) == \/ Started(c) \/ OpenSucceeds(c) \/ OpenFails(c)
             \/ RegisterConnEvents(c) \/ LeaveLoop(c)

\* The peer closes.  With the close callback in place the event loop thread
\* runs connEventCallBack; without it nobody is told.  (While the worker is at
\* "opened", closeCallbackRegistered may still speak of the previous handle.)
RemoteClose(c) ==
    /\ "remoteClose" \in Faults
    /\ ptr[c] = "open"
    /\ ptr' = [ptr EXCEPT ![c] = "dead"]
    /\ IF closeCb[c] /\ thread[c] # "opened"
       THEN /\ keepAlive' = [keepAlive EXCEPT ![c] = FALSE]
            /\ Emit(c, IF onView[c] THEN "closedOnView" ELSE "closedOffView")
       ELSE UNCHANGED <<keepAlive, queue>>
    /\ UNCHANGED <<item, busy, thread, closeCb, viewVars, searching, aborted>>

----------------------------------------------------------------------------
(* Slots of ConnElement, ConnectionList and MainWindow, run by the GUI.    *)

\* ConnElement::overviewOfConnection up to MainWindow::receiveConnPtrPtr.
ShowInDocks(c) ==
    /\ docks' = c
    /\ listEnabled' = FALSE
    /\ onViewExist' = TRUE

\* Mutant: a later connection does not ask whether another is on view.
SetConnectionStateGreedy(c, state) ==
    /\ item' = [item EXCEPT ![c] = state]
    /\ busy' = [busy EXCEPT ![c] = FALSE]
    /\ IF state = "RUNNING" /\ ~searching
       THEN /\ onView' = [onView EXCEPT ![c] = TRUE]
            /\ ShowInDocks(c)
       ELSE UNCHANGED viewVars

\* Mutant: availability comes back only with an opened or failed connection.
SetConnectionStateStaysBusy(c, state) ==
    /\ item' = [item EXCEPT ![c] = state]
    /\ busy' = [busy EXCEPT ![c] = busy[c] /\ state \notin {"RUNNING", "FAILED"}]
    /\ IF state = "RUNNING" /\ ~searching /\ ~onViewExist
       THEN /\ onView' = [onView EXCEPT ![c] = TRUE]
            /\ ShowInDocks(c)
       ELSE UNCHANGED viewVars

\* ConnElement::setConnectionState and, for RUNNING, the newOpenedConnection
\* slot setOnViewAvailableConnection.
SetConnectionState(c, state) ==
    /\ item' = [item EXCEPT ![c] = state]
    /\ busy' = [busy EXCEPT ![c] = FALSE]
    /\ IF state = "RUNNING" /\ ~searching /\ ~onViewExist
       THEN /\ onView' = [onView EXCEPT ![c] = TRUE]
            /\ ShowInDocks(c)
       ELSE UNCHANGED viewVars

\* Mutant: newItemClosed is not connected, the flag stays.
ForwardConnClosedKeepsFlag(c, wasOnView) ==
    /\ onView' = [onView EXCEPT ![c] = FALSE]
    /\ docks' = IF wasOnView THEN NoConn ELSE docks
    /\ UNCHANGED <<onViewExist, listEnabled>>

\* forwardConnClosedSignal, MainWindow::stopConnProcessing, newItemClosed.
ForwardConnClosed(c, wasOnView) ==
    /\ onView' = [onView EXCEPT ![c] = FALSE]
    /\ docks' = IF wasOnView THEN NoConn ELSE docks
    /\ onViewExist' = (onViewExist /\ ~wasOnView)
    /\ UNCHANGED listEnabled

\* One posted event.  An event of a deleted receiver is dropped by Qt.
Deliver ==
    /\ queue # <<>>
    /\ queue' = Tail(queue)
    /\ LET e == Head(queue) IN
         \/ /\ e.to = NoConn
            /\ UNCHANGED <<item, busy, viewVars>>
         \/ /\ e.to # NoConn
            /\ e.sig \in StateSignal
            /\ SetConnectionState(e.to, Shows(e.sig))
         \/ /\ e.to # NoConn
            /\ e.sig \in CloseSignal
            /\ ForwardConnClosed(e.to, e.sig = "closedOnView")
            /\ UNCHANGED <<item, busy>>
    /\ UNCHANGED <<threadVars, searching, aborted>>

\* Mutant: the pointer is not reset after virConnectClose.
CloseConnectionKeepsPtr(c) ==
    \/ /\ ptr[c] = "null"
       /\ SetConnectionState(c, "FAILED")
       /\ UNCHANGED <<ptr, closeCb>>
    \/ /\ ptr[c] # "null"
       /\ UNCHANGED ptr
       /\ closeCb' = [closeCb EXCEPT ![c] = FALSE]
       /\ item' = [item EXCEPT ![c] = "CLOSED"]
       /\ busy' = [busy EXCEPT ![c] = FALSE]
       /\ ForwardConnClosed(c, onView[c])

\* ConnAliveThread::closeConnection called from the GUI thread: every signal is
\* direct.  keep_alive stays; the loop ends because the pointer is null.
CloseConnection(c) ==
    \/ /\ ptr[c] = "null"
       /\ SetConnectionState(c, "FAILED")
       /\ UNCHANGED <<ptr, closeCb>>
    \/ /\ ptr[c] # "null"
       /\ ptr' = [ptr EXCEPT ![c] = "null"]
       /\ closeCb' = [closeCb EXCEPT ![c] = FALSE]
       /\ item' = [item EXCEPT ![c] = "CLOSED"]
       /\ busy' = [busy EXCEPT ![c] = FALSE]
       /\ ForwardConnClosed(c, onView[c])
    \/ /\ "closeError" \in Faults   \* virConnectClose < 0: no connClosed
       /\ ptr[c] # "null"
       /\ ptr' = [ptr EXCEPT ![c] = "null"]
       /\ closeCb' = [closeCb EXCEPT ![c] = FALSE]
       /\ SetConnectionState(c, "FAILED")

----------------------------------------------------------------------------
(* The user.  A disabled list and toolbar take no input.                   *)

UserActs == listEnabled /\ ~searching

\* createNewConnection .. ConnElement::setItemReference, AtStart or not.  The
\* file menu offers it even while the list is disabled by the docks.
CreateConnection(c) ==
    /\ ~searching
    /\ item[c] = "absent"
    /\ item' = [item EXCEPT ![c] = "CLOSED"]
    /\ \/ UNCHANGED <<busy, thread>>
       \/ /\ Len(queue) <= QueueBound
          /\ busy' = [busy EXCEPT ![c] = TRUE]
          /\ thread' = [thread EXCEPT ![c] = "starting"]
    /\ UNCHANGED <<keepAlive, ptr, closeCb, viewVars, searching, queue, aborted>>

\* Mutant: the thread is started whether it runs or not.
OpenItemRestarts(c) ==
    /\ UserActs
    /\ item[c] \in CONN_STATE \ {"RUNNING"}
    /\ ~busy[c]
    /\ Len(queue) <= QueueBound
    /\ busy' = [busy EXCEPT ![c] = TRUE]
    /\ thread' = [thread EXCEPT ![c] = "starting"]
    /\ UNCHANGED <<item, keepAlive, ptr, closeCb, viewVars, searching, queue, aborted>>

\* connItemDoubleClicked on a row that does not run: ConnElement::openConnection.
\* A thread that still runs is not started again.
OpenItem(c) ==
    /\ UserActs
    /\ item[c] \in CONN_STATE \ {"RUNNING"}
    /\ ~busy[c]
    /\ Len(queue) <= QueueBound
    /\ busy' = [busy EXCEPT ![c] = TRUE]
    /\ thread' = IF thread[c] = "idle" THEN [thread EXCEPT ![c] = "starting"]
                                       ELSE thread
    /\ UNCHANGED <<item, keepAlive, ptr, closeCb, viewVars, searching, queue, aborted>>

\* connItemDoubleClicked on a RUNNING row: ConnElement::closeConnection.
CloseItem(c) ==
    /\ UserActs
    /\ item[c] = "RUNNING"
    /\ ~busy[c]
    /\ thread[c] # "idle"
    /\ CloseConnection(c)
    /\ UNCHANGED <<thread, keepAlive, searching, queue, aborted>>

NoneOnView == [c \in Conn |-> FALSE]

\* ConnectionList::overviewOfConnection(row), from a click on a RUNNING row, the
\* context menu or the toolbar: every other row is taken off view, then the
\* chosen one is put on view only if it is RUNNING and available.
OverviewItem(c) ==
    /\ UserActs
    /\ item[c] # "absent"
    /\ IF item[c] = "RUNNING" /\ ~busy[c]
       THEN /\ onView' = [NoneOnView EXCEPT ![c] = TRUE]
            /\ ShowInDocks(c)
       ELSE /\ onView' = [NoneOnView EXCEPT ![c] = onView[c]]
            /\ UNCHANGED <<docks, listEnabled, onViewExist>>
    /\ UNCHANGED <<item, busy, threadVars, searching, queue, aborted>>

\* The toolbar's "close overview": both stopProcessing slots.
CloseOverview ==
    /\ UserActs
    /\ onView' = NoneOnView
    /\ onViewExist' = FALSE
    /\ docks' = NoConn
    /\ UNCHANGED <<item, busy, threadVars, listEnabled, searching, queue, aborted>>

\* deleteCurrentConnection: refused for a busy or a RUNNING row, otherwise the
\* ConnElement and its thread object are destroyed.
DeleteConnection(c) ==
    /\ UserActs
    /\ item[c] \in CONN_STATE \ {"RUNNING"}
    /\ ~busy[c]
    /\ IF thread[c] # "idle"
       THEN /\ aborted' = TRUE
            /\ UNCHANGED <<item, threadVars, onView, queue>>
       ELSE /\ item' = [item EXCEPT ![c] = "absent"]
            /\ keepAlive' = [keepAlive EXCEPT ![c] = FALSE]
            /\ ptr' = [ptr EXCEPT ![c] = "null"]
            /\ closeCb' = [closeCb EXCEPT ![c] = FALSE]
            /\ onView' = [onView EXCEPT ![c] = FALSE]
            /\ queue' = [i \in DOMAIN queue |->
                           IF queue[i].to # c THEN queue[i]
                           ELSE [to |-> NoConn, sig |-> queue[i].sig]]
            /\ UNCHANGED <<thread, aborted>>
    /\ UNCHANGED <<busy, onViewExist, docks, listEnabled, searching>>

\* refreshLocalhostConnection disables the list; with no {Local..} connection
\* listed and none found, nothing else happens until the search is complete.
RefreshLocalhost ==
    /\ UserActs
    /\ searching' = TRUE
    /\ UNCHANGED <<item, busy, threadVars, viewVars, queue, aborted>>

SearchComplete ==
    /\ searching
    /\ searching' = FALSE
    /\ UNCHANGED <<item, busy, threadVars, viewVars, queue, aborted>>

\* MainWindow::entityControlUpdated once all six controls have reported.
EntityControlsUpdated ==
    /\ ~listEnabled
    /\ listEnabled' = TRUE
    /\ UNCHANGED <<item, busy, threadVars, onView, onViewExist, docks,
                   searching, queue, aborted>>

----------------------------------------------------------------------------

User(c) == \/ CreateConnection(c) \/ OpenItem(c) \/ CloseItem(c)
           \/ OverviewItem(c) \/ DeleteConnection(c)

Next == /\ ~aborted
        /\ \/ \E c \in Conn : Worker(c) \/ RemoteClose(c) \/ User(c)
           \/ Deliver \/ CloseOverview
           \/ RefreshLocalhost \/ SearchComplete \/ EntityControlsUpdated

\* The operating system schedules every thread, virConnectOpenAuth returns, and
\* the Qt event loop delivers what is posted.  Nothing obliges the user.
Fairness == /\ \A c \in Conn : WF_vars(~aborted /\ Worker(c))
            /\ WF_vars(~aborted /\ Deliver)

Spec == Init /\ [][Next]_vars /\ Fairness
----------------------------------------------------------------------------
(* Properties that hold whatever the environment does.                     *)

Pending(c, sigs) == \E i \in DOMAIN queue : queue[i].to = c /\ queue[i].sig \in sigs

\* A row that claims something is going on (busy, in process, opened) has a
\* thread behind it, or an event on its way that will correct the row: the list
\* never strands a connection in a state only the dead thread could have left.
UnrestHasCause ==
    \A c \in Conn : busy[c] \/ item[c] \in {"CONNECT", "RUNNING"}
                    => thread[c] # "idle" \/ Pending(c, StateSignal)

\* A live libvirt connection is always watched by a thread that stays in its
\* loop until somebody closes the connection: no handle is orphaned by a
\* restart, a deletion or a late end of the previous run of the thread.
LiveHandleIsWatched ==
    \A c \in Conn : ptr[c] = "open" => thread[c] \in {"opened", "loop"} /\ keepAlive[c]

\* The user can close every live connection: its row says RUNNING, or will
\* once the queued events are delivered, because RUNNING is the last of them.
RunningIsLast(c) ==
    \E i \in DOMAIN queue :
        /\ queue[i].to = c /\ queue[i].sig = "RUNNING"
        /\ \A j \in DOMAIN queue : j > i /\ queue[j].to = c => queue[j].sig \in CloseSignal

LiveHandleIsShown ==
    \A c \in Conn : ptr[c] = "open" =>
        \/ item[c] = "RUNNING" /\ ~Pending(c, StateSignal)
        \/ RunningIsLast(c)

\* Two components keep the overview each on its own: the list its flag, the
\* main window its docks.  They agree: the flag is set exactly when the docks
\* hold a connection, so that a connection opened later takes only empty docks.
FlagMatchesDocks == onViewExist <=> docks # NoConn

\* The row of a connection goes through its states in the order the list
\* promises (module ConnRows), whatever the order in which two threads act.
Rows == INSTANCE ConnRows
RowsInOrder == Rows!Spec

----------------------------------------------------------------------------
(* Properties of an environment without faults.                            *)

\* What is on view is one live RUNNING connection, the one in the docks, and the
\* list knows that there is one.
ViewConsistent ==
    \A c \in Conn : onView[c] => /\ docks = c
                                 /\ onViewExist
                                 /\ item[c] = "RUNNING"
                                 /\ ptr[c] = "open"

----------------------------------------------------------------------------
(* What the comments and messages of the code say.                         *)

\* mainwindow.cpp: "clear Overview Docks if closed connection is on View": the
\* end of one connection leaves the docks of another alone.
CloseClearsOwnDocks ==
    [][ Deliver /\ Head(queue).sig = "closedOnView" /\ docks # Head(queue).to
        => docks' = docks ]_vars

\* conn_list_widget.cpp refuses to delete a connection in use ("Connection is
\* Busy.", "Connection is Running."): no running thread is destroyed.
NoThreadDestroyed == ~aborted
=============================================================================
