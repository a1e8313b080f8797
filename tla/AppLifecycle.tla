----------------------------- MODULE AppLifecycle -----------------------------
(***************************************************************************)
(* The start, the restart and the end of the program: MainWindow, the      *)
(* VirtEventLoop thread and the Wait thread that closes every connection   *)
(* and empties the connection list, composed with the connections of       *)
(* ConnLifecycle, whose threads, peers and queued events go on meanwhile.  *)
(*                                                                         *)
(* The Wait thread reads and changes the list and the elements of the GUI  *)
(* from a thread of its own: what closeConnection() emits there is posted. *)
(*                                                                         *)
(* A row finds its element by the name that it shows.  A renamed row finds *)
(* none until it is clicked, or its element writes its own name back.      *)
(***************************************************************************)
EXTENDS ConnLifecycle

VARIABLES
    loop,        \* VirtEventLoop: where run() is
    result,      \* its result(bool), posted and not yet delivered, or "none"
    inputs,      \* list and toolbar take input
    fileMenu,    \* menuBar->fileMenu->isEnabled()
    wait,        \* wait_thread: "none" (no object) or where run() is
    label,       \* what the row of a connection goes by, see Label
    todo,        \* rows that the current pass of Wait has still to look at
    toDelete,    \* to_Delete of the current pass
    restarting,  \* the Wait thread is the one of restartApplication()
    toExit,      \* MainWindow.toExit
    quit,        \* the close event was accepted, main() returns
    hasty        \* history: exit or restart began in the middle of something, or a
                 \* renamed row was reset or deleted while its thread ran

waitVars == <<wait, todo, toDelete>>
menuVars == <<inputs, fileMenu>>
exitVars == <<restarting, toExit, quit>>
flagVars == <<label, exitVars, hasty>>
appVars  == <<vars, loop, result, menuVars, waitVars, flagVars>>

Row == {c \in Conn : item[c] # "absent"}

\* "own": the name its element is found by; "new": a name given to it since,
\* by which none is; "reset": clicked after that, while its thread ran.
Label == {"own", "new", "reset"}

\* connections->value(idx->getName()) of a row.
Found(c) == item[c] # "absent" /\ label[c] # "new"

\* MainWindow::MainWindow: an empty, disabled list and the loop just started.
AppInit ==
    /\ item = [c \in Conn |-> "absent"]
    /\ busy = [c \in Conn |-> FALSE]
    /\ thread = [c \in Conn |-> "idle"]
    /\ keepAlive = [c \in Conn |-> FALSE]
    /\ ptr = [c \in Conn |-> "null"]
    /\ closeCb = [c \in Conn |-> FALSE]
    /\ onView = [c \in Conn |-> FALSE]
    /\ onViewExist = FALSE
    /\ docks = NoConn
    /\ listEnabled = TRUE
    /\ searching = FALSE
    /\ queue = <<>>
    /\ aborted = FALSE
    /\ loop = "starting" /\ result = "none"
    /\ inputs = FALSE /\ fileMenu = TRUE
    /\ wait = "none" /\ todo = {} /\ toDelete = {}
    /\ label = [c \in Conn |-> "own"]
    /\ restarting = FALSE /\ toExit = FALSE /\ quit = FALSE /\ hasty = FALSE

----------------------------------------------------------------------------
(* The event loop's thread.                                                *)

\* run(): the loop runs once its timer is registered; whether libvirt told its
\* version (success) is another matter.
LoopStarts ==
    /\ loop = "starting"
    /\ loop' = "running"
    /\ result' \in {"ok", "bad"}
    /\ UNCHANGED <<vars, menuVars, waitVars, flagVars>>

LoopFails ==
    /\ loop = "starting"
    /\ loop' = "failed"
    /\ result' = "bad"
    /\ UNCHANGED <<vars, menuVars, waitVars, flagVars>>

\* Mutant: the loop is not told that its timer is gone.
FreeCallbackKeepsAlive ==
    /\ loop = "stopping"
    /\ UNCHANGED appVars

\* freeCallback: the timer removed by stop() is gone, keep_alive becomes false
\* and timerStopped() is posted.
FreeCallback ==
    /\ loop = "stopping"
    /\ loop' = "freed"
    /\ UNCHANGED <<vars, result, menuVars, waitVars, flagVars>>

LoopEnds ==
    /\ loop = "freed"
    /\ loop' = "ended"
    /\ UNCHANGED <<vars, result, menuVars, waitVars, flagVars>>

----------------------------------------------------------------------------
(* MainWindow: start, search, restart, exit.                               *)

\* A connection that can be listed: no element of an earlier list (Wait leaves
\* them behind) still acts under its name.
Free(c) == item[c] = "absent" /\ thread[c] = "idle" /\ ptr[c] = "null" /\ ~Pending(c, StateSignal)

\* initConnections(bool): without a loop or a libvirt the list stays disabled.
\* A row already created from the file menu is kept.
InitConnections ==
    /\ result # "none"
    /\ result' = "none"
    /\ \/ /\ result = "ok"
          /\ \E saved \in SUBSET {c \in Conn : Free(c)} : \E atStart \in SUBSET saved :
                 /\ item' = [c \in Conn |-> IF c \in saved THEN "CLOSED" ELSE item[c]]
                 /\ busy' = [c \in Conn |-> c \in atStart \/ busy[c]]
                 /\ thread' = [c \in Conn |-> IF c \in atStart THEN "starting" ELSE thread[c]]
          /\ searching' = TRUE
          /\ inputs' = FALSE /\ fileMenu' = FALSE
          /\ UNCHANGED <<keepAlive, ptr, closeCb, viewVars, queue, aborted>>
       \/ /\ result = "bad"
          /\ UNCHANGED <<vars, menuVars>>
    /\ UNCHANGED <<loop, waitVars, flagVars>>

GoesBy(c, name) == label' = [label EXCEPT ![c] = name]

\* connItemClicked on a row that runs, the menu's and the toolbar's Overview:
\* the elements that other rows find are taken off view, then the chosen one is
\* put on view, if it is found and runs.
OverviewRow(c) ==
    /\ UserActs
    /\ item[c] # "absent"
    /\ LET rest == [d \in Conn |-> onView[d] /\ (d = c \/ ~Found(d))]
       IN  IF item[c] = "RUNNING" /\ ~busy[c] /\ Found(c)
           THEN onView' = [rest EXCEPT ![c] = TRUE] /\ ShowInDocks(c)
           ELSE onView' = rest /\ UNCHANGED <<docks, listEnabled, onViewExist>>
    /\ UNCHANGED <<item, busy, threadVars, searching, queue, aborted, label, hasty>>

\* Edit, saved under another name.  (Bound: a row that was reset and has heard
\* nothing from its element since is not renamed again.)
RenameRow(c) ==
    /\ UserActs
    /\ item[c] # "absent" /\ label[c] = "own"
    /\ GoesBy(c, "new")
    /\ UNCHANGED <<vars, hasty>>

\* A click on a renamed row (Open in its menu does the same and OpenItem): the
\* element takes the name over and resets the row, and opens if it is to be
\* opened at start; a row that ran takes the others off view.
ClickRenamed(c) ==
    /\ UserActs
    /\ item[c] # "absent" /\ label[c] = "new"
    /\ GoesBy(c, IF thread[c] = "idle" THEN "own" ELSE "reset")
    /\ hasty' = (hasty \/ thread[c] # "idle")
    /\ item' = [item EXCEPT ![c] = "CLOSED"]
    /\ \/ busy' = [busy EXCEPT ![c] = FALSE] /\ UNCHANGED thread
       \/ /\ Len(queue) <= QueueBound
          /\ busy' = [busy EXCEPT ![c] = TRUE]
          /\ thread' = IF thread[c] = "idle" THEN [thread EXCEPT ![c] = "starting"]
                                             ELSE thread
    /\ onView' = [d \in Conn |-> onView[d] /\
                    ~(item[c] = "RUNNING" /\ ~busy[c] /\ d # c /\ Found(d))]
    /\ UNCHANGED <<keepAlive, ptr, closeCb, onViewExist, docks, listEnabled, searching,
                   queue, aborted>>

\* deleteCurrentConnection of a row without element: it goes, even if it runs.
DeleteRenamed(c) ==
    /\ UserActs
    /\ item[c] # "absent" /\ label[c] = "new" /\ ~busy[c]
    /\ item' = [item EXCEPT ![c] = "absent"]
    /\ GoesBy(c, "own")
    /\ hasty' = (hasty \/ thread[c] # "idle")
    /\ UNCHANGED <<busy, threadVars, viewVars, searching, queue, aborted>>

\* What the user does with rows; "New" is in the file menu too.  (Close takes
\* the name of a renamed row over first.)
UserStep(c) ==
    /\ \/ /\ inputs \/ fileMenu
          /\ Free(c) /\ CreateConnection(c) /\ UNCHANGED <<label, hasty>>
       \/ inputs /\ Found(c) /\ OpenItem(c) /\ UNCHANGED <<label, hasty>>
       \/ inputs /\ Found(c) /\ DeleteConnection(c) /\ GoesBy(c, "own") /\ UNCHANGED hasty
       \/ inputs /\ CloseItem(c) /\ GoesBy(c, "own") /\ UNCHANGED hasty
       \/ inputs /\ (OverviewRow(c) \/ RenameRow(c) \/ ClickRenamed(c) \/ DeleteRenamed(c))
    /\ UNCHANGED <<loop, result, menuVars, waitVars, exitVars>>

\* The toolbar's "close overview": both stopProcessing slots.
CloseOverviewStep ==
    /\ inputs
    /\ UserActs
    /\ onView' = [d \in Conn |-> onView[d] /\ ~Found(d)]
    /\ onViewExist' = FALSE
    /\ docks' = NoConn
    /\ UNCHANGED <<item, busy, threadVars, listEnabled, searching, queue, aborted,
                   loop, result, menuVars, waitVars, flagVars>>

\* startRadarAnimation and finishRadarAnimation around the search.
SearchStarts ==
    /\ inputs
    /\ RefreshLocalhost
    /\ inputs' = FALSE /\ fileMenu' = FALSE
    /\ UNCHANGED <<loop, result, waitVars, flagVars>>

SearchEnds ==
    /\ SearchComplete
    /\ inputs' = TRUE /\ fileMenu' = TRUE
    /\ UNCHANGED <<loop, result, waitVars, flagVars>>

\* Bound: nobody exits or restarts while the program starts or searches, when
\* the threads of the search change the list as well.
StartIsOver == loop # "starting" /\ result = "none" /\ ~searching

\* Nothing is in process: no connection opens, nothing waits for the GUI.
Settled == queue = <<>> /\ \A c \in Conn : thread[c] \in {"idle", "loop"}

\* closeAllConnections: every RUNNING, available row is double-clicked, which
\* takes over the name of a renamed one.  (Bound: none is to be opened at start.)
CloseAllConnections ==
    LET Runs == {c \in Row : item[c] = "RUNNING" /\ ~busy[c]}
        S    == {c \in Runs : thread[c] # "idle"}
        Live == {c \in S : ptr[c] # "null"}
    IN  \E fails \in SUBSET (IF "closeError" \in Faults THEN Live ELSE {}) :
        LET Ended == Live \ fails
        IN  /\ item' = [c \in Conn |->
                    IF c \in Ended \/ (c \in Runs \ S /\ label[c] = "new") THEN "CLOSED"
                    ELSE IF c \in S THEN "FAILED" ELSE item[c]]
            /\ label' = [c \in Conn |-> IF c \in S \/ (c \in Runs /\ label[c] = "new")
                                       THEN "own" ELSE label[c]]
            /\ ptr' = [c \in Conn |-> IF c \in Live THEN "null" ELSE ptr[c]]
            /\ closeCb' = [c \in Conn |-> closeCb[c] /\ c \notin Live]
            /\ onView' = [c \in Conn |-> onView[c] /\ c \notin Ended]
            /\ IF \E c \in Ended : onView[c]
               THEN onViewExist' = FALSE /\ docks' = NoConn
               ELSE UNCHANGED <<onViewExist, docks>>

\* restartApplication, from the file menu.
RestartApplication ==
    /\ fileMenu
    /\ wait = "none"
    /\ StartIsOver
    /\ CloseAllConnections
    /\ inputs' = FALSE /\ fileMenu' = FALSE
    /\ restarting' = TRUE
    /\ hasty' = (hasty \/ ~Settled)
    /\ wait' = "started"
    /\ UNCHANGED <<busy, thread, keepAlive, listEnabled, searching, queue, aborted,
                   loop, result, todo, toDelete, toExit, quit>>

\* The first close event of the window, from its frame, the tray or the menu:
\* everything is disabled, Wait starts, the event is ignored.
CloseEvent ==
    /\ wait = "none" /\ ~toExit
    /\ StartIsOver
    /\ inputs' = FALSE /\ fileMenu' = FALSE
    /\ toExit' = TRUE
    /\ hasty' = (hasty \/ ~Settled)
    /\ wait' = "started"
    /\ UNCHANGED <<vars, loop, result, label, todo, toDelete, restarting, quit>>

\* Any later close event is accepted: main() returns and destroys the window
\* with all threads it owns; one that runs aborts the process.
AcceptClose ==
    /\ quit' = TRUE
    /\ aborted' = \/ \E c \in Conn : thread[c] # "idle"
                  \/ wait \in {"started", "visiting", "sleeping"}
                  \/ loop \in {"starting", "running", "stopping"}
    /\ UNCHANGED <<item, busy, threadVars, viewVars, searching, queue, loop, result,
                   menuVars, waitVars, label, restarting, toExit>>

\* The user closes the window once more.
CloseAgain ==
    /\ wait # "none"
    /\ hasty' = TRUE
    /\ AcceptClose

\* timerStopped() -> close().
TimerStopped ==
    /\ loop \in {"freed", "ended"}
    /\ UNCHANGED hasty
    /\ AcceptClose

----------------------------------------------------------------------------
(* Wait::run.                                                              *)

\* A connection thread that will leave its 500 ms loop when it wakes: it does
\* so while Wait sleeps for a second.
Due(c) == thread[c] = "loop" /\ ~(keepAlive[c] /\ ptr[c] # "null")

Awake == wait = "started" \/ (wait = "sleeping" /\ \A c \in Conn : ~Due(c))

\* while (count): one pass over the rows.  (Bound: the GUI keeps up.)
WaitPass ==
    /\ Awake
    /\ Row # {}
    /\ Len(queue) <= QueueBound
    /\ wait' = "visiting"
    /\ todo' = Row
    /\ toDelete' = {}
    /\ UNCHANGED <<vars, loop, result, menuVars, flagVars>>

\* ConnAliveThread::closeConnection in the Wait thread: the same as in the GUI
\* thread but for its signals, which are posted.  changeConnState(CLOSED) does
\* what finished() does.
CloseFromWait(c) ==
    \/ /\ ptr[c] = "null"
       /\ Emit(c, "FAILED")
       /\ UNCHANGED <<ptr, closeCb>>
    \/ /\ ptr[c] # "null"
       /\ ptr' = [ptr EXCEPT ![c] = "null"]
       /\ closeCb' = [closeCb EXCEPT ![c] = FALSE]
       /\ queue' = queue \o
            << [to |-> c, sig |-> IF onView[c] THEN "closedOnView" ELSE "closedOffView"],
               [to |-> c, sig |-> "finished"] >>
    \/ /\ "closeError" \in Faults
       /\ ptr[c] # "null"
       /\ ptr' = [ptr EXCEPT ![c] = "null"]
       /\ closeCb' = [closeCb EXCEPT ![c] = FALSE]
       /\ Emit(c, "FAILED")

\* Mutant: a row that runs is listed for deletion and not closed.
WaitVisitDeletesAll(c) ==
    /\ wait = "visiting"
    /\ c \in todo
    /\ todo' = todo \ {c}
    /\ toDelete' = toDelete \cup {c}
    /\ UNCHANGED <<vars, loop, result, menuVars, wait, flagVars>>

\* Mutant: only rows that do not run are handled.
WaitVisitDeletesOnly(c) ==
    /\ wait = "visiting"
    /\ c \in todo
    /\ todo' = todo \ {c}
    /\ toDelete' = IF item[c] \in {"FAILED", "CLOSED"} THEN toDelete \cup {c} ELSE toDelete
    /\ UNCHANGED <<vars, loop, result, menuVars, wait, flagVars>>

\* One row of the pass: list it for deletion, or close it if its element is found.
\* (A name by which no element is found is listed in vain and left out here.)
WaitVisit(c) ==
    /\ wait = "visiting"
    /\ c \in todo
    /\ todo' = todo \ {c}
    /\ \/ /\ Found(c) /\ item[c] \in {"FAILED", "CLOSED"}
          /\ toDelete' = toDelete \cup {c}
          /\ UNCHANGED <<ptr, closeCb, queue>>
       \/ /\ Found(c) /\ item[c] \in {"RUNNING", "CONNECT"}
          /\ IF thread[c] # "idle" THEN CloseFromWait(c)
                                   ELSE UNCHANGED <<ptr, closeCb, queue>>
          /\ UNCHANGED toDelete
       \/ /\ ~Found(c)
          /\ UNCHANGED <<ptr, closeCb, queue, toDelete>>
    /\ UNCHANGED <<item, busy, thread, keepAlive, viewVars, searching, aborted,
                   loop, result, menuVars, wait, flagVars>>

\* The rows in to_Delete go.  Their ConnElements and threads live on.
WaitRemove(c) ==
    /\ wait = "visiting" /\ todo = {}
    /\ c \in toDelete
    /\ toDelete' = toDelete \ {c}
    /\ item' = [item EXCEPT ![c] = "absent"]
    /\ busy' = [busy EXCEPT ![c] = FALSE]
    /\ GoesBy(c, "own")
    /\ UNCHANGED <<threadVars, viewVars, searching, queue, aborted,
                   loop, result, menuVars, wait, todo, exitVars, hasty>>

WaitSleeps ==
    /\ wait = "visiting" /\ todo = {} /\ toDelete = {}
    /\ wait' = "sleeping"
    /\ UNCHANGED <<vars, loop, result, menuVars, todo, toDelete, flagVars>>

\* Mutant: one pass, whatever is left.
WaitEndsAfterOnePass ==
    /\ wait = "sleeping"
    /\ wait' = "over"
    /\ UNCHANGED <<vars, loop, result, menuVars, todo, toDelete, flagVars>>

WaitEnds ==
    /\ Awake
    /\ Row = {}
    /\ wait' = "over"
    /\ UNCHANGED <<vars, loop, result, menuVars, todo, toDelete, flagVars>>

----------------------------------------------------------------------------
(* The GUI thread: what was posted.  finished(), result() and timerStopped() *)
(* are not kept in the queue of the connections: they are delivered at any  *)
(* time after they were posted.                                             *)

\* VirtEventLoop::stop, the slot of the exit's finished().
Stop ==
    /\ wait = "over" /\ ~restarting
    /\ wait' = "done"
    /\ loop' = IF loop = "running" THEN "stopping" ELSE loop
    /\ UNCHANGED <<vars, result, menuVars, todo, toDelete, flagVars>>

\* The slot of the restart's finished(): both thread objects are deleted and
\* the loop is made anew.
VirtEventLoopFinished ==
    /\ wait = "over" /\ restarting
    /\ IF loop = "running"
       THEN /\ aborted' = TRUE
            /\ UNCHANGED <<loop, result, wait, restarting>>
       ELSE /\ wait' = "none"
            /\ loop' = "starting"
            /\ result' = "none"
            /\ restarting' = FALSE
            /\ UNCHANGED aborted
    /\ UNCHANGED <<item, busy, threadVars, viewVars, searching, queue,
                   menuVars, todo, toDelete, label, toExit, quit, hasty>>

\* An element without a row has no cell to show its state in.  With its state it
\* writes its name to the row.
DeliverEvent ==
    /\ queue # <<>>
    /\ LET e == Head(queue)
           state == e.to # NoConn /\ e.sig \in StateSignal
       IN  \/ /\ state /\ e.to \notin Row
              /\ queue' = Tail(queue)
              /\ UNCHANGED <<item, busy, threadVars, viewVars, searching, aborted, label>>
           \/ state /\ e.to \in Row /\ Deliver /\ GoesBy(e.to, "own")
           \/ ~state /\ Deliver /\ UNCHANGED label
    /\ UNCHANGED <<loop, result, menuVars, waitVars, exitVars, hasty>>

----------------------------------------------------------------------------

ConnStep == /\ \/ \E c \in Conn : Worker(c) \/ RemoteClose(c)
               \/ EntityControlsUpdated
            /\ UNCHANGED <<loop, result, menuVars, waitVars, flagVars>>

LoopStep == LoopStarts \/ LoopFails \/ FreeCallback \/ LoopEnds
WaitStep == \/ WaitPass \/ WaitSleeps \/ WaitEnds
            \/ \E c \in Conn : WaitVisit(c) \/ WaitRemove(c)
GuiStep  == InitConnections \/ Stop \/ VirtEventLoopFinished \/ TimerStopped

AppNext ==
    /\ ~aborted /\ ~quit
    /\ \/ ConnStep \/ DeliverEvent \/ LoopStep \/ WaitStep \/ GuiStep
       \/ \E c \in Conn : UserStep(c)
       \/ CloseOverviewStep \/ SearchStarts \/ SearchEnds
       \/ RestartApplication \/ CloseEvent \/ CloseAgain

Alive == ~aborted /\ ~quit

WorkerStep(c) == Worker(c) /\ UNCHANGED <<loop, result, menuVars, waitVars, flagVars>>

\* Every thread is scheduled, the calls it makes return, and the GUI delivers
\* what is posted.  Nothing obliges the user, the peers or the search.
AppFairness ==
    /\ \A c \in Conn : WF_appVars(Alive /\ WorkerStep(c))
    /\ WF_appVars(Alive /\ DeliverEvent)
    /\ WF_appVars(Alive /\ LoopStep)
    /\ WF_appVars(Alive /\ WaitStep)
    /\ WF_appVars(Alive /\ GuiStep)

AppSpec == AppInit /\ [][AppNext]_appVars /\ AppFairness

----------------------------------------------------------------------------
(* Properties.                                                             *)

\* An exit that begins when nothing is in process, and is waited for, ends with
\* every handle closed and no thread running: the passes of Wait, the late
\* events and the sleeping connection threads leave nothing behind.
CleanExit == quit /\ ~hasty => ~aborted /\ \A c \in Conn : ptr[c] # "open"

\* The Wait thread removes no row whose connection is alive: the list never
\* loses a handle that somebody has still to close.
LiveHandleIsListed == ~hasty => \A c \in Conn : ptr[c] = "open" => item[c] # "absent"

\* A row that Wait finds no element for is never removed, and its loop never ends
\* unless the element writes its name back.
Stuck == \E c \in Row : label[c] = "new"

\* An exit ends, if the event loop had started, and no row is left that was
\* renamed and not clicked.
ExitEnds == (toExit /\ loop = "running" /\ ~Stuck) ~> (quit \/ aborted)

\* The Wait thread of a restart comes to its end, so that the list is rebuilt,
\* with the same exception.
RestartEnds == (restarting /\ ~Stuck) ~> (~restarting \/ quit \/ aborted)

\* A row that reads busy ("Connection is Busy.") becomes available again, or
\* goes when the Wait thread removes it; one that was reset while its thread ran
\* waits for an event that its thread may not send.
BusyEnds == \A c \in Conn : busy[c] /\ label[c] # "reset"
                              ~> (~busy[c] \/ label[c] = "reset" \/ quit \/ aborted)

\* A connection whose peer closed it, after the close callback was told, does
\* not stay RUNNING in the list.
LossIsShown ==
    \A c \in Conn : (item[c] = "RUNNING" /\ ptr[c] = "dead" /\ ~keepAlive[c])
                    ~> (item[c] # "RUNNING" \/ quit \/ aborted)

----------------------------------------------------------------------------
(* What the comments of the code say.                                      *)

\* mainwindow.cpp, restartApplication: "stop virtEventLoop after closing all
\* connections": the loop that a restart replaces is not running any more.
RestartStopsLoop == [][ VirtEventLoopFinished => ~aborted' ]_appVars
=============================================================================
