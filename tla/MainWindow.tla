------------------------------ MODULE MainWindow ------------------------------
(***************************************************************************)
(* Two jobs of the main window: to keep the windows of the connections     *)
(* (ConnWindows), and to start, restart and end the program with them      *)
(* (AppLifecycle).  Each module has its own view of what a connection is,  *)
(* and a behaviour has one of the two.                                     *)
(***************************************************************************)
EXTENDS ConnWindows, Sequences

CONSTANTS
    Listed,              \* the connections of AppLifecycle
    Faults, QueueBound

VARIABLES
    scene,   \* which of the two, throughout a behaviour
    item, busy, thread, keepAlive, ptr, closeCb, onView, onViewExist, docks, listEnabled,
    searching, queue, aborted, loop, result, inputs, fileMenu, wait, label, todo, toDelete,
    restarting, toExit, quit, hasty

L == INSTANCE AppLifecycle WITH Conn <- Listed

lifecycle == <<item, busy, thread, keepAlive, ptr, closeCb, onView, onViewExist, docks,
               listEnabled, searching, queue, aborted, loop, result, inputs, fileMenu,
               wait, label, todo, toDelete, restarting, toExit, quit, hasty>>
mainVars == <<scene, lifecycle, vars>>

Lifecycle(A) == scene = "lifecycle" /\ A /\ UNCHANGED <<scene, vars>>
Windows(A)   == scene = "windows" /\ A /\ UNCHANGED <<scene, lifecycle>>

MainInit == scene \in {"lifecycle", "windows"} /\ L!AppInit /\ Init
MainNext == Lifecycle(L!AppNext) \/ Windows(Next)

\* The fairness of both, each in its scene; every step changes its subscript.
MainFairness ==
    /\ \A c \in Listed : WF_thread(Lifecycle(L!Alive /\ L!WorkerStep(c)))
    /\ WF_queue(Lifecycle(L!Alive /\ L!DeliverEvent))
    /\ WF_loop(Lifecycle(L!Alive /\ L!LoopStep))
    /\ WF_<<wait, todo, toDelete>>(Lifecycle(L!Alive /\ L!WaitStep))
    /\ WF_<<loop, result, wait, quit, aborted>>(Lifecycle(L!Alive /\ L!GuiStep))
    /\ \A c \in Conn : WF_<<viewer, ended>>(Windows(ended = "no" /\ (Timer(c) \/ LxcInit(c))))

MainSpec == MainInit /\ [][MainNext]_mainVars /\ MainFairness

----------------------------------------------------------------------------

ExitEnds == L!ExitEnds
RestartEnds == L!RestartEnds
BusyEnds == L!BusyEnds
LossIsShown == L!LossIsShown
=============================================================================
