----------------------------- MODULE ConnWindows -----------------------------
(***************************************************************************)
(* The windows of a connection: the viewers of its domains (VM_Viewer,     *)
(* with an SSH_Tunnel or an LXC console behind some of them), the editors  *)
(* of its domains, networks and filters, the overviews of its storage      *)
(* pools, and the monitors of its domains' state.  MainWindow keeps them   *)
(* by "connection_object" and closes them with their connection; a domain  *)
(* monitor outlives it.  All of them use the connection through the same   *)
(* pointer slot, and some take references of its handle.                   *)
(*                                                                         *)
(* Of a connection (module ConnLifecycle) only the slot, the onView flag   *)
(* of its thread and the close that still has to reach the main window are *)
(* kept; of the entities one object per window class.  Windows are known   *)
(* by the name their connection had when it was put on view.               *)
(***************************************************************************)
EXTENDS Integers, FiniteSets

CONSTANTS
    Conn, NoConn,
    Shadows,       \* pairs <<c, d>>: the name of d starts with the name of c
    Tries,         \* when a viewer gives up to connect (the code: 30 seconds)
    Budget         \* bound: windows, monitors and sessions opened in a run

ASSUME WindowsAssumption ==
    /\ NoConn \notin Conn
    /\ Shadows \subseteq Conn \X Conn
    /\ Tries \in Nat \ {0}
    /\ Budget \in Nat

VARIABLES
    link,      \* the pointer slot: "down" (null), "up", "dead" (the peer left)
    notice,    \* connClosed(onView) of a lost connection, not yet delivered
    viewed,    \* the connections whose thread has onView set
    astray,    \* those whose name is not any more the one docks and windows know
    untold,    \* the closed ones of which docks or windows were not told
    ctl,       \* ptr_ConnPtr and currConnName of the controls in the docks
    active,    \* the controls are enabled
    answers,   \* tasks of the controls whose result will open a window
    viewer,    \* VM_Displayed_Map: the viewer of each connection's domain
    editor,    \* DomainEditor_Map and its siblings
    pool,      \* Overviewed_StPool_Map
    monitor,   \* monitoredDomains
    held,      \* references of the present handle beside the owner's own
    tunnels,   \* ssh tunnels that run without a viewer
    main,      \* the main window is shown, not hidden in the tray
    exiting,   \* the first close event of the main window was handled
    ended,     \* "no", "quit" (the last window was closed) or "aborted"
    spent,     \* of the Budget
    stolen,    \* the owner's reference of the present handle was dropped
    late,      \* history: the docks changed with an answer or a notice due
    rash,      \* history: a reference of this handle was dropped by one who had none
    hurried    \* history: a viewer was asked for again before it was shown

nameVars == <<viewed, astray, untold>>
connVars == <<link, notice, held, stolen, nameVars>>
dockVars == <<ctl, active, answers>>
windowVars == <<viewer, editor, pool, tunnels, ended>>
history == <<late, rash, hurried>>
vars == <<connVars, dockVars, windowVars, monitor, main, exiting, spent, history>>

\* kind: "none", "net" or "lxc"; wdg: its display, "none", "live" or "freed"; back:
\* what runs behind it, the ssh tunnel ("starting", "tunnel") or the threads of a
\* console ("asking", "pty", "opening", "console"); refs: references it has taken;
\* reinit: reinitCounter, or NoTimer while that timer does not run.
NoTimer == -1
NoViewer == [kind |-> "none", of |-> NoConn, seen |-> FALSE, wdg |-> "none",
             reinit |-> NoTimer, kill |-> FALSE, back |-> "none", refs |-> 0]

\* reading: the HelperThread of an editor runs.
NoEditor == [of |-> NoConn, reading |-> FALSE]

\* refs: references it has taken of the present handle; first: firstStep.
NoMonitor == [on |-> FALSE, first |-> TRUE, polling |-> FALSE, refs |-> 0]

Init ==
    /\ link = [c \in Conn |-> "down"]
    /\ notice = [c \in Conn |-> "none"]
    /\ viewed = {}
    /\ astray = {}
    /\ untold = {}
    /\ ctl = [ptr |-> NoConn, name |-> NoConn]
    /\ active = FALSE
    /\ answers = {}
    /\ viewer = [c \in Conn |-> NoViewer]
    /\ editor = [c \in Conn |-> NoEditor]
    /\ pool = [c \in Conn |-> NoConn]
    /\ monitor = [c \in Conn |-> NoMonitor]
    /\ held = [c \in Conn |-> 0]
    /\ tunnels = 0
    /\ main = TRUE
    /\ exiting = FALSE
    /\ ended = "no"
    /\ spent = 0
    /\ late = FALSE
    /\ stolen = [c \in Conn |-> FALSE]
    /\ rash = [c \in Conn |-> FALSE]
    /\ hurried = FALSE

Spend == spent < Budget /\ spent' = spent + 1

----------------------------------------------------------------------------
(* Closing.                                                                *)

\* A thread that is its window's child is destroyed with it, and that of an LXC
\* viewer after a second: if it still runs the process is aborted.
ViewerBusy(v) == v.back \in {"asking", "opening"}

\* Mutant: the destructor of an LXC viewer does not wait for its thread.
MayAbortAtOnce(V, E, M) ==
    \/ \E c \in V : ViewerBusy(viewer[c]) \/ viewer[c].back = "console"
    \/ \E c \in E : editor[c].reading
    \/ \E c \in M : monitor[c].polling \/ monitor[c].refs = 0

\* A monitor without a reference of this session frees a pointer that was never
\* set, or the object of a session that is over.
MayAbort(V, E, M) ==
    \/ \E c \in V : ViewerBusy(viewer[c])
    \/ \E c \in E : editor[c].reading
    \/ \E c \in M : monitor[c].polling \/ monitor[c].refs = 0

\* Qt ends the program when a closed window leaves no other one visible.
LastWindow(V, E, P) ==
    /\ V \cup E \cup P # {}
    /\ \A c \in Conn : /\ viewer[c].seen => c \in V
                       /\ editor[c].of # NoConn => c \in E
                       /\ pool[c] # NoConn => c \in P

\* The references that those drop who go: the thread of a console one of the
\* two it took, a monitor one however many it took, if any.
ConsoleGoes(c, V) == c \in V /\ viewer[c].back \in {"opening", "console"}
Drops(c, V, M) == (IF ConsoleGoes(c, V) THEN 1 ELSE 0) + (IF c \in M THEN 1 ELSE 0)
Rash(c, V, M) ==
    \/ ConsoleGoes(c, V) /\ viewer[c].refs = 0
    \/ c \in M /\ monitor[c].refs = 0

\* The viewers of V, the editors of E, the overviews of P and the monitors of M
\* close: each says so, the main window forgets it, and it is destroyed.  Slots
\* are the connections whose pointer is not null at that time; nobody has a
\* reference of a handle that is no more.
Close(V, E, P, M, slots, shown) ==
    /\ viewer' = [c \in Conn |-> IF c \in V THEN NoViewer
                                 ELSE IF c \in slots THEN viewer[c]
                                 ELSE [viewer[c] EXCEPT !.refs = 0]]
    /\ editor' = [c \in Conn |-> IF c \in E THEN NoEditor ELSE editor[c]]
    /\ pool' = [c \in Conn |-> IF c \in P THEN NoConn ELSE pool[c]]
    /\ monitor' = [c \in Conn |-> IF c \in M THEN NoMonitor
                                  ELSE IF c \in slots THEN monitor[c]
                                  ELSE [monitor[c] EXCEPT !.refs = 0]]
    /\ tunnels' = tunnels + Cardinality({c \in V : viewer[c].back \in {"starting", "tunnel"}})
    /\ held' = [c \in Conn |-> IF c \in slots /\ held[c] > Drops(c, V, M)
                               THEN held[c] - Drops(c, V, M) ELSE 0]
    /\ stolen' = [c \in Conn |-> stolen[c] \/ (c \in slots /\ held[c] < Drops(c, V, M))]
    /\ rash' = [c \in Conn |-> rash[c] \/ (c \in slots /\ Rash(c, V, M))]
    /\ \/ ended' = IF ~shown /\ LastWindow(V, E, P) THEN "quit" ELSE ended
       \/ MayAbort(V, E, M) /\ ended' = "aborted"

Slots == {c \in Conn : link[c] # "down"}
Viewers(S) == {c \in S : viewer[c].kind # "none"}
Editors(S) == {c \in S : editor[c].of # NoConn}
Pools(S)   == {c \in S : pool[c] # NoConn}
Monitors(S) == {c \in S : monitor[c].on}

\* The connections whose windows have keys that start with the name of c.
Prefixed(c) == {c} \cup {d \in Conn : <<c, d>> \in Shadows}

\* Mutant: the overviews of storage pools are forgotten.
CloseConnGenerationsKeepsPools(c, slots) ==
    Close(Viewers(Prefixed(c)), Editors(Prefixed(c)), {}, {}, slots, main)

\* closeConnGenerations.  Monitors stay.
CloseConnGenerations(c, slots) ==
    Close(Viewers(Prefixed(c)), Editors(Prefixed(c)), Pools(Prefixed(c)), {}, slots, main)

\* MainWindow::stopConnProcessing, on connClosed(wasOnView) with the name that
\* the connection has now: under another one than they know, its windows stay.
\* The controls keep pointer and name; those that were on it without the flag
\* stay active.
StopConnProcessing(c, wasOnView, slots) ==
    /\ active' = (active /\ ~wasOnView)
    /\ late' = (late \/ (wasOnView /\ answers # {}))
    /\ viewed' = viewed \ {c}
    /\ untold' = IF c \in astray' \/ (active' /\ ctl.ptr = c) THEN untold \cup {c} ELSE untold
    /\ IF c \in astray' THEN Close({}, {}, {}, {}, slots, main)
                        ELSE CloseConnGenerations(c, slots)

----------------------------------------------------------------------------
(* The connections.                                                        *)

\* Bound: a connection that was renamed while it ran opens again when docks and
\* windows no longer use its former name.
FormerNameInUse(c) ==
    \/ active /\ ctl.ptr = c
    \/ Viewers({c}) \cup Editors({c}) \cup Pools({c}) # {}

\* A connection opens (again): the slot holds another handle, of which nobody
\* but its owner has a reference.  Empty docks take it.
OpenConnection(c) ==
    /\ ~exiting
    /\ link[c] # "up" /\ notice[c] = "none"
    /\ c \in astray => ~FormerNameInUse(c)
    /\ Spend
    /\ link' = [link EXCEPT ![c] = "up"]
    /\ held' = [held EXCEPT ![c] = 0]
    /\ stolen' = [stolen EXCEPT ![c] = FALSE]
    /\ rash' = [rash EXCEPT ![c] = FALSE]
    /\ monitor' = [monitor EXCEPT ![c].refs = 0]
    /\ viewer' = [viewer EXCEPT ![c].refs = 0]
    /\ astray' = astray \ {c}
    /\ untold' = untold \ {c}
    /\ IF active THEN UNCHANGED <<ctl, active, viewed>>
                 ELSE /\ ctl' = [ptr |-> c, name |-> c] /\ active' = TRUE
                      /\ viewed' = viewed \cup {c}
    /\ UNCHANGED <<notice, answers, editor, pool, tunnels, ended, main, exiting,
                   late, hurried>>

\* virConnectClose has failed: the slot is null, and no connClosed is emitted.
CloseFails(c) ==
    /\ untold' = untold \cup {c}
    /\ Close({}, {}, {}, {}, Slots \ {c}, main)
    /\ UNCHANGED <<active, late, viewed>>

\* ConnAliveThread::closeConnection, from the GUI or (exiting) from Wait: all
\* references are dropped, the slot is null before the windows close.  A menu
\* that closes a row just renamed gives its element the new name before.
CloseConnection(c) ==
    /\ link[c] = "up" /\ c \notin astray
    /\ link' = [link EXCEPT ![c] = "down"]
    /\ astray' \in {astray, astray \cup {c}}
    /\ CloseFails(c) \/ StopConnProcessing(c, c \in viewed, Slots \ {c})
    /\ UNCHANGED <<notice, ctl, answers, main, exiting, spent, hurried>>

\* The peer leaves: the event loop's thread posts connClosed(onView).
LoseConnection(c) ==
    /\ link[c] = "up"
    /\ link' = [link EXCEPT ![c] = "dead"]
    /\ notice' = [notice EXCEPT ![c] = IF c \in viewed THEN "onView" ELSE "offView"]
    /\ UNCHANGED <<held, stolen, nameVars, dockVars, windowVars, monitor, main, exiting, spent,
                   history>>

DeliverNotice(c) ==
    /\ notice[c] # "none"
    /\ notice' = [notice EXCEPT ![c] = "none"]
    /\ UNCHANGED astray
    /\ StopConnProcessing(c, notice[c] = "onView", Slots)
    /\ UNCHANGED <<link, ctl, answers, main, exiting, spent, hurried>>

\* A running row is renamed and clicked: its element takes the new name, and the
\* row, reset to CLOSED, can neither be shown nor closed from now on.
RenameRow(c) ==
    /\ ~exiting
    /\ link[c] = "up" /\ c \notin astray
    /\ Spend
    /\ astray' = astray \cup {c}
    /\ viewed' = viewed \cap {c}
    /\ UNCHANGED <<link, notice, held, stolen, untold, dockVars, windowVars, monitor, main,
                   exiting, history>>

\* The row says RUNNING, for which the close may be on the way.
RowRuns(c) == c \notin astray /\ (link[c] = "up" \/ notice[c] # "none")

\* Mutant: the header, and with it currConnName, is not set.
OverviewKeepsName(c) ==
    /\ ~exiting
    /\ RowRuns(c)
    /\ ctl' = [ctl EXCEPT !.ptr = c] /\ active' = TRUE
    /\ viewed' = {c}
    /\ late' = (late \/ answers # {} \/ notice[c] # "none")
    /\ UNCHANGED <<link, notice, held, stolen, astray, untold, answers, windowVars, monitor, main,
                   exiting, spent, rash, hurried>>

\* overviewOfConnection of a running row, and MainWindow::receiveConnPtrPtr.
Overview(c) ==
    /\ ~exiting
    /\ RowRuns(c)
    /\ ctl' = [ptr |-> c, name |-> c] /\ active' = TRUE
    /\ viewed' = {c}
    /\ late' = (late \/ answers # {} \/ notice[c] # "none")
    /\ UNCHANGED <<link, notice, held, stolen, astray, untold, answers, windowVars, monitor, main,
                   exiting, spent, rash, hurried>>

\* That of another row takes all others off view and leaves the docks alone.
OverviewOfOther(c) ==
    /\ ~exiting
    /\ link[c] # "up" \/ c \in astray
    /\ viewed' = viewed \cap {c}
    /\ UNCHANGED <<link, notice, held, stolen, astray, untold, dockVars, windowVars, monitor, main,
                   exiting, spent, history>>

\* The toolbar's "stop overview".
CloseOverview ==
    /\ active /\ ~exiting
    /\ active' = FALSE
    /\ viewed' = {}
    /\ late' = (late \/ answers # {})
    /\ UNCHANGED <<link, notice, held, stolen, astray, untold, ctl, answers, windowVars, monitor,
                   main, exiting, spent, rash, hurried>>

----------------------------------------------------------------------------
(* Opening.                                                                *)

\* A menu or a double click orders the task that precedes a viewer or editor;
\* it is refused, and its answer ignored, when the slot is null.
Ask(opens) ==
    /\ active /\ ~exiting
    /\ link[ctl.ptr] # "down"
    /\ Spend
    /\ answers' = answers \cup {[of |-> ctl.ptr, opens |-> opens]}
    /\ UNCHANGED <<connVars, ctl, active, windowVars, monitor, main, exiting, history>>

NewViewer(of, kind, seen, wdg, kill, back) ==
    [kind |-> kind, of |-> of, seen |-> seen, wdg |-> wdg, reinit |-> NoTimer,
     kill |-> kill, back |-> back, refs |-> 0]

\* What the constructors leave behind: an LXC viewer asks for its domain, a
\* direct one connects, another starts its tunnel, and one without an address
\* shows so and starts to close.
FreshViewers(of) ==
    { NewViewer(of, "lxc", FALSE, "none", FALSE, "asking"),
      NewViewer(of, "net", FALSE, "live", FALSE, "none"),
      NewViewer(of, "net", FALSE, "none", FALSE, "starting"),
      NewViewer(of, "net", TRUE,  "none", TRUE,  "none") }

\* invokeVMDisplay.  A viewer that exists is shown, connected or not.
InvokeVMDisplay(c, of) ==
    /\ IF viewer[c].kind # "none"
       THEN /\ viewer' = [viewer EXCEPT ![c].seen = TRUE]
            /\ hurried' = (hurried \/ ~viewer[c].seen)
       ELSE /\ \E v \in FreshViewers(of) : viewer' = [viewer EXCEPT ![c] = v]
            /\ UNCHANGED hurried
    /\ UNCHANGED editor

\* invokeDomainEditor, invokeNetworkEditor, invokeNWFilterEditor.
InvokeEditor(c, of) ==
    /\ editor' = IF editor[c].of # NoConn THEN editor
                 ELSE [editor EXCEPT ![c] = [of |-> of, reading |-> TRUE]]
    /\ UNCHANGED <<viewer, hurried>>

\* The result reaches the control, which names the connection it shows now, or
\* showed last; a result that failed opens nothing.
DeliverAnswer(a) ==
    /\ a \in answers
    /\ answers' = answers \ {a}
    /\ \/ a.opens = "viewer" /\ InvokeVMDisplay(ctl.name, a.of)
       \/ a.opens = "editor" /\ InvokeEditor(ctl.name, a.of)
       \/ UNCHANGED <<viewer, editor, hurried>>
    /\ UNCHANGED <<connVars, ctl, active, pool, tunnels, ended, monitor, main, exiting,
                   spent, late, rash>>

\* overviewStoragePool, a direct call.
OverviewStoragePool ==
    /\ active /\ ~exiting
    /\ pool[ctl.name] = NoConn
    /\ Spend
    /\ pool' = [pool EXCEPT ![ctl.name] = ctl.ptr]
    /\ UNCHANGED <<connVars, dockVars, viewer, editor, tunnels, ended, monitor, main,
                   exiting, history>>

----------------------------------------------------------------------------
(* Viewers.                                                                *)

Change(c, v) ==
    /\ viewer' = [viewer EXCEPT ![c] = v]
    /\ UNCHANGED <<connVars, dockVars, editor, pool, tunnels, ended, monitor, main,
                   exiting, spent, history>>

\* showErrorInfo: the window shows a text; the central widget it had is freed.
Tell(v) == [v EXCEPT !.seen = TRUE, !.wdg = IF v.wdg = "none" THEN "none" ELSE "freed"]

\* useSSHTunnel: the tunnel is established, and the viewer tries to connect.
Established(c) ==
    /\ viewer[c].back = "starting"
    /\ Change(c, [viewer[c] EXCEPT !.back = "tunnel", !.reinit = 0])

\* sshThreadFinished.
TunnelEnds(c) ==
    /\ viewer[c].back = "tunnel"
    /\ Change(c, [Tell(viewer[c]) EXCEPT !.back = "none"])

\* Mutant: nobody counts the attempts.
ReinitTickForever(c) ==
    LET v == viewer[c] IN
    /\ v.reinit # NoTimer
    /\ Change(c, IF ~v.seen THEN [v EXCEPT !.wdg = "live"]
                 ELSE [v EXCEPT !.reinit = NoTimer])

\* timerEvent, the reinitTimerId part: a viewer still hidden tries again, until
\* Tries; one that is visible by then has stopped to try.
ReinitTick(c) ==
    LET v == viewer[c]
        n == v.reinit + 1
    IN  /\ v.reinit # NoTimer
        /\ Change(c, IF ~v.seen /\ n < Tries
                     THEN [v EXCEPT !.wdg = "live", !.reinit = n]
                     ELSE IF n >= Tries
                     THEN [Tell(v) EXCEPT !.reinit = NoTimer, !.kill = TRUE]
                     ELSE [v EXCEPT !.reinit = NoTimer])

\* resizeViewer: the first picture of the display shows the window.
DisplayUp(c) ==
    /\ viewer[c].wdg = "live"
    /\ Change(c, [viewer[c] EXCEPT !.seen = TRUE])

\* The user resizes the window, or reconnects from its toolbar.
UseViewer(c) ==
    LET v == viewer[c] IN
    /\ v.seen /\ v.kind = "net"
    /\ \/ /\ v.wdg = "freed"            \* spiceWdg, vncWdg still point to it
          /\ ended' = "aborted"
          /\ UNCHANGED viewer
       \/ /\ v.wdg # "freed" /\ ~v.kill
          /\ viewer' = [viewer EXCEPT ![c].wdg = "live"]
          /\ UNCHANGED ended
    /\ UNCHANGED <<connVars, dockVars, editor, pool, tunnels, monitor, main, exiting,
                   spent, history>>

\* LXC_Viewer::init, when lxcHlpThread has finished.
LxcInit(c) ==
    /\ viewer[c].back = "asking"
    /\ \/ Change(c, [viewer[c] EXCEPT !.back = "pty"])
       \/ Change(c, [Tell(viewer[c]) EXCEPT !.back = "none", !.kill = TRUE])

\* Mutant: connRef is set though virConnectRef was not called.
LxcTimerTakesOne(c) ==
    /\ viewer[c].back = "pty"
    /\ \/ /\ link[c] # "down"
          /\ viewer' = [viewer EXCEPT ![c].back = "opening", ![c].seen = TRUE, ![c].refs = 2]
          /\ UNCHANGED held
       \/ /\ viewer' = [viewer EXCEPT ![c].back = "none", ![c].kill = TRUE]
          /\ UNCHANGED held
    /\ UNCHANGED <<link, notice, stolen, nameVars, dockVars, editor, pool, tunnels, ended, monitor, main,
                   exiting, spent, history>>

\* LXC_Viewer::timerEvent: the terminal is there, both setCurrentWorkConnection
\* and run() take a reference; or it does not come in time.  With a null slot
\* the timer is stopped, and nothing shows or closes the window.
LxcTimer(c) ==
    /\ viewer[c].back = "pty"
    /\ \/ /\ link[c] # "down"
          /\ viewer' = [viewer EXCEPT ![c].back = "opening", ![c].seen = TRUE, ![c].refs = 2]
          /\ held' = [held EXCEPT ![c] = @ + 2]
       \/ /\ viewer' = [viewer EXCEPT ![c].back = "none", ![c].kill = TRUE]
          /\ UNCHANGED held
       \/ /\ link[c] = "down"
          /\ viewer' = [viewer EXCEPT ![c].back = "none"]
          /\ UNCHANGED held
    /\ UNCHANGED <<link, notice, stolen, nameVars, dockVars, editor, pool, tunnels, ended, monitor, main,
                   exiting, spent, history>>

\* virDomainOpenConsole returns; the thread then sleeps beside the stream.
ConsoleOpens(c) ==
    /\ viewer[c].back = "opening"
    /\ Change(c, [viewer[c] EXCEPT !.back = "console"])

\* Closing by the user, who needs to see the window, or by its kill timer.
CloseWindow(V, E, P, M) ==
    /\ Close(V, E, P, M, Slots, main)
    /\ UNCHANGED <<link, notice, nameVars, dockVars, main, exiting, spent, late, hurried>>

UserCloses(c) ==
    \/ viewer[c].seen /\ CloseWindow({c}, {}, {}, {})
    \/ c \in Editors(Conn) /\ CloseWindow({}, {c}, {}, {})
    \/ c \in Pools(Conn) /\ CloseWindow({}, {}, {c}, {})

KillTimer(c) == viewer[c].kill /\ CloseWindow({c}, {}, {}, {})

\* The HelperThread of an editor is done; the one of a network filter keeps its
\* reference when the filters cannot be listed.
EditorRead(c) ==
    /\ editor[c].reading
    /\ editor' = [editor EXCEPT ![c].reading = FALSE]
    /\ \/ UNCHANGED held
       \/ link[c] # "down" /\ held' = [held EXCEPT ![c] = @ + 1]
    /\ UNCHANGED <<link, notice, stolen, nameVars, dockVars, viewer, pool, tunnels, ended, monitor,
                   main, exiting, spent, history>>

----------------------------------------------------------------------------
(* Monitors of a domain's state.                                           *)

\* setNewMonitoredDomain and the DomainStateViewer: one per domain.
AddToStateMonitor ==
    /\ active /\ ~exiting
    /\ ~monitor[ctl.name].on
    /\ link[ctl.ptr] # "down"
    /\ Spend
    /\ monitor' = [monitor EXCEPT ![ctl.name] = [NoMonitor EXCEPT !.on = TRUE]]
    /\ UNCHANGED <<connVars, dockVars, windowVars, main, exiting, history>>

\* Every third second the thread is started unless it runs.  Bound: no poll
\* while the handle has four references.
MonitorTick(c) ==
    /\ monitor[c].on /\ ~monitor[c].polling
    /\ monitor[c].first => held[c] < 4
    /\ monitor' = [monitor EXCEPT ![c].polling = TRUE]
    /\ UNCHANGED <<connVars, dockVars, windowVars, main, exiting, spent, history>>

\* DomainMonitorThread::run.  Until its domain was found it takes a reference
\* each time.  Its pointer to the domain may be none of this session.
MonitorPolled(c) ==
    LET m     == monitor[c]
        takes == m.first /\ link[c] # "down"
    IN  /\ m.polling
        /\ \E found \in BOOLEAN :
             /\ found => takes \/ ~m.first
             /\ monitor' = [monitor EXCEPT
                              ![c].polling = FALSE,
                              ![c].first = @ /\ ~found,
                              ![c].refs = IF takes THEN @ + 1 ELSE @]
        /\ held' = IF takes THEN [held EXCEPT ![c] = @ + 1] ELSE held
        /\ \/ UNCHANGED ended
           \/ m.refs = 0 /\ ~takes /\ ended' = "aborted"
        /\ UNCHANGED <<link, notice, stolen, nameVars, dockVars, viewer, editor, pool, tunnels, main,
                       exiting, spent, history>>

\* closeDomainStateViewer, removeClosedViewer.  ~DomainMonitorThread drops a
\* reference of whatever the slot holds.
RemoveClosedViewer(c) == monitor[c].on /\ CloseWindow({}, {}, {}, {c})

----------------------------------------------------------------------------
(* The main window.                                                        *)

ChangeVisibility ==
    /\ ~exiting
    /\ main' = ~main
    /\ UNCHANGED <<connVars, dockVars, windowVars, monitor, exiting, spent, history>>

\* The first close event: monitors and windows close before the Wait thread
\* closes the connections (CloseConnection).  Nothing more can be asked for.
CloseEvent ==
    /\ ~exiting
    /\ exiting' = TRUE
    /\ main' = TRUE
    /\ late' = (late \/ answers # {})
    /\ Close(Viewers(Conn), Editors(Conn), Pools(Conn), Monitors(Conn), Slots, TRUE)
    /\ UNCHANGED <<link, notice, nameVars, dockVars, spent, hurried>>

----------------------------------------------------------------------------

Timer(c) == ReinitTick(c) \/ KillTimer(c) \/ LxcTimer(c)

Step(c) ==
    \/ OpenConnection(c) \/ CloseConnection(c) \/ LoseConnection(c)
    \/ DeliverNotice(c) \/ RenameRow(c) \/ Overview(c) \/ OverviewOfOther(c)
    \/ Established(c) \/ TunnelEnds(c) \/ DisplayUp(c) \/ UseViewer(c)
    \/ LxcInit(c) \/ ConsoleOpens(c) \/ Timer(c)
    \/ UserCloses(c) \/ EditorRead(c)
    \/ MonitorTick(c) \/ MonitorPolled(c) \/ RemoveClosedViewer(c)

Next ==
    /\ ended = "no"
    /\ \/ \E c \in Conn : Step(c)
       \/ \E opens \in {"viewer", "editor"} : Ask(opens)
       \/ \E a \in answers : DeliverAnswer(a)
       \/ OverviewStoragePool \/ AddToStateMonitor \/ CloseOverview
       \/ ChangeVisibility \/ CloseEvent

\* Timers fire, helper threads return from libvirt and their finished() is
\* delivered.  Nobody promises that ssh or a display ever answers.
Fairness == \A c \in Conn : WF_vars(ended = "no" /\ (Timer(c) \/ LxcInit(c)))

Spec == Init /\ [][Next]_vars /\ Fairness

----------------------------------------------------------------------------
(* Properties.                                                             *)

\* The policy of closeConnGenerations: when a connection is closed, and the
\* main window has been told, none of its viewers, editors and overviews is
\* left, unless the answer that opened one came too late.  It is not told, or
\* of no use to it, when virConnectClose fails, when the connection has got
\* another name while it ran, and when its thread was off view though the docks
\* are on it and go on to open windows (untold).
NothingOutlivesConnection ==
    ~late => \A c \in Conn \ untold : link[c] # "up" /\ notice[c] = "none"
                 => Viewers({c}) \cup Editors({c}) \cup Pools({c}) = {}

\* A window shows, and an editor changes, an entity of the connection it is
\* named after: the answer has met the controls of the connection it is from.
WindowIsOfItsConnection ==
    ~late => \A c \in Conn : {viewer[c].of, editor[c].of, pool[c]} \subseteq {c, NoConn}

\* The handle is counted right: as long as nobody drops a reference that he has
\* not taken of it, the owner's own is never dropped by a window or a monitor.
OwnerKeepsHandle == \A c \in Conn : stolen[c] => rash[c]

\* Whatever runs behind a window is waited for: the process is not aborted by a
\* close unless a helper is in a libvirt call, a console has not come up, a
\* monitor has no reference of this session, or a picture is used after its
\* tunnel is gone.
AbortNeedsHaste ==
    [][ ended' = "aborted" =>
          \E c \in Conn : \/ viewer[c].back \in {"asking", "opening"}
                          \/ viewer[c].wdg = "freed"
                          \/ editor[c].reading
                          \/ monitor[c].polling
                          \/ monitor[c].on /\ monitor[c].refs = 0 ]_vars

\* A viewer that waits, tries or tells an error does not do so for ever: it shows
\* its display or what went wrong, or its window closes.  One behind a tunnel is
\* left as an empty window only if it was asked for again before its first try.
Unsettled(v) == v.reinit # NoTimer \/ v.kill \/ v.back \in {"asking", "pty"}
Blank(v) == v.seen /\ v.back = "tunnel" /\ v.wdg = "none"
ViewerSettles ==
    \A c \in Conn : Unsettled(viewer[c]) ~>
        \/ ~Unsettled(viewer[c]) /\ ~Blank(viewer[c])
        \/ ended # "no" \/ hurried
=============================================================================
