----------------------------- MODULE Application -----------------------------
(***************************************************************************)
(* The connections of the application: opened, closed and told to close    *)
(* (AppLifecycle), and the questions for credentials while they are opened *)
(* (AuthHandshake), which the former takes as one step of a thread.  The   *)
(* two share the connections and nothing that both change, so that a       *)
(* behaviour has one of them.                                              *)
(***************************************************************************)
EXTENDS AuthHandshake

CONSTANTS Faults, QueueBound   \* of AppLifecycle

ASSUME LifecycleAssumption ==
    /\ Faults \subseteq {"remoteClose", "closeError"}
    /\ QueueBound \in Nat

VARIABLES
    scene,   \* which of the two, throughout a behaviour
    item, busy, thread, keepAlive, ptr, closeCb, onView, onViewExist, docks, listEnabled,
    searching, queue, aborted, loop, result, inputs, fileMenu, wait, label, todo, toDelete,
    restarting, toExit, quit, hasty

L == INSTANCE AppLifecycle

lifecycle == <<item, busy, thread, keepAlive, ptr, closeCb, onView, onViewExist, docks,
               listEnabled, searching, queue, aborted, loop, result, inputs, fileMenu,
               wait, label, todo, toDelete, restarting, toExit, quit, hasty>>
appVars == <<scene, lifecycle, vars>>

AppInit == scene \in {"lifecycle", "questions"} /\ L!AppInit /\ Init
AppNext ==
    /\ scene' = scene
    /\ \/ scene = "lifecycle" /\ L!AppNext /\ UNCHANGED vars
       \/ scene = "questions" /\ Next /\ UNCHANGED lifecycle
AppSpec == AppInit /\ [][AppNext]_appVars

----------------------------------------------------------------------------

CleanExit == L!CleanExit
LiveHandleIsListed == L!LiveHandleIsListed
=============================================================================
