---------------------------- MODULE ControlTables ----------------------------
(***************************************************************************)
(* What the seven entity controls offer, order and do with answers: per    *)
(* control its context menu, its toolbar, its execAction, its              *)
(* newVirtEntityFromXML and its resultReceiver.  EntityControls says what  *)
(* these words mean.                                                       *)
(***************************************************************************)
EXTENDS TaskPrograms, TLC

(***************************************************************************)
(* A menu says when it offers a method: on a row of an "active" or         *)
(* "stopped" entity, on one whose network change has begun ("changing"),   *)
(* on any "row", or "anywhere".                                            *)
(***************************************************************************)
Offer(when, methods) == [m \in methods |-> when]

\* What a method makes execAction do.
Reload      == [how |-> "reload", acts |-> {"GET_ALL_ENTITY_STATE"}, exit |-> 1]
Task(act)   == [how |-> "task", acts |-> {act}, exit |-> 1]
\* A dialog first; the task follows if its exec() returns something else than
\* 0.  exit is what it returns after Ok.
Dialog(acts, exit) == [how |-> "dialog", acts |-> acts, exit |-> exit]
\* A signal for the main window: editor, monitor, overview; or nothing.
Signal      == [how |-> "signal", acts |-> {}, exit |-> 1]
\* The task reads the row again after its dialog.
DialogAndRow(act) == [how |-> "dialogAndRow", acts |-> {act}, exit |-> 1]

(***************************************************************************)
(* A result table says what resultReceiver does with an answer: "list"     *)
(* fills the rows, "show" and "editor" pass a description on, "reload"     *)
(* orders a list if the task has succeeded, "told" in any case, "changing" *)
(* does and marks the row; "none".                                         *)
(***************************************************************************)
----------------------------------------------------------------------------
(* VirtDomainControl                                                       *)

DomMenu ==
    Offer("stopped", {"startEntity"}) @@
    Offer("active", {"pauseEntity", "destroyEntity", "resetVirtDomain", "rebootVirtDomain",
        "shutdownVirtDomain", "saveVirtDomain", "displayVirtDomain",
        "displayVirtDomainInExternalViewer", "migrateVirtDomain"}) @@
    Offer("row", {"editEntity", "undefineEntity", "setAutostartEntity", "getEntityXMLDesc",
        "monitorVirtDomain", "createVirtDomainSnapshot", "moreSnapshotActions"}) @@
    Offer("anywhere", {"reloadEntity"})

DomToolBar == {"startEntity", "pauseEntity", "destroyEntity", "resetVirtDomain",
    "rebootVirtDomain", "shutdownVirtDomain", "saveVirtDomain", "restoreVirtDomain",
    "undefineEntity", "createVirtDomainSnapshot"}

\* SnapshotActionDialog::accept() ends with done(result()), and result() is 0.
DomSnapshotDialog ==
    Dialog({"REVERT_TO_DOMAIN_SNAPSHOT", "DELETE_DOMAIN_SNAPSHOT"}, 0)

DomExecAction ==
    [startEntity         |-> Task("START_ENTITY"),
     pauseEntity         |-> Task("PAUSE_ENTITY"),
     destroyEntity       |-> Task("DESTROY_ENTITY"),
     editEntity          |-> Task("EDIT_ENTITY"),
     resetVirtDomain     |-> Task("RESET_ENTITY"),
     rebootVirtDomain    |-> Task("REBOOT_ENTITY"),
     shutdownVirtDomain  |-> Task("SHUTDOWN_ENTITY"),
     saveVirtDomain      |-> DialogAndRow("SAVE_ENTITY"),
     restoreVirtDomain   |-> Dialog({"RESTORE_ENTITY"}, 1),
     undefineEntity      |-> Task("UNDEFINE_ENTITY"),
     setAutostartEntity  |-> Task("CHANGE_ENTITY_AUTOSTART"),
     migrateVirtDomain   |-> Dialog({"MIGRATE_ENTITY"}, 1),
     getEntityXMLDesc    |-> Task("GET_XML_DESCRIPTION"),
     displayVirtDomain   |-> Task("GET_ALL_ENTITY_DATA0"),
     displayVirtDomainInExternalViewer |-> Task("GET_ALL_ENTITY_DATA1"),
     monitorVirtDomain   |-> Signal,
     reloadEntity        |-> Reload,
     createVirtDomainSnapshot |-> Dialog({"CREATE_DOMAIN_SNAPSHOT"}, 1),
     moreSnapshotActions |-> DomSnapshotDialog]

DomDoubleClick == Task("GET_ALL_ENTITY_DATA0")
DomNewEntity == {Task("CREATE_ENTITY"), Task("DEFINE_ENTITY"), Signal}

DomResult == [act \in DOMAIN DomRun |->
    CASE act = "GET_ALL_ENTITY_STATE" -> "list"
      [] act \in {"GET_XML_DESCRIPTION", "GET_ALL_ENTITY_DATA0",
            "GET_ALL_ENTITY_DATA1"} -> "show"
      [] act = "EDIT_ENTITY" -> "editor"
      [] OTHER -> "reload"]

----------------------------------------------------------------------------
(* VirtNetControl                                                          *)

NetMenu ==
    Offer("stopped", {"startEntity"}) @@
    Offer("active", {"destroyEntity"}) @@
    Offer("row", {"undefineEntity", "setAutostartEntity", "editEntity", "getEntityXMLDesc"}) @@
    Offer("anywhere", {"reloadEntity"})

NetToolBar == {"startEntity", "destroyEntity", "undefineEntity"}

NetExecAction ==
    [startEntity        |-> Task("START_ENTITY"),
     destroyEntity      |-> Task("DESTROY_ENTITY"),
     defineEntity       |-> Task("DEFINE_ENTITY"),
     undefineEntity     |-> Task("UNDEFINE_ENTITY"),
     setAutostartEntity |-> Task("CHANGE_ENTITY_AUTOSTART"),
     editEntity         |-> Task("EDIT_ENTITY"),
     getEntityXMLDesc   |-> Task("GET_XML_DESCRIPTION"),
     reloadEntity       |-> Reload]

NetNewEntity == {Task("CREATE_ENTITY"), Task("DEFINE_ENTITY"), Signal}

NetResult == [act \in DOMAIN NetRun |->
    CASE act = "GET_ALL_ENTITY_STATE" -> "list"
      [] act = "GET_XML_DESCRIPTION" -> "show"
      [] act = "EDIT_ENTITY" -> "editor"
      [] OTHER -> "reload"]

----------------------------------------------------------------------------
(* VirtStoragePoolControl                                                  *)

PoolMenu ==
    Offer("stopped", {"startEntity"}) @@
    Offer("active", {"destroyEntity"}) @@
    Offer("row", {"undefineEntity", "setAutostartEntity", "deleteEntity", "getEntityXMLDesc",
        "overviewEntity"}) @@
    Offer("anywhere", {"reloadEntity"})

PoolToolBar == {"startEntity", "destroyEntity", "undefineEntity", "overviewEntity"}

PoolExecAction ==
    [startEntity        |-> Task("START_ENTITY"),
     destroyEntity      |-> Task("DESTROY_ENTITY"),
     undefineEntity     |-> Task("UNDEFINE_ENTITY"),
     setAutostartEntity |-> Task("CHANGE_ENTITY_AUTOSTART"),
     deleteEntity       |-> Task("DELETE_ENTITY"),
     getEntityXMLDesc   |-> Task("GET_XML_DESCRIPTION"),
     overviewEntity     |-> Signal,
     reloadEntity       |-> Reload]

PoolNewEntity == {Task("CREATE_ENTITY"), Task("DEFINE_ENTITY"),
                  Dialog({"CREATE_ENTITY", "DEFINE_ENTITY"}, 1)}

\* Mutant: nor does the answer to a definition have a branch.
PoolResultNoDefine == [act \in DOMAIN PoolRun |->
    CASE act = "GET_ALL_ENTITY_STATE" -> "list"
      [] act = "GET_XML_DESCRIPTION" -> "show"
      [] act \in {"CREATE_ENTITY", "START_ENTITY", "DESTROY_ENTITY",
            "UNDEFINE_ENTITY", "CHANGE_ENTITY_AUTOSTART"} -> "told"
      [] OTHER -> "none"]

\* The answer to a deletion has no branch.
PoolResult == [act \in DOMAIN PoolRun |->
    CASE act = "GET_ALL_ENTITY_STATE" -> "list"
      [] act = "GET_XML_DESCRIPTION" -> "show"
      [] act \in {"CREATE_ENTITY", "DEFINE_ENTITY", "START_ENTITY", "DESTROY_ENTITY",
            "UNDEFINE_ENTITY", "CHANGE_ENTITY_AUTOSTART"} -> "told"
      [] OTHER -> "none"]

----------------------------------------------------------------------------
(* VirtStorageVolControl                                                   *)

VolMenu ==
    Offer("row", {"deleteEntity", "downloadVirtStorageVol", "resizeVirtStorageVol",
        "uploadVirtStorageVol", "wipeVirtStorageVol", "getEntityXMLDesc"}) @@
    Offer("anywhere", {"reloadEntity"})

VolToolBar == {"uploadVirtStorageVol", "deleteEntity", "downloadVirtStorageVol",
    "resizeVirtStorageVol", "wipeVirtStorageVol", "refreshVirtStorageVolList"}

VolExecAction ==
    [reloadEntity           |-> Reload,
     deleteEntity           |-> Task("DELETE_ENTITY"),
     downloadVirtStorageVol |-> Dialog({"DOWNLOAD_ENTITY"}, 1),
     resizeVirtStorageVol   |-> Dialog({"RESIZE_ENTITY"}, 1),
     uploadVirtStorageVol   |-> Dialog({"UPLOAD_ENTITY"}, 1),
     wipeVirtStorageVol     |-> Task("WIPE_ENTITY"),
     getEntityXMLDesc       |-> Task("GET_XML_DESCRIPTION")]

VolNewEntity == {Task("CREATE_ENTITY"), Dialog({"CREATE_ENTITY"}, 1)}

\* The answer to a refresh has no branch.
VolResult == [act \in DOMAIN VolRun |->
    CASE act = "GET_ALL_ENTITY_STATE" -> "list"
      [] act \in {"GET_XML_DESCRIPTION", "DOWNLOAD_ENTITY", "UPLOAD_ENTITY",
            "WIPE_ENTITY"} -> "show"
      [] act \in {"CREATE_ENTITY", "DELETE_ENTITY", "RESIZE_ENTITY"} -> "told"
      [] OTHER -> "none"]

----------------------------------------------------------------------------
(* VirtSecretControl                                                       *)

SecretMenu ==
    Offer("row", {"undefineEntity", "getEntityXMLDesc"}) @@
    Offer("anywhere", {"reloadEntity"})

SecretToolBar == {"defineEntity", "undefineEntity"}

SecretExecAction ==
    [defineEntity     |-> Dialog({"DEFINE_ENTITY"}, 1),
     undefineEntity   |-> Task("UNDEFINE_ENTITY"),
     getEntityXMLDesc |-> Task("GET_XML_DESCRIPTION"),
     reloadEntity     |-> Reload]

SecretResult == [act \in DOMAIN SecretRun |->
    CASE act = "GET_ALL_ENTITY_STATE" -> "list"
      [] act = "GET_XML_DESCRIPTION" -> "show"
      [] OTHER -> "reload"]

----------------------------------------------------------------------------
(* VirtInterfaceControl                                                    *)

IfaceMenu ==
    Offer("stopped", {"startEntity"}) @@
    Offer("active", {"destroyEntity"}) @@
    Offer("row", {"undefineEntity", "getEntityXMLDesc"}) @@
    Offer("changing", {"changeBeginVirtInterface", "changeCommitVirtInterface",
        "changeRollbackVirtInterface"}) @@
    Offer("anywhere", {"reloadEntity"})

IfaceToolBar == {"undefineEntity", "startEntity", "destroyEntity",
    "changeBeginVirtInterface", "changeCommitVirtInterface", "changeRollbackVirtInterface"}

IfaceExecAction ==
    [startEntity                 |-> Task("START_ENTITY"),
     destroyEntity               |-> Task("DESTROY_ENTITY"),
     defineEntity                |-> Signal,
     undefineEntity              |-> Task("UNDEFINE_ENTITY"),
     changeBeginVirtInterface    |-> Task("IFACE_CHANGE_BEGIN"),
     changeCommitVirtInterface   |-> Task("IFACE_CHANGE_COMMIT"),
     changeRollbackVirtInterface |-> Task("IFACE_CHANGE_ROLLBACK"),
     getEntityXMLDesc            |-> Task("GET_XML_DESCRIPTION"),
     reloadEntity                |-> Reload]

IfaceNewEntity == {Task("DEFINE_ENTITY"), Signal, Dialog({"DEFINE_ENTITY"}, 1)}

IfaceResult == [act \in DOMAIN IfaceRun |->
    CASE act = "GET_ALL_ENTITY_STATE" -> "list"
      [] act = "GET_XML_DESCRIPTION" -> "show"
      [] act \in {"IFACE_CHANGE_BEGIN", "IFACE_CHANGE_COMMIT",
            "IFACE_CHANGE_ROLLBACK"} -> "changing"
      [] OTHER -> "told"]

----------------------------------------------------------------------------
(* VirtNWFilterControl                                                     *)

FilterMenu == Offer("anywhere", {"editEntity", "getEntityXMLDesc", "reloadEntity"})

FilterToolBar == {"defineEntity", "undefineEntity"}

FilterExecAction ==
    [defineEntity     |-> Signal,
     undefineEntity   |-> Task("UNDEFINE_ENTITY"),
     editEntity       |-> Task("EDIT_ENTITY"),
     getEntityXMLDesc |-> Task("GET_XML_DESCRIPTION"),
     reloadEntity     |-> Reload]

FilterNewEntity == {Task("DEFINE_ENTITY"), Signal}

FilterResult == [act \in DOMAIN FilterRun |->
    CASE act = "GET_ALL_ENTITY_STATE" -> "list"
      [] act = "GET_XML_DESCRIPTION" -> "show"
      [] act = "EDIT_ENTITY" -> "editor"
      [] OTHER -> "reload"]

----------------------------------------------------------------------------
(* The controls.  Without a current row only the methods of noRow do       *)
(* anything.                                                               *)

NoRowReload == [reloadEntity |-> Reload]

Control ==
    [VIRT_DOMAIN         |-> [menu |-> DomMenu, toolBar |-> DomToolBar, exec |-> DomExecAction,
                              noRow |-> NoRowReload, new |-> DomNewEntity,
                              result |-> DomResult, double |-> DomDoubleClick],
     VIRT_NETWORK        |-> [menu |-> NetMenu, toolBar |-> NetToolBar, exec |-> NetExecAction,
                              noRow |-> NoRowReload, new |-> NetNewEntity,
                              result |-> NetResult, double |-> Signal],
     VIRT_STORAGE_POOL   |-> [menu |-> PoolMenu, toolBar |-> PoolToolBar, exec |-> PoolExecAction,
                              noRow |-> NoRowReload, new |-> PoolNewEntity,
                              result |-> PoolResult, double |-> Signal],
     VIRT_STORAGE_VOLUME |-> [menu |-> VolMenu, toolBar |-> VolToolBar, exec |-> VolExecAction,
                              noRow |-> [reloadEntity |-> Reload,
                                         refreshVirtStorageVolList |-> Task("REFRESH_ENTITY")],
                              new |-> VolNewEntity, result |-> VolResult, double |-> Signal],
     VIRT_SECRET         |-> [menu |-> SecretMenu, toolBar |-> SecretToolBar,
                              exec |-> SecretExecAction,
                              noRow |-> [reloadEntity |-> Reload,
                                         defineEntity |-> Dialog({"DEFINE_ENTITY"}, 1)],
                              new |-> {}, result |-> SecretResult, double |-> Signal],
     VIRT_INTERFACE      |-> [menu |-> IfaceMenu, toolBar |-> IfaceToolBar,
                              exec |-> IfaceExecAction, noRow |-> NoRowReload,
                              new |-> IfaceNewEntity, result |-> IfaceResult, double |-> Signal],
     VIRT_NETWORK_FILTER |-> [menu |-> FilterMenu, toolBar |-> FilterToolBar,
                              exec |-> FilterExecAction, noRow |-> NoRowReload,
                              new |-> FilterNewEntity, result |-> FilterResult,
                              double |-> Signal]]
=============================================================================
