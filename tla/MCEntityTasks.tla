---------------------------- MODULE MCEntityTasks ----------------------------
(* TLC instances of TaskMachine with the programs of the code: every       *)
(* operation alone, and pairs of the operations that differ most.          *)
EXTENDS TaskMachine, TaskPrograms, TLC

CONSTANTS t1, t2

Pair(a, b) == (t1 :> a) @@ (t2 :> b)

Domain(action) == <<"VIRT_DOMAIN", action>>
Volume(action) == <<"VIRT_STORAGE_VOLUME", action>>

\* Every operation alone; beside another one, those that differ most.
MCWorkloads ==
    {t1 :> op : op \in Operation} \cup
    {Pair(Domain("GET_ALL_ENTITY_STATE"), Domain("START_ENTITY")),
     Pair(Domain("RESTORE_ENTITY"), Volume("REFRESH_ENTITY")),
     Pair(Domain("CREATE_ENTITY"), Domain("EDIT_ENTITY")),
     Pair(Volume("DELETE_ENTITY"), Volume("GET_ALL_ENTITY_STATE"))}
=============================================================================
