----------------------------- MODULE TaskMachine -----------------------------
(***************************************************************************)
(* The ControlThreads of one connection: how a task works through the      *)
(* libvirt calls of its operation (module TaskPrograms says which they     *)
(* are) while the handle they use may lose its peer, be closed by the user *)
(* and be opened again.                                                    *)
(*                                                                         *)
(* A handle is a virConnectPtr, numbered by the order of opening.  libvirt *)
(* counts the references to it: one of ConnAliveThread, one of each task,  *)
(* one of each object (domain, pool, ...) a task holds.  The model keeps   *)
(* the holders instead of their number; a handle without holders is freed. *)
(* A task reads the slot *ptr_ConnPtr again at every call.                 *)
(***************************************************************************)
EXTENDS Integers, Sequences

CONSTANTS
    Task,        \* the ControlThread objects
    Op,          \* the operations: entity and action
    Program,     \* their libvirt calls, in order
    Loose,       \* the operations that only read, or stream
    Unfreed,     \* which of its objects an operation does not give back
    Workloads,   \* which operations the tasks may be given
    MaxHandle    \* bound on how often the connection is opened

Kind == {"domain", "snapshot", "network", "pool", "volume", "stream",
         "secret", "iface", "filter"}

\* One statement of a program.  on: the object it is called on, or the
\* connection ("conn"), or nothing outside the task ("here"); obj: the object
\* it returns.
StepKind == {"get", "need", "make", "act", "try", "ask", "free",
             "file", "open", "temp", "done", "receive", "send"}
Step == [do : StepKind, on : Kind \cup {"conn", "here"}, obj : Kind \cup {"none"}]

\* A change: one call that has an effect, and no other that sets the result.
Changes == {"make", "act"}
Strict(p) ==
    /\ \A i \in DOMAIN p : p[i].do \in Changes \cup {"get", "try", "free", "file"}
    /\ \A i, j \in DOMAIN p : p[i].do \in Changes /\ p[j].do \in Changes => i = j

\* A read or a transfer: no other effect, and the transfer sets the result last.
Transfers == {"receive", "send"}
Harmless(p) ==
    /\ \A i \in DOMAIN p : p[i].do \notin Changes
    /\ \A i, j \in DOMAIN p :
           p[i].do \in Transfers /\ i < j => p[j].do \in {"get", "try", "free"}

\* What a call returns has a name, and only objects are given back.
Names(p) ==
    \A i \in DOMAIN p :
        /\ p[i].do \in {"get", "need", "make"} => p[i].obj \in Kind
        /\ p[i].do = "free" => p[i].on \in Kind

\* What is given back is not used again.
FreesLast(p) ==
    \A i, j \in DOMAIN p : p[i].do = "free" /\ i < j => p[j].on # p[i].on

ASSUME MachineAssumption ==
    /\ Loose \subseteq Op
    /\ Program \in [Op -> Seq(Step)]
    /\ \A op \in Op : Names(Program[op])
    /\ \A op \in Op \ Loose : Strict(Program[op])
    /\ \A op \in Loose : Harmless(Program[op])
    /\ Unfreed \in [Op -> SUBSET Kind]
    /\ Op # {} /\ Workloads \subseteq UNION {[S -> Op] : S \in SUBSET Task}
    /\ MaxHandle \in Nat

VARIABLES
    slot,     \* *ptr_ConnPtr: the handle, or 0 for NULL
    up,       \* the peer of the handle in the slot answers
    opened,   \* how many handles have been opened
    refs,     \* who holds a reference to a handle
    task,     \* the tasks
    crashed   \* the process has ended at a use of freed memory

handleVars == <<slot, up, opened>>
vars == <<handleVars, refs, task, crashed>>

Handle == 1 .. MaxHandle
Holder == {<<"thread">>} \cup {<<"task", t>> : t \in Task}
          \cup {<<"object", t, k>> : t \in Task, k \in Kind}

\* has: the handle an object belongs to, 0 if the task has not got it;
\* freed: objects given back; file: the local file can be read and written;
\* stray: a call was made on freed memory.
TaskState ==
    [st : {"unused", "new", "running", "posted", "answered"}, op : Op, pc : Nat \ {0},
     has : [Kind -> 0 .. MaxHandle], freed : SUBSET Kind,
     ok : BOOLEAN, did : BOOLEAN, file : BOOLEAN, stray : BOOLEAN]

NewTask(op) ==
    [st |-> "new", op |-> op, pc |-> 1,
     has |-> [k \in Kind |-> 0], freed |-> {},
     ok |-> FALSE, did |-> FALSE, file |-> TRUE, stray |-> FALSE]

Unused == [NewTask(CHOOSE op \in Op : TRUE) EXCEPT !.st = "unused"]

TypeOK ==
    /\ slot \in 0 .. MaxHandle
    /\ up \in BOOLEAN
    /\ opened \in 0 .. MaxHandle
    /\ refs \in [Handle -> SUBSET Holder]
    /\ task \in [Task -> TaskState]
    /\ crashed \in BOOLEAN

Init ==
    /\ slot = 0
    /\ up = FALSE
    /\ opened = 0
    /\ refs = [h \in Handle |-> {}]
    /\ \E load \in Workloads :
           task = [t \in Task |-> IF t \in DOMAIN load THEN NewTask(load[t]) ELSE Unused]
    /\ crashed = FALSE

----------------------------------------------------------------------------
(* The connection.                                                         *)

\* The user's close has dropped every reference and not yet cleared the slot.
Closing == slot # 0 /\ refs[slot] = {}

\* A new handle; that of a connection whose peer has gone is overwritten, and
\* keeps the references it has.
OpenConnection ==
    /\ ~crashed
    /\ opened < MaxHandle
    /\ slot = 0 \/ (~up /\ ~Closing)
    /\ opened' = opened + 1
    /\ slot' = opened + 1
    /\ up' = TRUE
    /\ refs' = [refs EXCEPT ![opened + 1] = {<<"thread">>}]
    /\ UNCHANGED <<task, crashed>>

\* closeConnection(int): the peer has gone, the handle stays.
PeerLost ==
    /\ ~crashed
    /\ slot # 0 /\ up
    /\ up' = FALSE
    /\ UNCHANGED <<slot, opened, refs, task, crashed>>

\* closeConnection(): while (ret>0) ret = virConnectClose(*ptr_ConnPtr).
DropAllReferences ==
    /\ ~crashed
    /\ slot # 0 /\ refs[slot] # {}
    /\ refs' = [refs EXCEPT ![slot] = {}]
    /\ UNCHANGED <<handleVars, task, crashed>>

\* *ptr_ConnPtr = NULL, in the same slot of the GUI thread.
ClearSlot ==
    /\ ~crashed
    /\ Closing
    /\ slot' = 0
    /\ up' = FALSE
    /\ UNCHANGED <<opened, refs, task, crashed>>

----------------------------------------------------------------------------
(* A task, in its own thread.                                              *)

Set(t, r) == task' = [task EXCEPT ![t] = r]

\* execAction: virConnectRef refuses NULL, and the task is answered at once.
ExecAction(t) ==
    /\ ~crashed
    /\ task[t].st = "new" /\ ~Closing
    /\ Set(t, [task[t] EXCEPT !.st = IF slot = 0 THEN "answered" ELSE "running"])
    /\ refs' = IF slot = 0 THEN refs
               ELSE [refs EXCEPT ![slot] = @ \cup {<<"task", t>>}]
    /\ UNCHANGED <<handleVars, crashed>>

Running(t) == ~crashed /\ task[t].st = "running"
AtEnd(t) == task[t].pc > Len(Program[task[t].op])
Now(t) == Program[task[t].op][task[t].pc]

\* The task is at a statement of one of these kinds.
At(t, kinds) == Running(t) /\ ~AtEnd(t) /\ Now(t).do \in kinds

\* The handle that the current call is made on; 0 is a null pointer.
Target(t) ==
    IF Now(t).on = "conn" THEN slot
    ELSE IF Now(t).on = "here" THEN 0 ELSE task[t].has[Now(t).on]

\* The memory behind a pointer is gone.
IsStray(t) ==
    /\ Target(t) # 0
    /\ (Now(t).on \in task[t].freed) \/ refs[Target(t)] = {}

\* The call can reach the hypervisor.
Reaches(t) == Target(t) # 0 /\ ~IsStray(t) /\ Target(t) = slot /\ up

Goto(r, n) == [r EXCEPT !.pc = n]
After(t, r) == Set(t, Goto(r, task[t].pc + 1))
Return(t, r) == Set(t, Goto(r, Len(Program[task[t].op]) + 1))

\* The object that the call returns, which holds a reference of its own.
Obtain(t, r) ==
    LET k == Now(t).obj IN
    /\ refs' = [refs EXCEPT ![Target(t)] = @ \cup {<<"object", t, k>>}]
    /\ After(t, [r EXCEPT !.has[k] = Target(t), !.freed = @ \ {k}])

\* A lookup; what is called on the object later is skipped without it.
Get(t) ==
    /\ At(t, {"get"})
    /\ \/ (Reaches(t) /\ Obtain(t, task[t]))
       \/ ~IsStray(t) /\ After(t, task[t]) /\ UNCHANGED refs
    /\ UNCHANGED <<handleVars, crashed>>

\* The list call of a reload: its failure returns.
Need(t) ==
    /\ At(t, {"need"})
    /\ \/ (Reaches(t) /\ Obtain(t, task[t]))
       \/ ~IsStray(t) /\ (Target(t) # 0 \/ Now(t).on = "conn")
          /\ Return(t, task[t]) /\ UNCHANGED refs
       \/ Target(t) = 0 /\ Now(t).on # "conn" /\ After(t, task[t]) /\ UNCHANGED refs
    /\ UNCHANGED <<handleVars, crashed>>

\* Create or define from a description: the hypervisor is changed, or return.
Make(t) ==
    /\ At(t, {"make"})
    /\ \/ (Reaches(t) /\ Obtain(t, [task[t] EXCEPT !.ok = TRUE, !.did = TRUE]))
       \/ ~IsStray(t) /\ Return(t, task[t]) /\ UNCHANGED refs
    /\ UNCHANGED <<handleVars, crashed>>

\* Mutant: the outcome of the call is not looked at.
ActUnchecked(t) ==
    /\ At(t, {"act"})
    /\ \/ Reaches(t) /\ After(t, [task[t] EXCEPT !.ok = TRUE, !.did = TRUE])
       \/ ~IsStray(t) /\ After(t, [task[t] EXCEPT !.ok = TRUE])
    /\ UNCHANGED <<handleVars, refs, crashed>>

\* The call that changes the hypervisor; result.result is its outcome.
Act(t) ==
    /\ At(t, {"act"})
    /\ \/ Reaches(t) /\ After(t, [task[t] EXCEPT !.ok = TRUE, !.did = TRUE])
       \/ ~IsStray(t) /\ After(t, [task[t] EXCEPT !.ok = FALSE])
    /\ UNCHANGED <<handleVars, refs, crashed>>

\* A call whose outcome is not looked at.
Try(t) ==
    /\ At(t, {"try"})
    /\ ~IsStray(t)
    /\ After(t, task[t])
    /\ UNCHANGED <<handleVars, refs, crashed>>

\* A call that reads; the outcome is the result so far.
Ask(t) ==
    /\ At(t, {"ask"})
    /\ \/ Reaches(t) /\ After(t, [task[t] EXCEPT !.ok = TRUE])
       \/ ~IsStray(t) /\ After(t, [task[t] EXCEPT !.ok = FALSE])
    /\ UNCHANGED <<handleVars, refs, crashed>>

\* Mutant: with the object goes the reference of the connection.
FreeObjectAndHandle(t) ==
    /\ At(t, {"free"})
    /\ ~IsStray(t)
    /\ LET k == Now(t).on IN
       IF Target(t) = 0
       THEN After(t, task[t]) /\ UNCHANGED refs
       ELSE /\ After(t, [task[t] EXCEPT !.freed = @ \cup {k}])
            /\ refs' = [refs EXCEPT ![Target(t)] = @ \ {<<"object", t, k>>, <<"thread">>}]
    /\ UNCHANGED <<handleVars, crashed>>

\* vir...Free; a null pointer is never freed.
FreeObject(t) ==
    /\ At(t, {"free"})
    /\ ~IsStray(t)
    /\ LET k == Now(t).on IN
       IF Target(t) = 0
       THEN After(t, task[t]) /\ UNCHANGED refs
       ELSE /\ After(t, [task[t] EXCEPT !.freed = @ \cup {k}])
            /\ refs' = [refs EXCEPT ![Target(t)] = @ \ {<<"object", t, k>>}]
    /\ UNCHANGED <<handleVars, crashed>>

\* The description to create from: return if it cannot be opened.
ReadFile(t) ==
    /\ At(t, {"file"})
    /\ After(t, task[t]) \/ Return(t, task[t])
    /\ UNCHANGED <<handleVars, refs, crashed>>

\* f->open() of a transfer, whose outcome is not looked at.
OpenFile(t) ==
    /\ At(t, {"open"})
    /\ \E good \in BOOLEAN : After(t, [task[t] EXCEPT !.file = good])
    /\ UNCHANGED <<handleVars, refs, crashed>>

\* read = f.open() of the temporary file for a description.
TempFile(t) ==
    /\ At(t, {"temp"})
    /\ \E good \in BOOLEAN : After(t, [task[t] EXCEPT !.ok = good])
    /\ UNCHANGED <<handleVars, refs, crashed>>

\* result.result = true at the end.
Done(t) ==
    /\ At(t, {"done"})
    /\ After(t, [task[t] EXCEPT !.ok = TRUE])
    /\ UNCHANGED <<handleVars, refs, crashed>>

\* The blocks of a download: a write error is reported and the loop goes on.
\* (A block that arrives and is written changes nothing here.)
Receive(t) ==
    /\ At(t, {"receive"})
    /\ ~IsStray(t)
    /\ \/ ~task[t].ok /\ After(t, task[t])
       \/ task[t].ok /\ Reaches(t) /\ After(t, [task[t] EXCEPT !.did = task[t].file])
       \/ task[t].ok /\ After(t, [task[t] EXCEPT !.ok = FALSE])
       \/ task[t].ok /\ task[t].file /\ Set(t, [task[t] EXCEPT !.file = FALSE])
    /\ UNCHANGED <<handleVars, refs, crashed>>

\* Mutant: an upload waits for the peer before it fails.
SendWaiting(t) ==
    /\ At(t, {"send"})
    /\ ~IsStray(t)
    /\ \/ ~task[t].ok /\ After(t, task[t])
       \/ /\ task[t].ok /\ task[t].file /\ Reaches(t)
          /\ \/ After(t, [task[t] EXCEPT !.did = TRUE])
             \/ After(t, [task[t] EXCEPT !.ok = FALSE])
             \/ Set(t, [task[t] EXCEPT !.file = FALSE])
    /\ UNCHANGED <<handleVars, refs, crashed>>

\* The blocks of an upload: a read error is reported and the loop goes on,
\* without another call of libvirt.  virStreamFinish may fail unnoticed.
Send(t) ==
    /\ At(t, {"send"})
    /\ ~IsStray(t)
    /\ \/ ~task[t].ok /\ After(t, task[t])
       \/ /\ task[t].ok /\ task[t].file
          /\ \/ Reaches(t) /\ After(t, [task[t] EXCEPT !.did = TRUE])
             \/ After(t, task[t])
             \/ After(t, [task[t] EXCEPT !.ok = FALSE])
             \/ Set(t, [task[t] EXCEPT !.file = FALSE])
    /\ UNCHANGED <<handleVars, refs, crashed>>

\* A call on freed memory ends the process, or finds the magic number of the
\* object cleared and fails.
Stray(t) ==
    /\ At(t, StepKind)
    /\ IsStray(t)
    /\ \/ crashed' = TRUE /\ Set(t, [task[t] EXCEPT !.stray = TRUE])
       \/ /\ crashed' = FALSE
          /\ LET failed == [task[t] EXCEPT !.stray = TRUE,
                                !.ok = IF Now(t).do \in {"act", "ask", "receive", "send"}
                                       THEN FALSE ELSE @]
             IN IF Now(t).do \in {"need", "make"} THEN Return(t, failed) ELSE After(t, failed)
    /\ UNCHANGED <<handleVars, refs>>

\* emit resultData(result).
PostResult(t) ==
    /\ Running(t) /\ AtEnd(t)
    /\ Set(t, [task[t] EXCEPT !.st = "posted"])
    /\ UNCHANGED <<handleVars, refs, crashed>>

\* taskResultReceiver, in the GUI thread; the reference of the task stays.
TakeResult(t) ==
    /\ ~crashed /\ ~Closing
    /\ task[t].st = "posted"
    /\ Set(t, [task[t] EXCEPT !.st = "answered"])
    /\ UNCHANGED <<handleVars, refs, crashed>>

Statement(t) ==
    \/ Get(t) \/ Need(t) \/ Make(t) \/ Act(t) \/ Try(t) \/ Ask(t) \/ FreeObject(t)
    \/ ReadFile(t) \/ OpenFile(t) \/ TempFile(t) \/ Done(t) \/ Receive(t) \/ Send(t)
    \/ Stray(t) \/ PostResult(t)

Next ==
    \/ OpenConnection \/ PeerLost \/ DropAllReferences \/ ClearSlot
    \/ \E t \in Task : ExecAction(t) \/ Statement(t) \/ TakeResult(t)

Progress == ClearSlot \/ \E t \in Task : Statement(t) \/ TakeResult(t)

\* Threads are scheduled, libvirt calls return, and the GUI thread ends its
\* slots and delivers what is posted.  Every such step takes a task on, so it is
\* enough that some thread runs.
Fairness == WF_vars(Progress)

Spec == Init /\ [][Next]_vars /\ Fairness

----------------------------------------------------------------------------
(* Properties.                                                             *)

\* A handle is freed by a close of the user alone, which drops every reference:
\* no task and no object, on whatever path, drops the one of ConnAliveThread.
OpenHandleLives ==
    \A h \in 1 .. opened : refs[h] = {} \/ <<"thread">> \in refs[h]

\* A call on freed memory needs a close by the user while the task runs: no
\* operation uses what it has given back itself, on any path.
StrayNeedsClose ==
    \A t \in Task : task[t].stray => \E h \in 1 .. opened : refs[h] = {}

\* Every object is given back on every path, but for those of Unfreed.
ObjectsAreFreed ==
    \A t \in Task : task[t].st \in {"posted", "answered"} =>
        \A k \in Kind \ Unfreed[task[t].op] :
            task[t].has[k] # 0 => k \in task[t].freed \/ task[t].stray

\* Every task is answered, but for an upload of a file that cannot be read.
TaskEnds ==
    \A t \in Task : task[t].st = "running" ~>
        \/ task[t].st = "answered" \/ crashed
        \/ ~AtEnd(t) /\ Now(t).do = "send" /\ ~task[t].file

\* The orders are carried out as promised: see TaskPromise.
Promise == INSTANCE TaskPromise WITH
    promise <- [t \in Task |->
        IF task[t].st \in {"unused", "new"} THEN "none"
        ELSE IF task[t].st # "answered" THEN IF task[t].did THEN "done" ELSE "ordered"
        ELSE IF task[t].ok THEN "yes" ELSE "no"],
    loose <- {t \in Task : task[t].op \in Loose}
KeepsPromise == Promise!Spec
=============================================================================
