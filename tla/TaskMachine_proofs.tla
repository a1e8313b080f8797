-------------------------- MODULE TaskMachine_proofs --------------------------
(***************************************************************************)
(* Proofs about TaskMachine, for any operations and programs that meet     *)
(* MachineAssumption, any number of tasks, objects and handles; and that   *)
(* the programs of TaskPrograms are such programs.                         *)
(***************************************************************************)
EXTENDS TaskMachine, TaskPrograms, TLAPS

\* Every handle there is has been opened before.
HandlesOpened ==
    /\ slot <= opened
    /\ \A t \in Task, k \in Kind : task[t].has[k] <= opened

TypeInv == TypeOK /\ HandlesOpened

----------------------------------------------------------------------------
(* What a statement may do, whichever it is.                               *)

\* A task that is not at its end is at a statement of its program.
LEMMA NowIsStep ==
    ASSUME TypeOK, NEW t \in Task, ~AtEnd(t)
    PROVE  /\ task[t].op \in Op
           /\ task[t].pc \in DOMAIN Program[task[t].op]
           /\ Now(t) \in Step
           /\ Now(t).do \in {"get", "need", "make"} => Now(t).obj \in Kind
           /\ Now(t).do = "free" => Now(t).on \in Kind
  <1>1. task[t].op \in Op /\ task[t].pc \in Nat \ {0}
    BY DEF TypeOK, TaskState
  <1>2. Program[task[t].op] \in Seq(Step) /\ Names(Program[task[t].op])
    BY <1>1, MachineAssumption
  <1>3. task[t].pc \in DOMAIN Program[task[t].op]
    BY <1>1, <1>2 DEF AtEnd
  <1>4. Now(t) \in Step
    BY <1>2, <1>3 DEF Now
  <1> QED BY <1>1, <1>2, <1>3, <1>4 DEF Now, Names

\* A call goes to a handle that has been opened, or to a null pointer.
LEMMA TargetOpened ==
    ASSUME TypeInv, NEW t \in Task, ~AtEnd(t)
    PROVE  Target(t) \in 0 .. MaxHandle /\ Target(t) <= opened
  <1>1. Now(t).on \in Kind \cup {"conn", "here"}
    BY NowIsStep DEF TypeInv, Step
  <1>2. \A k \in Kind : task[t].has[k] \in 0 .. MaxHandle /\ task[t].has[k] <= opened
    BY DEF TypeInv, TypeOK, HandlesOpened, TaskState
  <1>3. slot \in 0 .. MaxHandle /\ slot <= opened /\ MaxHandle \in Nat /\ opened \in 0 .. MaxHandle
    BY MachineAssumption DEF TypeInv, TypeOK, HandlesOpened
  <1> QED BY <1>1, <1>2, <1>3 DEF Target

\* The part of a task's state a statement leaves or changes.
Advances(t) ==
    /\ task' = [task EXCEPT ![t] = task'[t]]
    /\ task'[t] \in TaskState
    /\ task'[t].op = task[t].op
    /\ task'[t].st \in {"running", "posted"}
    /\ task'[t].pc >= task[t].pc
    /\ \A k \in Kind : task'[t].has[k] \in {task[t].has[k], slot}

\* What is given back, and what a call on it says.
GivesBack(t) ==
    /\ \A k \in task'[t].freed : \/ k \in task[t].freed
                                 \/ /\ ~AtEnd(t) /\ Now(t).do = "free" /\ Now(t).on = k
                                    /\ task'[t].pc = task[t].pc + 1
    /\ task'[t].stray => task[t].stray \/ (~AtEnd(t) /\ IsStray(t))

\* A handle gains no holder once it is freed, and keeps the one of the thread.
KeepsHandles ==
    /\ refs' \in [Handle -> SUBSET Holder]
    /\ \A h \in Handle : /\ refs[h] = {} => refs'[h] = {}
                         /\ <<"thread">> \in refs[h] => <<"thread">> \in refs'[h]

\* A statement sets the result, and what was done, together with the kind of
\* call it is.
SetsResult(t) ==
    \/ task'[t].ok = task[t].ok /\ task'[t].did = task[t].did
    \/ /\ ~AtEnd(t) /\ Now(t).do \in Changes \cup Transfers
       /\ task'[t].ok /\ task'[t].did /\ task'[t].pc = task[t].pc + 1
    \/ /\ ~AtEnd(t) /\ Now(t).do \notin {"get", "try", "free", "file"}
       /\ task'[t].did \in {task[t].did, FALSE}
       /\ ~task'[t].ok \/ Now(t).do \notin Changes \cup {"get", "try", "free", "file"}

\* A statement that returns when it fails.
Returns == {"need", "make", "file"}

\* What a statement does to what the task holds: it obtains an object and goes
\* on, gives one back and goes on, or changes nothing; and only a statement that
\* may return skips others.
Owns(t) ==
    /\ \A k \in Kind :
           \/ /\ task'[t].has[k] = task[t].has[k]
              /\ k \in task[t].freed => k \in task'[t].freed
           \/ /\ ~AtEnd(t) /\ Now(t).do \in {"get", "need", "make"} /\ Now(t).obj = k
              /\ task'[t].pc = task[t].pc + 1
    /\ task[t].stray => task'[t].stray
    /\ \/ task'[t].pc \in {task[t].pc, task[t].pc + 1}
       \/ ~AtEnd(t) /\ Now(t).do \in Returns
    /\ ~AtEnd(t) /\ Now(t).do = "free" /\ task'[t].pc # task[t].pc /\ Target(t) # 0 =>
           Now(t).on \in task'[t].freed \/ task'[t].stray
    /\ task'[t].st = "posted" => AtEnd(t)

Shape(t) == Advances(t) /\ GivesBack(t) /\ KeepsHandles /\ SetsResult(t) /\ Owns(t)

\* What holds of the state of a task that is set, holds of the task.
LEMMA SetTask ==
    ASSUME TypeOK, NEW t \in Task, NEW r \in TaskState, Set(t, r)
    PROVE  task'[t] = r /\ task' = [task EXCEPT ![t] = task'[t]]
  BY DEF TypeOK, Set

\* The program counter after a statement, and after a return.
LEMMA CounterMoves ==
    ASSUME TypeOK, NEW t \in Task, ~AtEnd(t)
    PROVE  /\ task[t].pc + 1 \in Nat \ {0}
           /\ Len(Program[task[t].op]) + 1 \in Nat \ {0}
           /\ Len(Program[task[t].op]) + 1 > task[t].pc
           /\ task[t].pc \in Nat
           /\ task[t] \in TaskState
  <1>1. task[t].op \in Op /\ task[t].pc \in Nat \ {0} /\ task[t] \in TaskState
    BY DEF TypeOK, TaskState
  <1>2. Program[task[t].op] \in Seq(Step)
    BY <1>1, MachineAssumption
  <1> QED BY <1>1, <1>2 DEF AtEnd

\* A state of a task that is moved on, and nothing else.
LEMMA Continues ==
    ASSUME TypeOK, NEW t \in Task, ~AtEnd(t), task[t].st = "running",
           NEW r, r \in TaskState, r.op = task[t].op, r.st = "running",
           r.has = task[t].has, r.freed = task[t].freed,
           r.stray => task[t].stray \/ IsStray(t), task[t].stray => r.stray,
           Now(t).do = "free" => Target(t) = 0 \/ r.stray,
           After(t, r) \/ (Return(t, r) /\ Now(t).do \in Returns)
    PROVE  /\ Advances(t) /\ GivesBack(t) /\ Owns(t)
           /\ task'[t].ok = r.ok /\ task'[t].did = r.did
           /\ After(t, r) => task'[t].pc = task[t].pc + 1
  <1> DEFINE n == IF After(t, r) THEN task[t].pc + 1 ELSE Len(Program[task[t].op]) + 1
             s == [r EXCEPT !.pc = n]
  <1>1. n \in Nat \ {0} /\ n >= task[t].pc /\ task[t].has \in [Kind -> 0 .. MaxHandle]
    BY CounterMoves DEF TaskState
  <1>2. s \in TaskState /\ s.pc = n /\ s.op = r.op /\ s.st = r.st /\ s.has = r.has
        /\ s.freed = r.freed /\ s.ok = r.ok /\ s.did = r.did /\ s.stray = r.stray
    BY <1>1 DEF TaskState
  <1>3. Set(t, s)
    BY DEF After, Return, Goto
  <1>4. task'[t] = s /\ task' = [task EXCEPT ![t] = task'[t]]
    BY <1>2, <1>3, SetTask
  <1> HIDE DEF n, s
  <1>5. After(t, r) => n = task[t].pc + 1
    BY DEF n
  <1>6. Owns(t)
    BY <1>2, <1>4, <1>5 DEF Owns
  <1> QED BY <1>1, <1>2, <1>4, <1>5, <1>6 DEF Advances, GivesBack

\* The object that a call returns is held, and nothing else is changed but the
\* result.
LEMMA Obtains ==
    ASSUME TypeInv, NEW t \in Task, ~AtEnd(t), task[t].st = "running",
           Now(t).do \in {"get", "need", "make"}, Reaches(t),
           NEW r, r \in TaskState, r.op = task[t].op, r.st = "running",
           r.has = task[t].has, r.freed = task[t].freed, r.stray = task[t].stray,
           Obtain(t, r)
    PROVE  /\ Advances(t) /\ GivesBack(t) /\ KeepsHandles /\ Owns(t)
           /\ task'[t].ok = r.ok /\ task'[t].did = r.did /\ task'[t].pc = task[t].pc + 1
  <1> DEFINE k == Now(t).obj
             s == [r EXCEPT !.has[k] = Target(t), !.freed = @ \ {k}, !.pc = task[t].pc + 1]
  <1>1. k \in Kind /\ TypeOK
    BY NowIsStep DEF TypeInv
  <1>2. Target(t) \in Handle /\ Target(t) = slot /\ Target(t) \in 0 .. MaxHandle
    BY TargetOpened, MachineAssumption DEF Reaches, Handle
  <1>3. task[t].pc + 1 \in Nat \ {0} /\ task[t].has \in [Kind -> 0 .. MaxHandle]
        /\ task[t].pc \in Nat
    BY <1>1, CounterMoves DEF TaskState
  <1>4. /\ s \in TaskState /\ s.pc = task[t].pc + 1 /\ s.op = r.op /\ s.st = r.st
        /\ s.has = [r.has EXCEPT ![k] = Target(t)] /\ s.freed = r.freed \ {k}
        /\ s.ok = r.ok /\ s.did = r.did /\ s.stray = r.stray
    BY <1>1, <1>2, <1>3 DEF TaskState
  <1>5. Set(t, s)
    BY DEF Obtain, After, Goto
  <1>6. task'[t] = s /\ task' = [task EXCEPT ![t] = task'[t]]
    BY <1>1, <1>4, <1>5, SetTask
  <1>7. KeepsHandles
    <2>1. refs[Target(t)] # {}
      BY DEF Reaches, IsStray
    <2>2. <<"object", t, k>> \in Holder
      BY <1>1 DEF Holder
    <2>3. refs' = [refs EXCEPT ![Target(t)] = @ \cup {<<"object", t, k>>}]
      BY DEF Obtain
    <2> HIDE DEF k
    <2> QED BY <1>1, <1>2, <2>1, <2>2, <2>3 DEF KeepsHandles, TypeOK
  <1> HIDE DEF s
  <1>8. Advances(t)
    BY <1>1, <1>2, <1>3, <1>4, <1>6 DEF Advances
  <1>9. GivesBack(t)
    BY <1>4, <1>6 DEF GivesBack
  <1>10. Owns(t)
    BY <1>1, <1>3, <1>4, <1>6 DEF Owns
  <1> QED BY <1>4, <1>6, <1>7, <1>8, <1>9, <1>10

\* Handles that are not touched are kept.
LEMMA Untouched == TypeOK /\ UNCHANGED refs => KeepsHandles
  BY DEF TypeOK, KeepsHandles

\* A task with another result, and a file that can be read or not.
With(t, ok, did, file) == [task[t] EXCEPT !.ok = ok, !.did = did, !.file = file]

LEMMA WithResult ==
    ASSUME TypeOK, NEW t \in Task, task[t].st = "running",
           NEW ok \in BOOLEAN, NEW did \in BOOLEAN, NEW file \in BOOLEAN
    PROVE  /\ With(t, ok, did, file) \in TaskState
           /\ With(t, ok, did, file).op = task[t].op
           /\ With(t, ok, did, file).st = "running"
           /\ With(t, ok, did, file).has = task[t].has
           /\ With(t, ok, did, file).freed = task[t].freed
           /\ With(t, ok, did, file).stray = task[t].stray
           /\ With(t, ok, did, file).pc = task[t].pc
           /\ With(t, ok, did, file).ok = ok
           /\ With(t, ok, did, file).did = did
  BY DEF TypeOK, TaskState, With

LEMMA WithParts ==
    ASSUME TypeOK, NEW t \in Task, NEW ok \in BOOLEAN, NEW did \in BOOLEAN
    PROVE  /\ task[t].ok \in BOOLEAN /\ task[t].did \in BOOLEAN /\ task[t].file \in BOOLEAN
           /\ task[t] = With(t, task[t].ok, task[t].did, task[t].file)
           /\ [task[t] EXCEPT !.ok = ok] = With(t, ok, task[t].did, task[t].file)
           /\ [task[t] EXCEPT !.did = did] = With(t, task[t].ok, did, task[t].file)
           /\ [task[t] EXCEPT !.file = ok] = With(t, task[t].ok, task[t].did, ok)
           /\ [task[t] EXCEPT !.ok = ok, !.did = did] = With(t, ok, did, task[t].file)
  BY DEF TypeOK, TaskState, With

\* The statements that only set the result or the file, and go on.
LEMMA ResultSet ==
    ASSUME TypeInv, NEW t \in Task, ~AtEnd(t), task[t].st = "running", UNCHANGED refs,
           NEW ok \in BOOLEAN, NEW did \in BOOLEAN, NEW file \in BOOLEAN,
           After(t, With(t, ok, did, file)), Now(t).do # "free",
           \/ ok = task[t].ok /\ did = task[t].did
           \/ ok /\ did /\ Now(t).do \in Changes \cup Transfers
           \/ /\ Now(t).do \notin {"get", "try", "free", "file"}
              /\ did \in {task[t].did, FALSE}
              /\ ~ok \/ Now(t).do \notin Changes
    PROVE  Shape(t)
  <1>1. TypeOK
    BY DEF TypeInv
  <1>2. /\ Advances(t) /\ GivesBack(t) /\ Owns(t) /\ task'[t].ok = ok /\ task'[t].did = did
        /\ task'[t].pc = task[t].pc + 1
    BY <1>1, WithResult, Continues
  <1>3. SetsResult(t)
    BY <1>2 DEF SetsResult
  <1> QED BY <1>1, <1>2, <1>3, Untouched DEF Shape

\* A statement that calls for an object, or goes on or returns without it.
LEMMA ObjectSought ==
    ASSUME TypeInv, NEW t \in Task, ~AtEnd(t), task[t].st = "running",
           Now(t).do \in {"get", "need", "make"},
           \/ Now(t).do # "make" /\ Reaches(t) /\ Obtain(t, task[t])
           \/ Now(t).do = "make" /\ Reaches(t) /\ Obtain(t, [task[t] EXCEPT !.ok = TRUE, !.did = TRUE])
           \/ /\ After(t, task[t]) \/ (Return(t, task[t]) /\ Now(t).do \in Returns)
              /\ UNCHANGED refs
    PROVE  Shape(t)
  <1>1. TypeOK /\ task[t] \in TaskState
    BY DEF TypeInv, TypeOK
  <1>2. CASE Reaches(t) /\ Obtain(t, task[t])
    BY <1>1, <1>2, Obtains DEF Shape, SetsResult
  <1>3. CASE Now(t).do = "make" /\ Reaches(t) /\ Obtain(t, [task[t] EXCEPT !.ok = TRUE, !.did = TRUE])
    <2>1. Obtain(t, With(t, TRUE, TRUE, task[t].file)) /\ task[t].file \in BOOLEAN
      BY <1>1, <1>3, WithParts
    <2>2. PICK r : r = With(t, TRUE, TRUE, task[t].file)
      OBVIOUS
    <2>3. /\ r \in TaskState /\ r.op = task[t].op /\ r.st = "running" /\ r.has = task[t].has
          /\ r.freed = task[t].freed /\ r.stray = task[t].stray /\ r.ok /\ r.did
      BY <1>1, <2>1, <2>2, WithResult
    <2>4. /\ Advances(t) /\ GivesBack(t) /\ KeepsHandles /\ Owns(t)
          /\ task'[t].ok /\ task'[t].did /\ task'[t].pc = task[t].pc + 1
      BY <1>1, <1>3, <2>1, <2>2, <2>3, Obtains
    <2> QED BY <1>3, <2>4 DEF Shape, SetsResult, Changes
  <1>4. CASE /\ After(t, task[t]) \/ (Return(t, task[t]) /\ Now(t).do \in Returns)
             /\ UNCHANGED refs
    BY <1>1, <1>4, Continues, Untouched DEF Shape, SetsResult
  <1> QED BY <1>2, <1>3, <1>4

\* Every statement has the shape.
LEMMA StatementShape ==
    ASSUME TypeInv, NEW t \in Task, Statement(t)
    PROVE  Shape(t) /\ task[t].st = "running" /\ UNCHANGED handleVars
           /\ crashed' \in BOOLEAN
  <1>1. TypeOK /\ task[t] \in TaskState /\ Running(t) /\ task[t].st = "running"
    BY DEF TypeInv, TypeOK, Statement, At, Get, Need, Make, Act, Try, Ask, FreeObject,
           ReadFile, OpenFile, TempFile, Done, Receive, Send, Stray, PostResult, Running
  <1>2. UNCHANGED handleVars /\ crashed' \in BOOLEAN
    BY <1>1 DEF TypeOK, Statement, Get, Need, Make, Act, Try, Ask, FreeObject, ReadFile,
           OpenFile, TempFile, Done, Receive, Send, Stray, PostResult
  <1>3. CASE Get(t) \/ Need(t) \/ Make(t)
    BY <1>1, <1>2, <1>3, ObjectSought DEF Get, Need, Make, At, Returns
  <1>4. CASE Act(t) \/ Ask(t) \/ Done(t)
    <2>1. ~AtEnd(t) /\ Now(t).do \in {"act", "ask", "done"} /\ UNCHANGED refs
      BY <1>4 DEF Act, Ask, Done, At
    <2>2. CASE Now(t).do = "act" /\ After(t, With(t, TRUE, TRUE, task[t].file))
      BY <1>1, <1>2, <2>1, <2>2, WithParts, ResultSet DEF Changes
    <2>3. CASE Now(t).do # "act" /\ After(t, With(t, TRUE, task[t].did, task[t].file))
      BY <1>1, <1>2, <2>1, <2>3, WithParts, ResultSet DEF Changes
    <2>4. CASE After(t, With(t, FALSE, task[t].did, task[t].file))
      BY <1>1, <1>2, <2>1, <2>4, WithParts, ResultSet
    <2> QED BY <1>1, <1>4, <2>2, <2>3, <2>4, WithParts DEF Act, Ask, Done, At
  <1>5. CASE Try(t) \/ OpenFile(t) \/ TempFile(t)
    <2>1. ~AtEnd(t) /\ Now(t).do \in {"try", "open", "temp"} /\ UNCHANGED refs
      BY <1>5 DEF Try, OpenFile, TempFile, At
    <2>2. CASE After(t, With(t, task[t].ok, task[t].did, task[t].file))
      BY <1>1, <1>2, <2>1, <2>2, WithParts, ResultSet
    <2>3. ASSUME NEW good \in BOOLEAN, After(t, With(t, task[t].ok, task[t].did, good))
          PROVE  Shape(t)
      BY <1>1, <2>1, <2>3, WithParts, ResultSet
    <2>4. ASSUME NEW good \in BOOLEAN, After(t, With(t, good, task[t].did, task[t].file)),
                 Now(t).do = "temp"
          PROVE  Shape(t)
      BY <1>1, <2>1, <2>4, WithParts, ResultSet DEF Changes
    <2>5. \A good \in BOOLEAN :
              /\ [task[t] EXCEPT !.ok = good] = With(t, good, task[t].did, task[t].file)
              /\ [task[t] EXCEPT !.file = good] = With(t, task[t].ok, task[t].did, good)
      BY <1>1, WithParts
    <2>6. task[t] = With(t, task[t].ok, task[t].did, task[t].file)
      BY <1>1, WithParts
    <2>7. CASE Try(t)
      BY <1>2, <1>1, <2>2, <2>6, <2>7 DEF Try
    <2>8. CASE OpenFile(t)
      BY <1>2, <1>1, <2>3, <2>5, <2>8 DEF OpenFile
    <2>9. CASE TempFile(t)
      BY <1>2, <1>1, <2>4, <2>5, <2>9 DEF TempFile, At
    <2> QED BY <1>5, <2>7, <2>8, <2>9
  <1>6. CASE FreeObject(t)
    <2>1. ~AtEnd(t) /\ Now(t).do = "free" /\ Now(t).on \in Kind
      BY <1>1, <1>6, NowIsStep DEF FreeObject, At
    <2>2. CASE Target(t) = 0
      BY <1>1, <1>2, <1>6, <2>1, <2>2, Continues, Untouched DEF FreeObject, Shape, SetsResult
    <2>3. CASE Target(t) # 0
      <3> DEFINE k == Now(t).on
                 s == [task[t] EXCEPT !.freed = @ \cup {k}, !.pc = task[t].pc + 1]
      <3>1. Set(t, s) /\ refs' = [refs EXCEPT ![Target(t)] = @ \ {<<"object", t, k>>}]
        BY <1>6, <2>3 DEF FreeObject, After, Goto
      <3>2. /\ task[t].pc + 1 \in Nat \ {0} /\ task[t].has \in [Kind -> 0 .. MaxHandle]
            /\ task[t].pc \in Nat
        BY <1>1, <2>1, CounterMoves DEF TaskState
      <3>3. /\ s \in TaskState /\ s.pc = task[t].pc + 1 /\ s.op = task[t].op
            /\ s.st = "running" /\ s.has = task[t].has /\ s.freed = task[t].freed \cup {k}
            /\ s.ok = task[t].ok /\ s.did = task[t].did /\ s.stray = task[t].stray
        BY <1>1, <2>1, <3>2 DEF TaskState
      <3>4. task'[t] = s /\ task' = [task EXCEPT ![t] = task'[t]]
        BY <1>1, <3>1, <3>3, SetTask
      <3> HIDE DEF s
      <3>5. Advances(t) /\ GivesBack(t) /\ SetsResult(t)
        BY <2>1, <3>2, <3>3, <3>4 DEF Advances, GivesBack, SetsResult
      <3>6. KeepsHandles
        BY <1>1, <3>1 DEF KeepsHandles, TypeOK
      <3>7. Owns(t)
        BY <3>2, <3>3, <3>4 DEF Owns
      <3> QED BY <1>1, <1>2, <3>5, <3>6, <3>7 DEF Shape
    <2> QED BY <2>2, <2>3
  <1>7. CASE ReadFile(t)
    BY <1>1, <1>2, <1>7, Continues, Untouched DEF ReadFile, At, Shape, SetsResult, Returns
  <1>8. CASE Receive(t) \/ Send(t)
    <2>1. ~AtEnd(t) /\ Now(t).do \in {"receive", "send"} /\ UNCHANGED refs
      BY <1>8 DEF Receive, Send, At
    <2>2. task[t].ok \in BOOLEAN /\ task[t].did \in BOOLEAN /\ task[t].file \in BOOLEAN
      BY <1>1, WithParts
    <2>3. \/ After(t, With(t, task[t].ok, task[t].did, task[t].file))
          \/ task[t].ok /\ After(t, With(t, task[t].ok, TRUE, task[t].file))
          \/ task[t].ok /\ After(t, With(t, task[t].ok, FALSE, task[t].file))
          \/ After(t, With(t, FALSE, task[t].did, task[t].file))
          \/ Set(t, With(t, task[t].ok, task[t].did, FALSE))
      BY <1>1, <1>8, <2>2, WithParts DEF Receive, Send
    <2>4. CASE Set(t, With(t, task[t].ok, task[t].did, FALSE))
      <3> DEFINE s == [task[t] EXCEPT !.file = FALSE]
      <3>1. /\ s \in TaskState /\ s.pc = task[t].pc /\ s.op = task[t].op /\ s.st = "running"
            /\ s.has = task[t].has /\ s.freed = task[t].freed /\ s.ok = task[t].ok
            /\ s.did = task[t].did /\ s.stray = task[t].stray /\ task[t].pc \in Nat
        BY <1>1 DEF TaskState
      <3>6. Set(t, s)
        BY <1>1, <2>4, WithParts
      <3>2. task'[t] = s /\ task' = [task EXCEPT ![t] = task'[t]]
        BY <1>1, <3>1, <3>6, SetTask
      <3> HIDE DEF s
      <3>3. Advances(t)
        BY <3>1, <3>2 DEF Advances
      <3>4. GivesBack(t)
        BY <3>1, <3>2 DEF GivesBack
      <3>5. SetsResult(t)
        BY <3>1, <3>2 DEF SetsResult
      <3>7. Owns(t)
        BY <3>1, <3>2 DEF Owns
      <3> QED BY <1>1, <1>2, <2>1, <3>3, <3>4, <3>5, <3>7, Untouched DEF Shape
    <2>5. CASE task[t].ok /\ After(t, With(t, task[t].ok, TRUE, task[t].file))
      BY <1>1, <1>2, <2>1, <2>2, <2>5, ResultSet DEF Transfers
    <2>6. CASE task[t].ok /\ After(t, With(t, task[t].ok, FALSE, task[t].file))
      BY <1>1, <1>2, <2>1, <2>2, <2>6, ResultSet DEF Changes
    <2>7. CASE After(t, With(t, FALSE, task[t].did, task[t].file))
      BY <1>1, <1>2, <2>1, <2>2, <2>7, ResultSet
    <2>8. CASE After(t, With(t, task[t].ok, task[t].did, task[t].file))
      BY <1>1, <1>2, <2>1, <2>2, <2>8, ResultSet
    <2> QED BY <2>3, <2>4, <2>5, <2>6, <2>7, <2>8
  <1>9. CASE Stray(t)
    <2>1. ~AtEnd(t) /\ IsStray(t) /\ UNCHANGED refs /\ Now(t).do \in StepKind
      BY <1>9 DEF Stray, At
    <2> DEFINE s == [task[t] EXCEPT !.stray = TRUE]
               f == [task[t] EXCEPT !.stray = TRUE, !.ok = FALSE]
    <2>2. /\ s \in TaskState /\ s.pc = task[t].pc /\ s.op = task[t].op /\ s.st = "running"
          /\ s.has = task[t].has /\ s.freed = task[t].freed /\ s.ok = task[t].ok
          /\ s.did = task[t].did /\ s.stray /\ task[t].pc \in Nat
      BY <1>1 DEF TaskState
    <2>3. /\ f \in TaskState /\ f.op = task[t].op /\ f.st = "running"
          /\ f.has = task[t].has /\ f.freed = task[t].freed /\ ~f.ok
          /\ f.did = task[t].did /\ f.stray
      BY <1>1 DEF TaskState
    <2>4. [task[t] EXCEPT !.stray = TRUE, !.ok = task[t].ok] = s
      BY <1>1 DEF TaskState
    <2>5. \/ Set(t, s)
          \/ After(t, s) \/ (Return(t, s) /\ Now(t).do \in Returns)
          \/ Now(t).do \in {"act", "ask", "receive", "send"} /\ After(t, f)
      BY <1>9, <2>1, <2>4 DEF Stray, Returns
    <2> HIDE DEF s, f
    <2>6. CASE Set(t, s)
      <3>1. task'[t] = s /\ task' = [task EXCEPT ![t] = task'[t]]
        BY <1>1, <2>2, <2>6, SetTask
      <3>2. Advances(t)
        BY <2>2, <3>1 DEF Advances
      <3>3. GivesBack(t)
        BY <2>1, <2>2, <3>1 DEF GivesBack
      <3>4. SetsResult(t)
        BY <2>2, <3>1 DEF SetsResult
      <3>5. Owns(t)
        BY <2>2, <3>1 DEF Owns
      <3> QED BY <1>1, <1>2, <2>1, <3>2, <3>3, <3>4, <3>5, Untouched DEF Shape
    <2>7. CASE After(t, s) \/ (Return(t, s) /\ Now(t).do \in Returns)
      BY <1>1, <1>2, <2>1, <2>2, <2>7, Continues, Untouched DEF Shape, SetsResult
    <2>8. CASE Now(t).do \in {"act", "ask", "receive", "send"} /\ After(t, f)
      BY <1>1, <1>2, <2>1, <2>3, <2>8, Continues, Untouched DEF Shape, SetsResult
    <2> QED BY <2>5, <2>6, <2>7, <2>8
  <1>10. CASE PostResult(t)
    <2> DEFINE s == [task[t] EXCEPT !.st = "posted"]
    <2>1. /\ s \in TaskState /\ s.pc = task[t].pc /\ s.op = task[t].op /\ s.st = "posted"
          /\ s.has = task[t].has /\ s.freed = task[t].freed /\ s.ok = task[t].ok
          /\ s.did = task[t].did /\ s.stray = task[t].stray /\ task[t].pc \in Nat
      BY <1>1 DEF TaskState
    <2>2. task'[t] = s /\ task' = [task EXCEPT ![t] = task'[t]] /\ UNCHANGED refs
      BY <1>1, <1>10, <2>1, SetTask DEF PostResult
    <2> HIDE DEF s
    <2>3. Advances(t)
      BY <2>1, <2>2 DEF Advances
    <2>4. GivesBack(t)
      BY <2>1, <2>2 DEF GivesBack
    <2>5. SetsResult(t)
      BY <2>1, <2>2 DEF SetsResult
    <2>6. Owns(t)
      BY <1>10, <2>1, <2>2 DEF Owns, PostResult
    <2> QED BY <1>1, <1>2, <2>2, <2>3, <2>4, <2>5, <2>6, Untouched DEF Shape
  <1> QED BY <1>3, <1>4, <1>5, <1>6, <1>7, <1>8, <1>9, <1>10 DEF Statement

----------------------------------------------------------------------------
(* What the tasks and the handles are, and that an open handle lives.      *)

\* A task is ordered and answered without touching its program.
LEMMA TaskTold ==
    ASSUME TypeOK, NEW t \in Task, ExecAction(t) \/ TakeResult(t)
    PROVE  /\ task' = [task EXCEPT ![t] = task'[t]]
           /\ task'[t] \in TaskState
           /\ task'[t] = [task[t] EXCEPT !.st = task'[t].st]
           /\ task'[t].op = task[t].op /\ task'[t].pc = task[t].pc
           /\ task'[t].has = task[t].has /\ task'[t].freed = task[t].freed
           /\ task'[t].ok = task[t].ok /\ task'[t].did = task[t].did
           /\ task'[t].stray = task[t].stray
           /\ \/ /\ ExecAction(t) /\ task[t].st = "new"
                 /\ task'[t].st = IF slot = 0 THEN "answered" ELSE "running"
              \/ TakeResult(t) /\ task[t].st = "posted" /\ task'[t].st = "answered"
  <1> DEFINE s(st) == [task[t] EXCEPT !.st = st]
  <1>1. task[t] \in TaskState
    BY DEF TypeOK
  <1>2. ASSUME NEW st \in {"answered", "running"}
        PROVE  /\ s(st) \in TaskState /\ s(st).st = st
               /\ s(st).op = task[t].op /\ s(st).pc = task[t].pc
               /\ s(st).has = task[t].has /\ s(st).freed = task[t].freed
               /\ s(st).ok = task[t].ok /\ s(st).did = task[t].did
               /\ s(st).stray = task[t].stray
    BY <1>1 DEF TaskState
  <1>3. CASE ExecAction(t)
    <2>1. PICK st \in {"answered", "running"} : st = IF slot = 0 THEN "answered" ELSE "running"
      OBVIOUS
    <2>2. Set(t, s(st)) /\ task[t].st = "new"
      BY <1>3, <2>1 DEF ExecAction
    <2>3. task'[t] = s(st) /\ task' = [task EXCEPT ![t] = task'[t]]
      BY <1>2, <2>2, SetTask
    <2> QED BY <1>2, <1>3, <2>1, <2>2, <2>3
  <1>4. CASE TakeResult(t)
    <2>1. Set(t, s("answered")) /\ task[t].st = "posted"
      BY <1>4 DEF TakeResult
    <2>2. task'[t] = s("answered") /\ task' = [task EXCEPT ![t] = task'[t]]
      BY <1>2, <2>1, SetTask
    <2> QED BY <1>2, <1>4, <2>1, <2>2
  <1> QED BY <1>3, <1>4

\* When a task is ordered, its handle is one that nobody has closed.
LEMMA HandlesKept ==
    ASSUME TypeInv, NEW t \in Task, ExecAction(t) \/ TakeResult(t)
    PROVE  KeepsHandles /\ UNCHANGED <<handleVars, crashed>>
  <1>1. TypeOK /\ slot \in 0 .. MaxHandle /\ MaxHandle \in Nat
    BY MachineAssumption DEF TypeInv, TypeOK
  <1>2. CASE UNCHANGED refs
    BY <1>1, <1>2, Untouched DEF ExecAction, TakeResult
  <1>3. CASE ExecAction(t) /\ slot # 0
    <2>1. refs' = [refs EXCEPT ![slot] = @ \cup {<<"task", t>>}] /\ refs[slot] # {}
      BY <1>3 DEF ExecAction, Closing
    <2>2. slot \in Handle /\ <<"task", t>> \in Holder
      BY <1>1, <1>3 DEF Handle, Holder
    <2> QED BY <1>1, <1>3, <2>1, <2>2 DEF KeepsHandles, TypeOK, ExecAction
  <1> QED BY <1>2, <1>3 DEF ExecAction, TakeResult

\* The state of the tasks when one of them is set.
LEMMA TasksSet ==
    ASSUME TypeOK, NEW t \in Task, task' = [task EXCEPT ![t] = task'[t]],
           task'[t] \in TaskState
    PROVE  task' \in [Task -> TaskState] /\ \A u \in Task : u # t => task'[u] = task[u]
  BY DEF TypeOK

\* The handles, when the connection is opened or lost, or the user closes it.
ConnectionStep == OpenConnection \/ PeerLost \/ DropAllReferences \/ ClearSlot

LEMMA ConnectionHandles ==
    ASSUME TypeInv, ConnectionStep
    PROVE  /\ UNCHANGED <<task, crashed>>
           /\ refs' \in [Handle -> SUBSET Holder]
           /\ opened \in Nat /\ opened' \in opened .. MaxHandle
           /\ slot' \in 0 .. MaxHandle /\ slot' <= opened' /\ up' \in BOOLEAN
           /\ \A h \in 1 .. opened : refs'[h] \in {refs[h], {}}
           /\ \A h \in 1 .. opened' : h > opened => refs'[h] = {<<"thread">>}
  <1>1. MaxHandle \in Nat /\ <<"thread">> \in Holder
    BY MachineAssumption DEF Holder
  <1>2. /\ refs \in [Handle -> SUBSET Holder] /\ opened \in 0 .. MaxHandle
        /\ slot \in 0 .. MaxHandle /\ slot <= opened /\ up \in BOOLEAN
    BY DEF TypeInv, TypeOK, HandlesOpened
  <1>3. CASE OpenConnection
    BY <1>1, <1>2, <1>3 DEF OpenConnection, Handle
  <1>4. CASE PeerLost
    <2>1. up' \in BOOLEAN
      BY <1>4 DEF PeerLost
    <2>2. UNCHANGED <<slot, opened, refs, task, crashed>>
      BY <1>4 DEF PeerLost
    <2> QED BY <1>1, <1>2, <2>1, <2>2 DEF Handle
  <1>5. CASE DropAllReferences
    <2>1. /\ UNCHANGED <<task, crashed>> /\ UNCHANGED <<slot, up, opened>> /\ slot \in Handle
          /\ refs' = [refs EXCEPT ![slot] = {}]
      BY <1>1, <1>2, <1>5 DEF DropAllReferences, Handle, handleVars
    <2>2. \A h \in Handle : refs'[h] = IF h = slot THEN {} ELSE refs[h]
      BY <1>2, <2>1
    <2> QED BY <1>1, <1>2, <2>1, <2>2 DEF Handle
  <1>6. CASE ClearSlot
    <2>1. up' \in BOOLEAN
      BY <1>6 DEF ClearSlot
    <2>2. UNCHANGED <<opened, refs, task, crashed>> /\ slot' = 0
      BY <1>6 DEF ClearSlot
    <2> QED BY <1>1, <1>2, <2>1, <2>2 DEF Handle
  <1> QED BY <1>3, <1>4, <1>5, <1>6 DEF ConnectionStep

\* Every step is one of four kinds.
LEMMA NextKinds ==
    ASSUME [Next]_vars
    PROVE  \/ UNCHANGED vars
           \/ ConnectionStep
           \/ \E t \in Task : Statement(t)
           \/ \E t \in Task : ExecAction(t) \/ TakeResult(t)
  BY DEF Next, ConnectionStep

\* At first no task has done anything.
LEMMA NewAtFirst ==
    Init => \A t \in Task : /\ task[t].st \in {"unused", "new"}
                           /\ task[t].freed = {} /\ ~task[t].stray
                           /\ ~task[t].ok /\ ~task[t].did
                           /\ \A k \in Kind : task[t].has[k] = 0
  <1> DEFINE Blank(r) == /\ r.st \in {"unused", "new"} /\ r.freed = {} /\ ~r.stray
                         /\ ~r.ok /\ ~r.did /\ \A k \in Kind : r.has[k] = 0
  <1>1. \A op : Blank(NewTask(op))
    BY DEF NewTask
  <1>2. Blank(Unused)
    BY DEF Unused, NewTask
  <1>3. ASSUME Init, NEW t \in Task PROVE task[t] = Unused \/ \E op : task[t] = NewTask(op)
    BY <1>3 DEF Init
  <1>4. ASSUME Init, NEW t \in Task PROVE Blank(task[t])
    <2> HIDE DEF Blank
    <2> QED BY <1>1, <1>2, <1>3, <1>4
  <1> QED BY <1>4

LEMMA TypeInitially == Init => TypeInv
  <1> SUFFICES ASSUME Init PROVE TypeInv
    OBVIOUS
  <1>1. MaxHandle \in Nat /\ Op # {}
    BY MachineAssumption
  <1>2. \A op \in Op : NewTask(op) \in TaskState /\ \A k \in Kind : NewTask(op).has[k] = 0
    BY <1>1 DEF NewTask, TaskState
  <1>3. Unused \in TaskState /\ \A k \in Kind : Unused.has[k] = 0
    <2>1. PICK op : op = CHOOSE o \in Op : TRUE
      OBVIOUS
    <2>2. op \in Op
      BY <1>1, <2>1
    <2>3. Unused = [NewTask(op) EXCEPT !.st = "unused"]
      BY <2>1 DEF Unused
    <2>4. NewTask(op) \in TaskState /\ \A k \in Kind : NewTask(op).has[k] = 0
      BY <1>2, <2>2
    <2>5. /\ Unused \in TaskState /\ Unused.has = NewTask(op).has
      BY <2>3, <2>4 DEF TaskState
    <2> QED BY <2>4, <2>5
  <1>4. PICK load \in Workloads :
            task = [t \in Task |-> IF t \in DOMAIN load THEN NewTask(load[t]) ELSE Unused]
    BY DEF Init
  <1>5. \A t \in DOMAIN load : load[t] \in Op
    <2>1. PICK S \in SUBSET Task : load \in [S -> Op]
      BY MachineAssumption
    <2> QED BY <2>1
  <1>6. \A t \in Task : task[t] \in TaskState /\ \A k \in Kind : task[t].has[k] = 0
    BY <1>2, <1>3, <1>4, <1>5
  <1>7. task \in [Task -> TaskState]
    BY <1>4, <1>6
  <1>8. refs \in [Handle -> SUBSET Holder] /\ slot = 0 /\ opened = 0
    BY DEF Init
  <1>9. up \in BOOLEAN /\ crashed \in BOOLEAN
    BY DEF Init
  <1> QED BY <1>1, <1>6, <1>7, <1>8, <1>9 DEF TypeInv, TypeOK, HandlesOpened

LEMMA TypeStep == TypeInv /\ [Next]_vars => TypeInv'
  <1> SUFFICES ASSUME TypeInv, [Next]_vars PROVE TypeInv'
    OBVIOUS
  <1>1. /\ TypeOK /\ HandlesOpened /\ MaxHandle \in Nat
        /\ slot \in 0 .. MaxHandle /\ opened \in 0 .. MaxHandle
        /\ \A t \in Task : task[t] \in TaskState
    BY MachineAssumption DEF TypeInv, TypeOK
  <1>2. \A t \in Task, k \in Kind : task[t].has[k] \in 0 .. MaxHandle
    BY <1>1 DEF TaskState
  <1>3. CASE UNCHANGED vars
    BY <1>1, <1>3 DEF TypeInv, TypeOK, HandlesOpened, vars, handleVars
  <1>4. CASE ConnectionStep
    BY <1>1, <1>2, <1>4, ConnectionHandles DEF TypeInv, TypeOK, HandlesOpened
  <1>5. CASE \E t \in Task : Statement(t)
    <2>1. PICK t \in Task : Statement(t)
      BY <1>5
    <2>2. /\ Advances(t) /\ KeepsHandles /\ UNCHANGED handleVars /\ crashed' \in BOOLEAN
      BY <2>1, StatementShape DEF Shape
    <2>3. task' \in [Task -> TaskState] /\ \A u \in Task : u # t => task'[u] = task[u]
      BY <1>1, <2>2, TasksSet DEF Advances
    <2>4. \A u \in Task, k \in Kind : task'[u].has[k] <= opened
      BY <1>1, <2>2, <2>3 DEF Advances, HandlesOpened
    <2> QED BY <1>1, <2>2, <2>3, <2>4 DEF TypeInv, TypeOK, HandlesOpened, KeepsHandles, handleVars
  <1>6. CASE \E t \in Task : ExecAction(t) \/ TakeResult(t)
    <2>1. PICK t \in Task : ExecAction(t) \/ TakeResult(t)
      BY <1>6
    <2>2. KeepsHandles /\ UNCHANGED <<handleVars, crashed>>
      BY <2>1, HandlesKept
    <2>3. /\ task' = [task EXCEPT ![t] = task'[t]] /\ task'[t] \in TaskState
          /\ task'[t].has = task[t].has
      BY <1>1, <2>1, TaskTold
    <2>4. task' \in [Task -> TaskState] /\ \A u \in Task : u # t => task'[u] = task[u]
      BY <1>1, <2>3, TasksSet
    <2> QED BY <1>1, <2>2, <2>3, <2>4 DEF TypeInv, TypeOK, HandlesOpened, KeepsHandles, handleVars
  <1> QED BY <1>3, <1>4, <1>5, <1>6, NextKinds

\* The handles, the holders of their references, the tasks and their objects are
\* what the model says they are, whatever the operations.
THEOREM TypeCorrect == Spec => []TypeOK
  BY TypeInitially, TypeStep, PTL DEF Spec, TypeInv

LEMMA LivesStep == TypeInv /\ OpenHandleLives /\ [Next]_vars => OpenHandleLives'
  <1> SUFFICES ASSUME TypeInv, OpenHandleLives, [Next]_vars PROVE OpenHandleLives'
    OBVIOUS
  <1>1. opened \in 0 .. MaxHandle /\ MaxHandle \in Nat
    BY MachineAssumption DEF TypeInv, TypeOK
  <1>2. CASE UNCHANGED vars
    BY <1>2 DEF OpenHandleLives, vars, handleVars
  <1>3. CASE ConnectionStep
    BY <1>1, <1>3, ConnectionHandles DEF OpenHandleLives
  <1>4. CASE KeepsHandles /\ UNCHANGED handleVars
    BY <1>1, <1>4 DEF OpenHandleLives, KeepsHandles, handleVars, Handle
  <1> QED BY <1>2, <1>3, <1>4, NextKinds, StatementShape, HandlesKept DEF Shape

\* A handle is freed by a close of the user alone: no operation, on whatever
\* path, drops the reference of ConnAliveThread.
THEOREM HandleLives == Spec => []OpenHandleLives
  <1>1. Init => OpenHandleLives
    BY DEF Init, OpenHandleLives
  <1> QED BY <1>1, TypeInitially, TypeStep, LivesStep, PTL DEF Spec

----------------------------------------------------------------------------
(* Calls on freed memory.                                                  *)

\* No statement that is still to come is called on what is given back.
NotReused ==
    \A t \in Task : \A k \in task[t].freed, j \in DOMAIN Program[task[t].op] :
        j >= task[t].pc => Program[task[t].op][j].on # k

\* The user has closed a handle.
SomeClosed == \E h \in 1 .. opened : refs[h] = {}

AllFreeLast == \A op \in Op : FreesLast(Program[op])

StrayInv == NotReused /\ StrayNeedsClose

LEMMA ClosedStaysClosed == TypeInv /\ SomeClosed /\ [Next]_vars => SomeClosed'
  <1> SUFFICES ASSUME TypeInv, SomeClosed, [Next]_vars PROVE SomeClosed'
    OBVIOUS
  <1>1. opened \in 0 .. MaxHandle /\ MaxHandle \in Nat
    BY MachineAssumption DEF TypeInv, TypeOK
  <1>2. PICK h \in 1 .. opened : refs[h] = {}
    BY DEF SomeClosed
  <1>3. CASE UNCHANGED vars
    BY <1>2, <1>3 DEF SomeClosed, vars, handleVars
  <1>4. CASE ConnectionStep
    <2>1. opened' \in Nat /\ opened' >= opened /\ refs'[h] = {}
      BY <1>1, <1>2, <1>4, ConnectionHandles
    <2> QED BY <1>1, <1>2, <2>1 DEF SomeClosed
  <1>5. CASE KeepsHandles /\ UNCHANGED handleVars
    BY <1>1, <1>2, <1>5 DEF SomeClosed, KeepsHandles, handleVars, Handle
  <1> QED BY <1>3, <1>4, <1>5, NextKinds, StatementShape, HandlesKept DEF Shape

\* The object that a statement gives back is called no more.
LEMMA NotReusedStep ==
    ASSUME AllFreeLast, TypeInv, NotReused, [Next]_vars
    PROVE  NotReused'
  <1>1. TypeOK
    BY DEF TypeInv
  <1>2. CASE UNCHANGED vars \/ ConnectionStep
    BY <1>2, ConnectionHandles DEF NotReused, vars
  <1>3. ASSUME NEW t \in Task, Statement(t) PROVE NotReused'
    <2>1. Advances(t) /\ GivesBack(t)
      BY <1>3, StatementShape DEF Shape
    <2>2. \A u \in Task : u # t => task'[u] = task[u]
      BY <1>1, <2>1, TasksSet DEF Advances
    <2>3. ASSUME NEW k \in task'[t].freed, NEW j \in DOMAIN Program[task'[t].op],
                 j >= task'[t].pc
          PROVE  Program[task'[t].op][j].on # k
      <3>1. /\ task'[t].op = task[t].op /\ task[t].op \in Op
            /\ task[t].pc \in Nat /\ task'[t].pc \in Nat /\ task'[t].pc >= task[t].pc
        BY <1>1, <2>1 DEF Advances, TypeOK, TaskState
      <3>2. j \in Nat
        BY <3>1, MachineAssumption
      <3>3. CASE k \in task[t].freed
        BY <2>3, <3>1, <3>2, <3>3 DEF NotReused
      <3>4. CASE /\ ~AtEnd(t) /\ Now(t).do = "free" /\ Now(t).on = k
                 /\ task'[t].pc = task[t].pc + 1
        <4>1. task[t].pc \in DOMAIN Program[task[t].op] /\ task[t].pc < j
          BY <1>1, <2>3, <3>1, <3>2, <3>4, NowIsStep
        <4> QED BY <3>1, <3>4, <4>1 DEF AllFreeLast, FreesLast, Now
      <3> QED BY <2>1, <3>3, <3>4 DEF GivesBack
    <2> QED BY <2>2, <2>3 DEF NotReused
  <1>4. ASSUME NEW t \in Task, ExecAction(t) \/ TakeResult(t) PROVE NotReused'
    <2>1. \A u \in Task : /\ task'[u].op = task[u].op /\ task'[u].pc = task[u].pc
                          /\ task'[u].freed = task[u].freed
      BY <1>1, <1>4, TaskTold, TasksSet
    <2> QED BY <2>1 DEF NotReused
  <1> QED BY <1>2, <1>3, <1>4, NextKinds

LEMMA StrayStep ==
    ASSUME TypeInv, NotReused, StrayNeedsClose, [Next]_vars
    PROVE  StrayNeedsClose'
  <1>1. TypeOK /\ opened \in 0 .. MaxHandle /\ MaxHandle \in Nat
    BY MachineAssumption DEF TypeInv, TypeOK
  <1>2. CASE SomeClosed
    BY <1>2, ClosedStaysClosed DEF SomeClosed, StrayNeedsClose
  <1>3. CASE ~SomeClosed
    <2>1. \A t \in Task : ~task[t].stray
      BY <1>3 DEF SomeClosed, StrayNeedsClose
    <2>2. CASE UNCHANGED vars \/ ConnectionStep
      BY <2>1, <2>2, ConnectionHandles DEF StrayNeedsClose, vars
    <2>3. ASSUME NEW t \in Task, Statement(t) PROVE StrayNeedsClose'
      <3>1. Advances(t) /\ GivesBack(t)
        BY <2>3, StatementShape DEF Shape
      <3>2. \A u \in Task : u # t => task'[u] = task[u]
        BY <1>1, <3>1, TasksSet DEF Advances
      <3>3. ASSUME ~AtEnd(t), IsStray(t) PROVE FALSE
        <4>1. Target(t) \in 1 .. opened
          BY <1>1, <3>3, TargetOpened DEF IsStray
        <4>2. Now(t).on \in task[t].freed
          BY <1>3, <3>3, <4>1 DEF IsStray, SomeClosed
        <4>3. task[t].pc \in DOMAIN Program[task[t].op] /\ task[t].pc \in Nat
          BY <1>1, <3>3, NowIsStep DEF TypeOK, TaskState
        <4> QED BY <4>2, <4>3 DEF NotReused, Now
      <3>4. ~task'[t].stray
        BY <2>1, <3>1, <3>3 DEF GivesBack
      <3> QED BY <2>1, <3>2, <3>4 DEF StrayNeedsClose
    <2>4. ASSUME NEW t \in Task, ExecAction(t) \/ TakeResult(t) PROVE StrayNeedsClose'
      <3>1. \A u \in Task : task'[u].stray = task[u].stray
        BY <1>1, <2>4, TaskTold, TasksSet
      <3> QED BY <2>1, <3>1 DEF StrayNeedsClose
    <2> QED BY <2>2, <2>3, <2>4, NextKinds
  <1> QED BY <1>2, <1>3

\* When no operation uses what it has given back, a call on freed memory needs
\* a close by the user while the task runs, whatever the other tasks do.
THEOREM StrayOnlyAfterClose ==
    ASSUME AllFreeLast
    PROVE  Spec => []StrayNeedsClose
  <1>1. Init => NotReused /\ StrayNeedsClose
    BY NewAtFirst DEF NotReused, StrayNeedsClose
  <1>2. TypeInv /\ NotReused /\ [Next]_vars => NotReused'
    BY NotReusedStep
  <1>3. TypeInv /\ NotReused /\ StrayNeedsClose /\ [Next]_vars => StrayNeedsClose'
    BY StrayStep
  <1> QED BY <1>1, <1>2, <1>3, TypeInitially, TypeStep, PTL DEF Spec

----------------------------------------------------------------------------
(* The refinement of TaskPromise.                                          *)

\* What the result of a task says while it works: nothing before it runs; what
\* is done is told, and is the last thing that a task does; and a task that
\* is to change something tells of nothing else.
Quiet == {"get", "try", "free", "file"}

ResultTold(t) ==
    /\ task[t].st \in {"unused", "new"} => ~task[t].ok /\ ~task[t].did
    /\ task[t].did => /\ task[t].ok
                      /\ \A j \in DOMAIN Program[task[t].op] :
                            j >= task[t].pc => Program[task[t].op][j].do \in Quiet
    /\ task[t].ok => task[t].did \/ task[t].op \in Loose

PromiseInv == \A t \in Task : ResultTold(t)

\* What an operation does besides its change, or its transfer.
LEMMA AfterChange ==
    ASSUME TypeOK, NEW t \in Task, ~AtEnd(t)
    PROVE  /\ task[t].op \notin Loose => Now(t).do \in Changes \cup Quiet
           /\ Now(t).do \in Changes \cup Transfers =>
                \A j \in DOMAIN Program[task[t].op] :
                    j > task[t].pc => Program[task[t].op][j].do \in Quiet
  <1> DEFINE p == Program[task[t].op]
             i == task[t].pc
  <1>1. task[t].op \in Op /\ i \in DOMAIN p /\ Now(t) = p[i] /\ i \in Nat
    BY NowIsStep DEF Now, TypeOK, TaskState
  <1>2. CASE task[t].op \in Loose
    <2>1. Harmless(p)
      BY <1>1, <1>2, MachineAssumption
    <2> HIDE DEF p, i
    <2> QED BY <1>1, <1>2, <2>1 DEF Harmless, Quiet, p, i
  <1>3. CASE task[t].op \notin Loose
    <2>1. Strict(p)
      BY <1>1, <1>3, MachineAssumption
    <2>2. Now(t).do \in Changes \cup Quiet
      BY <1>1, <2>1 DEF Strict, Quiet
    <2>3. ASSUME Now(t).do \in Changes, NEW j \in DOMAIN p, j > i
          PROVE  p[j].do \in Quiet
      <3>1. j # i
        BY <1>1, <2>3
      <3>2. p[j].do \notin Changes
        BY <1>1, <2>1, <2>3, <3>1 DEF Strict
      <3> QED BY <2>1, <2>3, <3>2 DEF Strict, Quiet
    <2>4. Changes \cap Transfers = {} /\ Quiet \cap Transfers = {}
      BY DEF Changes, Transfers, Quiet
    <2> QED BY <1>3, <2>2, <2>3, <2>4
  <1> QED BY <1>2, <1>3

\* A statement takes nothing back of what is done.
LEMMA StatementTells ==
    ASSUME TypeInv, NEW t \in Task, ResultTold(t), Statement(t)
    PROVE  /\ ResultTold(t)' /\ (task[t].did => task'[t].did)
           /\ task'[t].st \in {"running", "posted"} /\ task[t].st = "running"
           /\ task'[t].op = task[t].op
  <1>1. /\ TypeOK /\ Advances(t) /\ SetsResult(t) /\ task[t].st = "running"
        /\ task[t].pc \in Nat /\ task'[t].pc \in Nat /\ task'[t].pc >= task[t].pc
        /\ task'[t].op = task[t].op /\ task'[t].st \in {"running", "posted"}
        /\ task[t].op \in Op
    BY StatementShape DEF TypeInv, TypeOK, TaskState, Shape, Advances
  <1>2. \A j \in DOMAIN Program[task[t].op] : j \in Nat
    BY <1>1, MachineAssumption
  <1>3. CASE task'[t].ok = task[t].ok /\ task'[t].did = task[t].did
    BY <1>1, <1>2, <1>3 DEF ResultTold
  <1>4. ASSUME ~AtEnd(t), Now(t).do \notin Quiet PROVE ~task[t].did
    <2>1. task[t].pc \in DOMAIN Program[task[t].op]
      BY <1>1, <1>4, NowIsStep
    <2> QED BY <1>1, <1>4, <2>1 DEF ResultTold, Now
  <1>5. CASE /\ ~AtEnd(t) /\ Now(t).do \in Changes \cup Transfers
             /\ task'[t].ok /\ task'[t].did /\ task'[t].pc = task[t].pc + 1
    <2>1. \A j \in DOMAIN Program[task[t].op] :
              j >= task'[t].pc => Program[task[t].op][j].do \in Quiet
      BY <1>1, <1>2, <1>5, AfterChange
    <2> QED BY <1>1, <1>5, <2>1 DEF ResultTold
  <1>6. CASE /\ ~AtEnd(t) /\ Now(t).do \notin Quiet
             /\ task'[t].did \in {task[t].did, FALSE}
             /\ ~task'[t].ok \/ Now(t).do \notin Changes \cup Quiet
    <2>1. ~task[t].did /\ ~task'[t].did
      BY <1>4, <1>6
    <2>2. task'[t].ok => task[t].op \in Loose
      BY <1>1, <1>6, AfterChange
    <2> QED BY <1>1, <2>1, <2>2 DEF ResultTold
  <1> QED BY <1>1, <1>3, <1>5, <1>6 DEF SetsResult, Quiet

\* Where a task stands, for the one who ordered it.
Standing(t) ==
    IF task[t].st \in {"unused", "new"} THEN "none"
    ELSE IF task[t].st # "answered" THEN IF task[t].did THEN "done" ELSE "ordered"
    ELSE IF task[t].ok THEN "yes" ELSE "no"

\* A step of one task, from one standing to another, is one of the promise's.
LEMMA StandingMoves ==
    ASSUME NEW t \in Task, \A u \in Task : u # t => Standing(u)' = Standing(u),
           \A u \in Task : task'[u].op = task[u].op,
           \/ Standing(t)' = Standing(t)
           \/ Standing(t) = "none" /\ Standing(t)' \in {"ordered", "no"}
           \/ Standing(t) = "ordered" /\ Standing(t)' \in {"done", "no"}
           \/ Standing(t) = "done" /\ Standing(t)' = "yes"
           \/ Standing(t) = "ordered" /\ Standing(t)' = "yes" /\ task[t].op \in Loose
    PROVE  [Promise!Next]_(Promise!vars)
  <1> DEFINE P == [u \in Task |-> Standing(u)]
             L == {u \in Task : task[u].op \in Loose}
  <1>1. L' = L
    OBVIOUS
  <1>2. P' = [P EXCEPT ![t] = Standing(t)']
    OBVIOUS
  <1>3. P[t] = Standing(t)
    OBVIOUS
  <1>4. Standing(t)' = Standing(t) => P' = P
    OBVIOUS
  <1>5. P = [u \in Task |->
                IF task[u].st \in {"unused", "new"} THEN "none"
                ELSE IF task[u].st # "answered" THEN IF task[u].did THEN "done" ELSE "ordered"
                ELSE IF task[u].ok THEN "yes" ELSE "no"]
    BY DEF Standing
  <1>6. ASSUME NEW from, NEW to, Standing(t) = from, Standing(t)' = to
        PROVE  Promise!Move(t, from, to)
    BY <1>1, <1>2, <1>3, <1>5, <1>6 DEF Promise!Move, Standing
  <1> QED BY <1>1, <1>4, <1>5, <1>6
      DEF Promise!Next, Promise!vars, Promise!Order, Promise!Refuse, Promise!Change,
          Promise!Fail, Promise!Succeed, Promise!SucceedLoosely, Standing

LEMMA PromiseStep ==
    ASSUME TypeInv, PromiseInv, [Next]_vars
    PROVE  PromiseInv' /\ [Promise!Next]_(Promise!vars)
  <1>1. TypeOK
    BY DEF TypeInv
  <1>2. CASE UNCHANGED task
    BY <1>2 DEF PromiseInv, ResultTold, Promise!vars
  <1>3. ASSUME NEW t \in Task, Statement(t)
        PROVE  PromiseInv' /\ [Promise!Next]_(Promise!vars)
    <2>1. /\ ResultTold(t)' /\ (task[t].did => task'[t].did)
          /\ task'[t].st \in {"running", "posted"} /\ task[t].st = "running"
          /\ task'[t].op = task[t].op
      BY <1>3, StatementTells DEF PromiseInv
    <2>2. \A u \in Task : u # t => task'[u] = task[u]
      BY <1>1, <1>3, StatementShape, TasksSet DEF Shape, Advances
    <2>3. PromiseInv'
      BY <2>1, <2>2 DEF PromiseInv, ResultTold
    <2>4. \A u \in Task : u # t => Standing(u)' = Standing(u)
      BY <2>2 DEF Standing
    <2>5. \/ Standing(t)' = Standing(t)
          \/ Standing(t) = "ordered" /\ Standing(t)' = "done"
      BY <2>1 DEF Standing
    <2>6. \A u \in Task : task'[u].op = task[u].op
      BY <2>1, <2>2
    <2> QED BY <2>3, <2>4, <2>5, <2>6, StandingMoves
  <1>4. ASSUME NEW t \in Task, ExecAction(t) \/ TakeResult(t)
        PROVE  PromiseInv' /\ [Promise!Next]_(Promise!vars)
    <2>1. /\ task'[t].op = task[t].op /\ task'[t].pc = task[t].pc
          /\ task'[t].ok = task[t].ok /\ task'[t].did = task[t].did
          /\ \/ task[t].st = "new" /\ task'[t].st \in {"answered", "running"}
             \/ task[t].st = "posted" /\ task'[t].st = "answered"
      BY <1>1, <1>4, TaskTold
    <2>2. \A u \in Task : u # t => task'[u] = task[u]
      BY <1>1, <1>4, TaskTold, TasksSet
    <2>3. ResultTold(t)
      BY DEF PromiseInv
    <2>4. ResultTold(t)'
      BY <2>1, <2>3 DEF ResultTold
    <2>5. PromiseInv'
      BY <2>2, <2>4 DEF PromiseInv, ResultTold
    <2>6. \A u \in Task : u # t => Standing(u)' = Standing(u)
      BY <2>2 DEF Standing
    <2>7. \A u \in Task : task'[u].op = task[u].op
      BY <2>1, <2>2
    <2>8. CASE task[t].st = "new" /\ task'[t].st \in {"answered", "running"}
      <3>1. Standing(t) = "none" /\ Standing(t)' \in {"ordered", "no"}
        BY <2>1, <2>3, <2>8 DEF Standing, ResultTold
      <3> QED BY <2>5, <2>6, <2>7, <3>1, StandingMoves
    <2>9. CASE task[t].st = "posted" /\ task'[t].st = "answered"
      <3>1. \/ Standing(t) = "ordered" /\ Standing(t)' = "no"
            \/ Standing(t) = "done" /\ Standing(t)' = "yes"
            \/ Standing(t) = "ordered" /\ Standing(t)' = "yes" /\ task[t].op \in Loose
        BY <2>1, <2>3, <2>9 DEF Standing, ResultTold
      <3> QED BY <2>5, <2>6, <2>7, <3>1, StandingMoves
    <2> QED BY <2>1, <2>8, <2>9
  <1>5. ConnectionStep \/ UNCHANGED vars => UNCHANGED task
    BY ConnectionHandles DEF vars
  <1> QED BY <1>2, <1>3, <1>4, <1>5, NextKinds

\* Every task is answered at most once, changes the hypervisor at most once and
\* never after the answer, and the answer of one that changes something says
\* whether it did: the tasks implement TaskPromise.
THEOREM PromiseKept == Spec => KeepsPromise
  <1>1. Init => PromiseInv /\ Promise!Init
    <2>1. Init => \A t \in Task : /\ task[t].st \in {"unused", "new"}
                                  /\ ~task[t].ok /\ ~task[t].did
      BY NewAtFirst
    <2> QED BY <2>1 DEF PromiseInv, ResultTold, Promise!Init
  <1>2. TypeInv /\ PromiseInv /\ [Next]_vars => PromiseInv' /\ [Promise!Next]_(Promise!vars)
    BY PromiseStep
  <1> QED BY <1>1, <1>2, TypeInitially, TypeStep, PTL DEF Spec, KeepsPromise, Promise!Spec
----------------------------------------------------------------------------
(* What the tasks hold.                                                    *)

\* Every object that an operation obtains, but for those it keeps, is given back
\* further on, with no statement before that may return.
FreesAll(p, kept) ==
    \A i \in DOMAIN p : p[i].do \in {"get", "need", "make"} /\ p[i].obj \notin kept =>
        \E j \in DOMAIN p :
            /\ i < j /\ p[j].do = "free" /\ p[j].on = p[i].obj
            /\ \A m \in DOMAIN p : i < m /\ m < j => p[m].do \notin Returns

AllGiveBack == \A op \in Op : FreesAll(Program[op], Unfreed[op])

\* The task is going to give the object back.
IsDue(t, k) ==
    \E j \in DOMAIN Program[task[t].op] :
        /\ task[t].pc <= j
        /\ Program[task[t].op][j].do = "free" /\ Program[task[t].op][j].on = k
        /\ \A m \in DOMAIN Program[task[t].op] :
               task[t].pc <= m /\ m < j => Program[task[t].op][m].do \notin Returns

\* What a task holds is due, until the task has made a call on freed memory.
HeldIsDue(t) ==
    \A k \in Kind \ Unfreed[task[t].op] :
        task[t].has[k] # 0 => \/ k \in task[t].freed \/ task[t].stray
                              \/ task[t].st = "running" /\ IsDue(t, k)

HeldInv == \A t \in Task : HeldIsDue(t)

\* What was due before a statement is given back by it, or still due.
LEMMA DueAfter ==
    ASSUME TypeInv, NEW t \in Task, Shape(t), task[t].st = "running",
           NEW k \in Kind, task[t].has[k] # 0, IsDue(t, k)
    PROVE  k \in task'[t].freed \/ task'[t].stray \/ (task'[t].st = "running" /\ IsDue(t, k)')
  <1> DEFINE p == Program[task[t].op]
             i == task[t].pc
  <1>1. /\ task[t].op \in Op /\ i \in Nat /\ task'[t].pc \in Nat /\ task'[t].op = task[t].op
        /\ task'[t].st \in {"running", "posted"}
    BY DEF TypeInv, TypeOK, TaskState, Shape, Advances
  <1>2. p \in Seq(Step) /\ DOMAIN p = 1 .. Len(p) /\ Len(p) \in Nat
    BY <1>1, MachineAssumption
  <1>3. PICK j \in DOMAIN p : /\ i <= j /\ p[j].do = "free" /\ p[j].on = k
                              /\ \A m \in DOMAIN p : i <= m /\ m < j => p[m].do \notin Returns
    BY DEF IsDue
  <1>4. i \in DOMAIN p /\ ~AtEnd(t) /\ Now(t) = p[i] /\ task'[t].st = "running"
    <2>1. i \in 1 .. Len(p)
      BY <1>1, <1>2, <1>3 DEF TypeInv, TypeOK, TaskState
    <2>2. ~AtEnd(t)
      BY <1>2, <2>1 DEF AtEnd
    <2> QED BY <1>1, <1>2, <2>1, <2>2 DEF Now, Shape, Owns
  <1>5. task'[t].pc \in {i, i + 1}
    <2>1. Now(t).do \notin Returns
      BY <1>1, <1>2, <1>3, <1>4 DEF Returns
    <2> QED BY <2>1 DEF Shape, Owns
  <1>6. CASE j = i /\ task'[t].pc # i
    <2>1. Target(t) = task[t].has[k]
      BY <1>3, <1>4, <1>6 DEF Target, Kind
    <2> QED BY <1>3, <1>4, <1>6, <2>1 DEF Shape, Owns
  <1>7. CASE task'[t].pc <= j
    <2> HIDE DEF p
    <2>1. \A m \in DOMAIN p : task'[t].pc <= m /\ m < j => p[m].do \notin Returns
      BY <1>1, <1>2, <1>3, <1>5
    <2> QED BY <1>1, <1>3, <1>4, <1>7, <2>1 DEF IsDue, p
  <1> QED BY <1>1, <1>2, <1>3, <1>5, <1>6, <1>7

\* What a statement obtains is due.
LEMMA DueAtOnce ==
    ASSUME AllGiveBack, TypeInv, NEW t \in Task, Shape(t), task[t].st = "running", ~AtEnd(t),
           Now(t).do \in {"get", "need", "make"}, task'[t].pc = task[t].pc + 1,
           NEW k \in Kind \ Unfreed[task[t].op], k = Now(t).obj
    PROVE  task'[t].st = "running" /\ IsDue(t, k)'
  <1> DEFINE p == Program[task[t].op]
             i == task[t].pc
  <1>1. /\ task[t].op \in Op /\ i \in Nat /\ task'[t].op = task[t].op
        /\ task'[t].st \in {"running", "posted"} /\ i \in DOMAIN p /\ Now(t) = p[i]
    BY NowIsStep DEF TypeInv, TypeOK, TaskState, Shape, Advances, Now
  <1>2. p \in Seq(Step) /\ DOMAIN p = 1 .. Len(p) /\ Len(p) \in Nat
    BY <1>1, MachineAssumption
  <1>3. FreesAll(p, Unfreed[task[t].op])
    BY <1>1 DEF AllGiveBack
  <1>4. PICK j \in DOMAIN p : /\ i < j /\ p[j].do = "free" /\ p[j].on = k
                              /\ \A m \in DOMAIN p : i < m /\ m < j => p[m].do \notin Returns
    <2> HIDE DEF p, i
    <2> QED BY <1>1, <1>3 DEF FreesAll
  <1>5. task'[t].st = "running"
    BY <1>1 DEF Shape, Owns
  <1>6. IsDue(t, k)'
    <2> HIDE DEF p
    <2>1. i + 1 <= j /\ \A m \in DOMAIN p : i + 1 <= m /\ m < j => p[m].do \notin Returns
      BY <1>1, <1>2, <1>4
    <2> QED BY <1>1, <1>4, <2>1 DEF IsDue, p
  <1> QED BY <1>5, <1>6
\* No step lets a task keep what it is to give back.
LEMMA HeldStep ==
    ASSUME AllGiveBack, TypeInv, HeldInv, [Next]_vars
    PROVE  HeldInv'
  <1>1. TypeOK
    BY DEF TypeInv
  <1>2. CASE UNCHANGED vars \/ ConnectionStep
    BY <1>2, ConnectionHandles DEF HeldInv, HeldIsDue, IsDue, vars
  <1>3. ASSUME NEW t \in Task, Statement(t) PROVE HeldInv'
    <2>1. Shape(t) /\ task[t].st = "running"
      BY <1>3, StatementShape
    <2>2. \A u \in Task : u # t => task'[u] = task[u]
      BY <1>1, <2>1, TasksSet DEF Shape, Advances
    <2>3. \A u \in Task : u # t => HeldIsDue(u)'
      BY <2>2 DEF HeldInv, HeldIsDue, IsDue
    <2>4. task'[t].op = task[t].op
      BY <2>1 DEF Shape, Advances
    <2>5. ASSUME NEW k \in Kind \ Unfreed[task[t].op], task'[t].has[k] # 0
          PROVE  k \in task'[t].freed \/ task'[t].stray \/ (task'[t].st = "running" /\ IsDue(t, k)')
      <3>1. CASE task'[t].has[k] = task[t].has[k] /\ (k \in task[t].freed => k \in task'[t].freed)
        <4>1. k \in task[t].freed \/ task[t].stray \/ IsDue(t, k)
          BY <2>5, <3>1 DEF HeldInv, HeldIsDue
        <4>2. task[t].stray => task'[t].stray
          BY <2>1 DEF Shape, Owns
        <4> QED BY <2>1, <2>5, <3>1, <4>1, <4>2, DueAfter
      <3>2. CASE /\ ~AtEnd(t) /\ Now(t).do \in {"get", "need", "make"} /\ Now(t).obj = k
                 /\ task'[t].pc = task[t].pc + 1
        BY <2>1, <3>2, DueAtOnce
      <3> QED BY <2>1, <3>1, <3>2 DEF Shape, Owns
    <2>6. HeldIsDue(t)'
      BY <2>4, <2>5 DEF HeldIsDue
    <2> QED BY <2>3, <2>6 DEF HeldInv
  <1>4. ASSUME NEW t \in Task, ExecAction(t) \/ TakeResult(t) PROVE HeldInv'
    <2>1. \A u \in Task : u # t => task'[u] = task[u]
      BY <1>1, <1>4, TaskTold, TasksSet
    <2>2. /\ task'[t].op = task[t].op /\ task'[t].pc = task[t].pc
          /\ task'[t].has = task[t].has /\ task'[t].freed = task[t].freed
          /\ task'[t].stray = task[t].stray
          /\ task[t].st \in {"new", "posted"}
      BY <1>1, <1>4, TaskTold
    <2>3. \A u \in Task : u # t => HeldIsDue(u)'
      BY <2>1 DEF HeldInv, HeldIsDue, IsDue
    <2>4. HeldIsDue(t)'
      BY <2>2 DEF HeldInv, HeldIsDue
    <2> QED BY <2>3, <2>4 DEF HeldInv
  <1> QED BY <1>2, <1>3, <1>4, NextKinds

\* When every operation gives back what it obtains, further on and whatever
\* fails, a task that has ended holds nothing but what the operation keeps, or
\* has made a call on freed memory.
THEOREM ObjectsGivenBack ==
    ASSUME AllGiveBack
    PROVE  Spec => []ObjectsAreFreed
  <1>1. Init => HeldInv
    BY NewAtFirst DEF HeldInv, HeldIsDue
  <1>2. TypeInv /\ HeldInv /\ [Next]_vars => HeldInv'
    BY HeldStep
  <1>3. HeldInv => ObjectsAreFreed
    BY DEF HeldInv, HeldIsDue, ObjectsAreFreed
  <1> QED BY <1>1, <1>2, <1>3, TypeInitially, TypeStep, PTL DEF Spec
----------------------------------------------------------------------------
(* The programs of the code.                                               *)

Meets(p, kept) == p \in Seq(Step) /\ Names(p) /\ FreesLast(p) /\ FreesAll(p, kept)

\* The shapes that most operations have.
LEMMA Shapes ==
    ASSUME NEW k \in Kind
    PROVE  /\ Meets(Change(k), {})   /\ Strict(Change(k))
           /\ Meets(FromFile(k), {}) /\ Strict(FromFile(k))
           /\ Meets(Describe(k), {}) /\ Harmless(Describe(k))
           /\ Meets(List(k), {})     /\ Harmless(List(k))
  <1> USE DEF Meets, Names, FreesLast, FreesAll, Returns, Strict, Harmless, Changes, Transfers,
              Step, StepKind, Kind, Stmt
  <1>1. Meets(Change(k), {}) /\ Strict(Change(k))
    BY DEF Change, Lookup, ActOn, Free
  <1>2. Meets(FromFile(k), {}) /\ Strict(FromFile(k))
    BY DEF FromFile, FileRead, MakeIn, TryOn, Free
  <1>3. Meets(Describe(k), {}) /\ Harmless(Describe(k))
    BY DEF Describe, Lookup, AskOf, Free, FileTemp
  <1>4. Meets(List(k), {}) /\ Harmless(List(k))
    BY DEF List, ListAll, TryOn, Free, Succeed
  <1> QED BY <1>1, <1>2, <1>3, <1>4

\* The operations of a domain that have a shape of their own.
LEMMA DomainShapes ==
    /\ Meets(getDomainData0, {"domain"}) /\ Harmless(getDomainData0)
    /\ Meets(getDomainData1, {"domain"}) /\ Harmless(getDomainData1)
    /\ \A p \in {pauseDomain, saveDomain, restoreDomain, migrateDomain, createSnapshoteDomain,
                 revertSnapshoteDomain, deleteSnapshoteDomain} : Meets(p, {}) /\ Strict(p)
  <1> USE DEF Meets, Names, FreesLast, FreesAll, Returns, Strict, Harmless, Changes, Transfers,
              Step, StepKind, Kind, Stmt, Lookup, LookupIn, ActOn, TryOn, AskOf, Free, Succeed
  <1>1. Meets(getDomainData0, {"domain"}) /\ Harmless(getDomainData0)
    BY DEF getDomainData0
  <1>2. Meets(getDomainData1, {"domain"}) /\ Harmless(getDomainData1)
    BY DEF getDomainData1
  <1>3. Meets(pauseDomain, {}) /\ Strict(pauseDomain)
    BY DEF pauseDomain
  <1>4. saveDomain = pauseDomain /\ migrateDomain = pauseDomain
    BY DEF saveDomain, pauseDomain, migrateDomain
  <1>5. Meets(restoreDomain, {}) /\ Strict(restoreDomain)
    BY DEF restoreDomain
  <1>6. Meets(createSnapshoteDomain, {}) /\ Strict(createSnapshoteDomain)
    BY DEF createSnapshoteDomain
  <1>7. Meets(revertSnapshoteDomain, {}) /\ Strict(revertSnapshoteDomain)
    BY DEF revertSnapshoteDomain
  <1>8. revertSnapshoteDomain = deleteSnapshoteDomain
    BY DEF revertSnapshoteDomain, deleteSnapshoteDomain
  <1> HIDE DEF Meets, Strict, Harmless
  <1> QED BY <1>1, <1>2, <1>3, <1>4, <1>5, <1>6, <1>7, <1>8

\* Those of a volume, which all keep the pool.
LEMMA VolumeShapes ==
    /\ \A p \in {getAllStorageVolList, downloadStorageVol, uploadStorageVol, getStorageVolXMLDesc} :
           Meets(p, {"pool"}) /\ Harmless(p)
    /\ \A p \in {createStorageVol, deleteStorageVol, resizeStorageVol, wipeStorageVol,
                 refreshStorageVolList} :
           Meets(p, {"pool"}) /\ Strict(p)
  <1> USE DEF Meets, Names, FreesLast, FreesAll, Returns, Strict, Harmless, Changes, Transfers,
              Step, StepKind, Kind, Stmt, Lookup, LookupIn, ActOn, TryOn, AskOf, Free, Succeed,
              ListAll, MakeIn, FileRead, FileOpen, FileTemp, Transfer, OnVolume
  <1>1. Meets(getAllStorageVolList, {"pool"}) /\ Harmless(getAllStorageVolList)
    BY DEF getAllStorageVolList
  <1>2. Meets(downloadStorageVol, {"pool"}) /\ Harmless(downloadStorageVol)
    BY DEF downloadStorageVol
  <1>3. Meets(uploadStorageVol, {"pool"}) /\ Harmless(uploadStorageVol)
    BY DEF uploadStorageVol
  <1>4. Meets(getStorageVolXMLDesc, {"pool"}) /\ Harmless(getStorageVolXMLDesc)
    BY DEF getStorageVolXMLDesc
  <1>5. Meets(createStorageVol, {"pool"}) /\ Strict(createStorageVol)
    BY DEF createStorageVol
  <1>6. Meets(deleteStorageVol, {"pool"}) /\ Strict(deleteStorageVol)
    BY DEF deleteStorageVol
  <1>7. resizeStorageVol = deleteStorageVol /\ wipeStorageVol = deleteStorageVol
    BY DEF deleteStorageVol, resizeStorageVol, wipeStorageVol
  <1>8. Meets(refreshStorageVolList, {"pool"}) /\ Strict(refreshStorageVolList)
    BY DEF refreshStorageVolList
  <1> HIDE DEF Meets, Strict, Harmless
  <1> QED BY <1>1, <1>2, <1>3, <1>4, <1>5, <1>6, <1>7, <1>8

\* Those of an interface.
LEMMA InterfaceShapes ==
    \A p \in {ifaceChangeBegin, ifaceChangeCommit, ifaceChangeRollback} : Meets(p, {}) /\ Strict(p)
  <1>1. \A p \in {ifaceChangeBegin, ifaceChangeCommit, ifaceChangeRollback} : p = restoreDomain
    BY DEF ifaceChangeBegin, ifaceChangeCommit, ifaceChangeRollback, restoreDomain
  <1> QED BY <1>1, DomainShapes

\* The actions that only read, or stream.
Reading == {"GET_ALL_ENTITY_STATE", "GET_ALL_ENTITY_DATA0", "GET_ALL_ENTITY_DATA1",
            "GET_XML_DESCRIPTION", "EDIT_ENTITY", "DOWNLOAD_ENTITY", "UPLOAD_ENTITY"}

\* A program as it has to be for its action.
Fits(p, action, kept) ==
    Meets(p, kept) /\ IF action \in Reading THEN Harmless(p) ELSE Strict(p)

\* Which operation of an entity has which shape.
LEMMA DomainOperations ==
    \A a \in DOMAIN DomRun :
        Fits(DomRun[a], a, IF a \in {"GET_ALL_ENTITY_DATA0", "GET_ALL_ENTITY_DATA1"}
                           THEN {"domain"} ELSE {})
  <1>1. "domain" \in Kind
    BY DEF Kind
  <1>2. \A p \in {createDomain, defineDomain, startDomain, destroyDomain, resetDomain, rebootDomain,
                  shutdownDomain, undefineDomain, changeAutoStartDomain} :
            Meets(p, {}) /\ Strict(p)
    BY <1>1, Shapes DEF createDomain, defineDomain, startDomain, destroyDomain, resetDomain,
       rebootDomain, shutdownDomain, undefineDomain, changeAutoStartDomain
  <1>3. \A p \in {getAllDomainList, getDomainXMLDesc} : Meets(p, {}) /\ Harmless(p)
    BY <1>1, Shapes DEF getAllDomainList, getDomainXMLDesc
  <1>4. ASSUME NEW a \in DOMAIN DomRun, a \notin Reading
        PROVE  /\ Meets(DomRun[a], {}) /\ Strict(DomRun[a])
               /\ a \notin {"GET_ALL_ENTITY_DATA0", "GET_ALL_ENTITY_DATA1"}
    BY <1>2, <1>4, DomainShapes DEF Reading, DomRun
  <1>5. ASSUME NEW a \in DOMAIN DomRun, a \in Reading
        PROVE  Fits(DomRun[a], a, IF a \in {"GET_ALL_ENTITY_DATA0", "GET_ALL_ENTITY_DATA1"}
                                  THEN {"domain"} ELSE {})
    BY <1>3, <1>5, DomainShapes DEF Reading, DomRun, Fits
  <1> QED BY <1>4, <1>5 DEF Fits

LEMMA VolumeOperations == \A a \in DOMAIN VolRun : Fits(VolRun[a], a, {"pool"})
  BY VolumeShapes DEF Fits, Reading, VolRun

LEMMA OtherOperations ==
    /\ \A a \in DOMAIN NetRun : Fits(NetRun[a], a, {})
    /\ \A a \in DOMAIN PoolRun : Fits(PoolRun[a], a, {})
    /\ \A a \in DOMAIN SecretRun : Fits(SecretRun[a], a, {})
    /\ \A a \in DOMAIN IfaceRun : Fits(IfaceRun[a], a, {})
    /\ \A a \in DOMAIN FilterRun : Fits(FilterRun[a], a, {})
  <1> USE DEF Fits, Reading
  <1>0. {"network", "pool", "secret", "iface", "filter"} \subseteq Kind
    BY DEF Kind
  <1>1. \A a \in DOMAIN NetRun : Fits(NetRun[a], a, {})
    BY <1>0, Shapes DEF NetRun, getAllNetworkList, createNetwork, defineNetwork, startNetwork,
       destroyNetwork, undefineNetwork, changeAutoStartNetwork, getVirtNetXMLDesc
  <1>2. \A a \in DOMAIN PoolRun : Fits(PoolRun[a], a, {})
    BY <1>0, Shapes DEF PoolRun, getAllStoragePoolList, getAllStoragePoolDataList, createStoragePool,
       defineStoragePool, startStoragePool, destroyStoragePool, undefineStoragePool,
       changeAutoStartStoragePool, deleteStoragePool, getStoragePoolXMLDesc
  <1>3. \A a \in DOMAIN SecretRun : Fits(SecretRun[a], a, {})
    BY <1>0, Shapes DEF SecretRun, getAllSecretList, defineSecret, undefineSecret, getVirtSecretXMLDesc
  <1>4. \A a \in DOMAIN IfaceRun : Fits(IfaceRun[a], a, {})
    BY <1>0, Shapes, InterfaceShapes DEF IfaceRun, getAllIfaceList, startIface, destroyIface,
       defineIface, undefineIface, getVirtIfaceXMLDesc
  <1>5. \A a \in DOMAIN FilterRun : Fits(FilterRun[a], a, {})
    BY <1>0, Shapes DEF FilterRun, getAllNWFilterList, defineNWFilter, undefineNWFilter,
       getVirtNWFilterXMLDesc
  <1> QED BY <1>1, <1>2, <1>3, <1>4, <1>5

\* Which program an operation has.
LEMMA OperationKnown ==
    ASSUME NEW op \in Operation
    PROVE  /\ op[1] \in DOMAIN Run /\ op[2] \in DOMAIN Run[op[1]]
           /\ ProgramOf[op] = Run[op[1]][op[2]]
           /\ (op \in ReadsAndTransfers) <=> op[2] \in Reading
           /\ op = <<op[1], op[2]>>
  <1>1. PICK e \in DOMAIN Run : op \in {e} \X (DOMAIN Run[e])
    BY DEF Operation
  <1>2. op[1] = e /\ op[2] \in DOMAIN Run[e] /\ op = <<op[1], op[2]>>
    BY <1>1
  <1>3. op \in ReadsAndTransfers <=> op[2] \in Reading
    BY <1>1, <1>2 DEF ReadsAndTransfers, Reading
  <1> QED BY <1>1, <1>2, <1>3 DEF ProgramOf

\* Every operation of the code is what TaskMachine assumes of it, uses nothing
\* that it has given back, and gives back what UnfreedBy does not name, on every
\* path.
THEOREM ProgramsFit ==
    \A op \in Operation :
        /\ Meets(ProgramOf[op], UnfreedBy[op])
        /\ op \in ReadsAndTransfers => Harmless(ProgramOf[op])
        /\ op \notin ReadsAndTransfers => Strict(ProgramOf[op])
  <1> SUFFICES ASSUME NEW op \in Operation PROVE Fits(ProgramOf[op], op[2], UnfreedBy[op])
    BY OperationKnown DEF Fits
  <1>1. /\ op[1] \in DOMAIN Run /\ op[2] \in DOMAIN Run[op[1]]
        /\ ProgramOf[op] = Run[op[1]][op[2]] /\ op = <<op[1], op[2]>>
    BY OperationKnown
  <1>2. CASE op[1] = "VIRT_STORAGE_VOLUME"
    <2>1. UnfreedBy[op] = {"pool"} /\ Run[op[1]] = VolRun
      BY <1>2 DEF UnfreedBy, Run
    <2> QED BY <1>1, <2>1, VolumeOperations
  <1>3. CASE op[1] = "VIRT_DOMAIN"
    <2>1. /\ Run[op[1]] = DomRun
          /\ UnfreedBy[op] = IF op[2] \in {"GET_ALL_ENTITY_DATA0", "GET_ALL_ENTITY_DATA1"}
                             THEN {"domain"} ELSE {}
      BY <1>1, <1>3 DEF UnfreedBy, Run
    <2> QED BY <1>1, <2>1, DomainOperations
  <1>4. CASE op[1] \notin {"VIRT_STORAGE_VOLUME", "VIRT_DOMAIN"}
    <2>1. UnfreedBy[op] = {}
      BY <1>1, <1>4 DEF UnfreedBy
    <2>2. Run[op[1]] \in {NetRun, PoolRun, SecretRun, IfaceRun, FilterRun}
      BY <1>1, <1>4 DEF Run
    <2> QED BY <1>1, <2>1, <2>2, OtherOperations
  <1> QED BY <1>2, <1>3, <1>4

\* So with the operations of the code every object is given back, and a call on
\* freed memory needs a close by the user.
THEOREM CodeGivesBack ==
    ASSUME Op = Operation, Program = ProgramOf, Unfreed = UnfreedBy
    PROVE  Spec => []ObjectsAreFreed /\ []StrayNeedsClose
  <1>1. AllGiveBack
    BY ProgramsFit DEF AllGiveBack, Meets
  <1>2. AllFreeLast
    BY ProgramsFit DEF AllFreeLast, Meets
  <1>3. Spec => []ObjectsAreFreed
    BY <1>1, ObjectsGivenBack
  <1>4. Spec => []StrayNeedsClose
    BY <1>2, StrayOnlyAfterClose
  <1> QED BY <1>3, <1>4, PTL
=============================================================================
