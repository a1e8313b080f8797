------------------------ MODULE TaskWarehouse_proofs ------------------------
(***************************************************************************)
(* Proofs about TaskWarehouse, for any set of connections, any number of   *)
(* entity controls, any number of tasks and changes, hurried or patient    *)
(* users.                                                                  *)
(***************************************************************************)
EXTENDS TaskWarehouse, TLAPS

\* Until a connection has been put on view, nobody has ordered anything.
PointerGiven == ptr = NoConn => ~active /\ pool = {} /\ queue = <<>>

\* The tasks are numbered by the counter, from 1 on.
TasksNumbered == \A t \in pool : t.num \in 1 .. counter

TypeInv == TypeOK /\ PointerGiven /\ TasksNumbered

----------------------------------------------------------------------------
(* Lemmas about the parts that several actions share.                      *)

\* Posting an event leaves the older ones in place and puts it last.
LEMMA PostedEvent ==
    ASSUME NEW e \in Event, queue \in Seq(Event), queue' = Append(queue, e)
    PROVE  /\ queue' \in Seq(Event)
           /\ DOMAIN queue = 1 .. Len(queue)
           /\ DOMAIN queue' = 1 .. Len(queue) + 1
           /\ \A i \in 1 .. Len(queue) : queue'[i] = queue[i]
           /\ queue'[Len(queue) + 1] = e
           /\ Len(queue) \in Nat
           /\ queue' # <<>>
  OBVIOUS

\* Delivering the first event moves the others up by one place.
LEMMA DeliveredEvent ==
    ASSUME queue \in Seq(Event), queue # <<>>, queue' = Tail(queue)
    PROVE  /\ queue' \in Seq(Event)
           /\ Len(queue) \in Nat \ {0}
           /\ DOMAIN queue = 1 .. Len(queue)
           /\ DOMAIN queue' = 1 .. Len(queue) - 1
           /\ \A i \in 1 .. Len(queue) - 1 : queue'[i] = queue[i + 1]
           /\ Head(queue) = queue[1]
           /\ Head(queue) \in Event
  OBVIOUS

\* addNewTask takes the next number, and adds at most one task.
LEMMA NewTaskAdded ==
    ASSUME TypeOK, TasksNumbered, ptr # NoConn,
           NEW k \in Control, NEW kind \in {"reload", "change"}, NEW answered,
           AddNewTask(k, kind, answered)
    PROVE  /\ counter' = counter + 1
           /\ counter' \in Nat
           /\ pool' \in SUBSET Task
           /\ TasksNumbered'
           /\ pool \ answered \subseteq pool'
           /\ \A t \in pool' : t \in pool \ answered \/ t = NewTask(counter + 1, k, ptr, kind)
           /\ handle[ptr] # "null" => NewTask(counter + 1, k, ptr, kind) \in pool'
  <1>1. counter \in Nat /\ ptr \in Conn /\ counter' = counter + 1
    BY DEF TypeOK, AddNewTask
  <1>2. NewTask(counter + 1, k, ptr, kind) \in Task
    BY <1>1 DEF NewTask, Task
  <1>3. NewTask(counter + 1, k, ptr, kind).num = counter + 1
    BY DEF NewTask
  <1>4. pool' \in SUBSET Task
    BY <1>2 DEF TypeOK, AddNewTask
  <1>6. \A t \in pool' : t \in pool \ answered \/ t = NewTask(counter + 1, k, ptr, kind)
    BY DEF AddNewTask
  <1>7. TasksNumbered'
    BY <1>1, <1>3, <1>6 DEF TasksNumbered
  <1>8. handle[ptr] # "null" => NewTask(counter + 1, k, ptr, kind) \in pool'
    BY DEF AddNewTask
  <1>9. pool \ answered \subseteq pool'
    BY DEF AddNewTask
  <1> QED BY <1>1, <1>4, <1>6, <1>7, <1>8, <1>9

\* An overview orders one reload for every control, with fresh numbers.
LEMMA OverviewOrdersReloads ==
    ASSUME TypeOK, TasksNumbered, NEW c \in Conn, ShowInControls(c)
    PROVE  /\ counter' \in Nat
           /\ pool' \in SUBSET Task
           /\ TasksNumbered'
           /\ pool \subseteq pool'
           /\ \A k \in Control : NewTask(counter + k, k, c, "reload") \in pool'
           /\ \A t \in pool' : t \in pool \/ \E k \in Control : t = NewTask(counter + k, k, c, "reload")
  <1>1. counter \in Nat /\ NControls \in Nat /\ Control \subseteq Nat \ {0}
    BY WarehouseAssumption DEF TypeOK, Control
  <1>2. \A k \in Control : counter + k \in Nat /\ counter + k \in 1 .. counter + NControls
    BY <1>1 DEF Control
  <1>3. \A k \in Control : NewTask(counter + k, k, c, "reload") \in Task
    BY <1>2 DEF NewTask, Task
  <1>4. \A k \in Control : NewTask(counter + k, k, c, "reload").num = counter + k
    BY DEF NewTask
  <1>5. pool' = pool \cup {NewTask(counter + k, k, c, "reload") : k \in Control}
    BY DEF ShowInControls
  <1>6. counter' = counter + NControls
    BY DEF ShowInControls
  <1>8. TasksNumbered'
    <2> SUFFICES ASSUME NEW t \in pool' PROVE t.num \in 1 .. counter'
      BY DEF TasksNumbered
    <2>1. CASE t \in pool
      BY <1>1, <1>6, <2>1 DEF TasksNumbered
    <2>2. CASE \E k \in Control : t = NewTask(counter + k, k, c, "reload")
      BY <1>2, <1>4, <1>6, <2>2
    <2> QED BY <1>5, <2>1, <2>2
  <1>9. pool' \in SUBSET Task
    BY <1>3, <1>5 DEF TypeOK
  <1> QED BY <1>1, <1>5, <1>6, <1>8, <1>9

\* A task that moves on keeps its number, control and kind.
LEMMA TaskMoves ==
    ASSUME TypeOK, TasksNumbered, NEW t \in pool, NEW u \in Task, Replace(t, u),
           u.num = t.num, UNCHANGED counter
    PROVE  pool' \in SUBSET Task /\ TasksNumbered' /\ pool' # {} /\ pool # {}
  BY DEF TypeOK, TasksNumbered, Replace

----------------------------------------------------------------------------
(* Type correctness.                                                       *)

\* Initially every variable has its type, and nothing is ordered.
LEMMA TypeInitially == Init => TypeInv
  <1> SUFFICES ASSUME Init PROVE TypeInv
    OBVIOUS
  <1>1. NoConn \notin Conn /\ EmptyList \in List
    BY WarehouseAssumption DEF EmptyList, List
  <1>2. queue \in Seq(Event)
    BY DEF Init
  <1>3. handle \in [Conn -> {"null", "open", "dead"}]
    BY DEF Init
  <1> QED BY <1>1, <1>2, <1>3 DEF Init, TypeInv, TypeOK, ViewTypeOK, PointerGiven, TasksNumbered

\* Emptying the docks keeps the types.
LEMMA StopTyped ==
    ASSUME TypeOK, StopProcessing
    PROVE  /\ active' \in BOOLEAN /\ ptr' = ptr
           /\ list' \in [Control -> List]
           /\ listEnabled' = listEnabled
           /\ active' = FALSE
  <1>1. EmptyList \in List
    BY DEF EmptyList, List
  <1> QED BY <1>1 DEF TypeOK, StopProcessing

\* What is on view keeps its type.
LEMMA ViewTyped ==
    ASSUME TypeInv, [Next]_vars
    PROVE  ViewTypeOK'
  <1> USE DEF viewVars, ViewTypeOK
  <1>1. ViewTypeOK /\ ptr \in Conn \cup {NoConn}
    BY DEF TypeInv, TypeOK
  <1>2. ASSUME NEW c \in Conn,
               OpenConnection(c) \/ CloseConnection(c) \/ RemoteClose(c) \/ Overview(c)
               \/ OverviewOfOther(c)
        PROVE  ViewTypeOK'
    BY <1>1, <1>2 DEF OpenConnection, CloseConnection, RemoteClose, Overview, OverviewOfOther,
                      ShowInControls, StopProcessing, DocksUntold
  <1>3. ASSUME NEW k \in Control, Reload(k) \/ ExecAction(k) \/ HypervisorEvent(k)
        PROVE  ViewTypeOK'
    BY <1>1, <1>3 DEF Reload, ExecAction, HypervisorEvent
  <1>4. ASSUME NEW t \in pool, Compute(t) \/ PostResult(t) PROVE ViewTypeOK'
    BY <1>1, <1>4 DEF Compute, PostResult
  <1>5. CASE CloseOverview
    BY <1>1, <1>5 DEF CloseOverview, StopProcessing
  <1>6. CASE Deliver
    <2>1. \A t : ResultReceived(t) => UNCHANGED missed \/ missed' = missed \ {t.ctl}
      BY DEF ResultReceived, ListReceived, ChangeSucceeded, ChangeFailed
    <2>2. UNCHANGED missed \/ \E t \in pool : missed' = missed \ {t.ctl}
      BY <1>6, <2>1 DEF Deliver
    <2>3. UNCHANGED <<onView, untold>>
      BY <1>6 DEF Deliver
    <2> QED BY <1>1, <2>2, <2>3
  <1>7. CASE UNCHANGED vars
    BY <1>1, <1>7 DEF vars
  <1> QED BY <1>2, <1>3, <1>4, <1>5, <1>6, <1>7 DEF Next, Thread

\* The steps of the connections keep the types.
LEMMA ConnectionTyped ==
    ASSUME TypeInv, ViewTypeOK', NEW c \in Conn,
           OpenConnection(c) \/ CloseConnection(c) \/ RemoteClose(c) \/ OverviewOfOther(c)
    PROVE  TypeInv'
  <1> USE DEF TypeInv, TypeOK, PointerGiven, TasksNumbered, hyperVars, windowVars, taskVars
  <1>1. CASE OpenConnection(c)
    BY <1>1 DEF OpenConnection, DocksUntold, controlVars
  <1>2. CASE CloseConnection(c)
    <2>1. handle' \in [Conn -> {"null", "open", "dead"}]
      BY <1>2 DEF CloseConnection
    <2>2. CASE StopProcessing
      BY <1>2, <2>1, <2>2, StopTyped DEF CloseConnection
    <2>3. CASE UNCHANGED controlVars
      BY <1>2, <2>1, <2>3 DEF CloseConnection, controlVars
    <2> QED BY <1>2, <2>2, <2>3 DEF CloseConnection, DocksUntold
  <1>3. CASE RemoteClose(c)
    <2>1. handle' \in [Conn -> {"null", "open", "dead"}]
      BY <1>3 DEF RemoteClose
    <2>2. CASE StopProcessing
      BY <1>3, <2>1, <2>2, StopTyped DEF RemoteClose
    <2>3. CASE UNCHANGED controlVars
      BY <1>3, <2>1, <2>3 DEF RemoteClose, controlVars
    <2> QED BY <1>3, <2>2, <2>3 DEF RemoteClose
  <1>4. CASE OverviewOfOther(c)
    BY <1>4 DEF OverviewOfOther, controlVars
  <1> QED BY <1>1, <1>2, <1>3, <1>4

\* A change of an entity keeps the types of the hypervisors.
LEMMA ChangeTyped ==
    ASSUME TypeOK, NEW c \in Conn, NEW k \in Control, Change(c, k)
    PROVE  pace' \in Paces /\ changes' \in Nat /\ version' \in [Conn -> [Control -> Nat]]
  <1>1. changes' = changes + 1 /\ changes' \in Nat
    BY DEF Change, TypeOK
  <1>2. [version[c] EXCEPT ![k] = changes + 1] \in [Control -> Nat]
    BY <1>1 DEF TypeOK
  <1>3. version' = [version EXCEPT ![c] = [version[c] EXCEPT ![k] = changes + 1]]
    BY DEF Change
  <1>4. pace' = pace
    BY DEF Change
  <1> QED BY <1>1, <1>2, <1>3, <1>4 DEF TypeOK

\* The orders keep the types.
LEMMA OrderTyped ==
    ASSUME TypeInv, ViewTypeOK',
           \/ \E c \in Conn : Overview(c)
           \/ \E k \in Control : Reload(k) \/ ExecAction(k) \/ HypervisorEvent(k)
           \/ CloseOverview
    PROVE  TypeInv'
  <1> USE DEF TypeInv
  <1>1. ASSUME NEW c \in Conn, Overview(c) PROVE TypeInv'
    <2>1. ShowInControls(c)
      BY <1>1 DEF Overview
    <2>2. EmptyList \in List /\ c # NoConn
      BY WarehouseAssumption DEF EmptyList, List
    <2>3. /\ list' \in [Control -> List]
          /\ listEnabled' \in [Control -> BOOLEAN]
          /\ ptr' = c /\ active' = TRUE /\ connList' = FALSE
          /\ UNCHANGED <<handle, hyperVars, processing, queue>>
      BY <2>1, <2>2 DEF ShowInControls
    <2>4. updated' = {}
      BY <1>1 DEF Overview
    <2> QED BY <2>1, <2>2, <2>3, <2>4, OverviewOrdersReloads
            DEF TypeOK, PointerGiven, hyperVars
  <1>2. ASSUME NEW k \in Control, Reload(k) PROVE TypeInv'
    <2>1. ptr # NoConn /\ AddNewTask(k, "reload", {})
      BY <1>2 DEF Reload, ReloadState
    <2>2. listEnabled' \in [Control -> BOOLEAN]
      BY <1>2 DEF Reload, ReloadState, TypeOK
    <2> QED BY <1>2, <2>1, <2>2, NewTaskAdded
            DEF Reload, TypeOK, PointerGiven, hyperVars, windowVars
  <1>3. ASSUME NEW k \in Control, ExecAction(k) PROVE TypeInv'
    <2>1. ptr # NoConn /\ AddNewTask(k, "change", {})
      BY <1>3 DEF ExecAction, PointerGiven
    <2>2. processing' \in SUBSET Nat
      BY <1>3 DEF ExecAction, TypeOK
    <2> QED BY <1>3, <2>1, <2>2, NewTaskAdded
            DEF ExecAction, TypeOK, PointerGiven, hyperVars, windowVars, controlVars
  <1>4. ASSUME NEW k \in Control, HypervisorEvent(k) PROVE TypeInv'
    <2>1. ptr \in Conn /\ ptr # NoConn
      BY <1>4 DEF HypervisorEvent, PointerGiven, TypeOK
    <2>2. pace' \in Paces /\ changes' \in Nat /\ version' \in [Conn -> [Control -> Nat]]
      BY <1>4, <2>1, ChangeTyped DEF HypervisorEvent
    <2>3. [num |-> 0, ctl |-> k] \in Event
      BY DEF Event
    <2>4. queue' \in Seq(Event)
      <3>1. queue' = queue \/ queue' = Append(queue, [num |-> 0, ctl |-> k])
        BY <1>4 DEF HypervisorEvent
      <3> QED BY <2>3, <3>1, PostedEvent DEF TypeOK
    <2> QED BY <1>4, <2>1, <2>2, <2>4
            DEF HypervisorEvent, TypeOK, PointerGiven, TasksNumbered, windowVars, controlVars, taskVars
  <1>5. CASE CloseOverview
    BY <1>5, StopTyped
       DEF CloseOverview, TypeOK, PointerGiven, TasksNumbered, hyperVars, windowVars, taskVars
  <1> QED BY <1>1, <1>2, <1>3, <1>4, <1>5

\* The threads keep the types.
LEMMA ThreadTyped ==
    ASSUME TypeInv, ViewTypeOK', Thread
    PROVE  TypeInv'
  <1> USE DEF TypeInv
  <1>1. PICK t \in pool : Compute(t) \/ PostResult(t)
    BY DEF Thread
  <1>2. t \in Task /\ ptr # NoConn /\ t.num \in Nat \ {0}
    BY DEF TypeOK, PointerGiven, TasksNumbered
  <1>3. CASE Compute(t)
    <2>1. PICK ok \in BOOLEAN, seen \in Nat :
             Replace(t, [t EXCEPT !.step = "computed", !.ok = ok, !.seen = seen])
      <3>1. CASE t.kind = "reload"
        <4>1. version[t.conn][t.ctl] \in Nat /\ (handle[t.conn] = "open") \in BOOLEAN
          BY <1>2 DEF Task, TypeOK
        <4> QED BY <1>3, <3>1, <4>1 DEF Compute
      <3>2. CASE t.kind = "change"
        <4>1. \/ Replace(t, [t EXCEPT !.step = "computed", !.ok = FALSE])
              \/ Replace(t, [t EXCEPT !.step = "computed", !.ok = TRUE])
          BY <1>3, <3>2 DEF Compute
        <4>2. t.seen \in Nat
          BY <1>2 DEF Task
        <4>3. \A b \in BOOLEAN : [t EXCEPT !.step = "computed", !.ok = b]
                               = [t EXCEPT !.step = "computed", !.ok = b, !.seen = t.seen]
          BY <1>2 DEF Task
        <4> QED BY <4>1, <4>2, <4>3
      <3> QED BY <1>3, <3>1, <3>2 DEF Compute
    <2> DEFINE u == [t EXCEPT !.step = "computed", !.ok = ok, !.seen = seen]
    <2>2. u \in Task /\ u.num = t.num
      BY <1>2 DEF Task
    <2>3. UNCHANGED <<handle, controlVars, windowVars, counter, processing, queue>>
      BY <1>3 DEF Compute
    <2>4. pool' \in SUBSET Task /\ TasksNumbered'
      BY <2>1, <2>2, <2>3, TaskMoves
    <2>5. pace' \in Paces /\ changes' \in Nat /\ version' \in [Conn -> [Control -> Nat]]
      <3>1. \/ UNCHANGED hyperVars
            \/ Change(t.conn, t.ctl)
        BY <1>3 DEF Compute
      <3>2. t.conn \in Conn /\ t.ctl \in Control
        BY <1>2 DEF Task
      <3> QED BY <3>1, <3>2, ChangeTyped DEF hyperVars, TypeOK
    <2> QED BY <1>2, <2>3, <2>4, <2>5 DEF TypeOK, PointerGiven, controlVars, windowVars
  <1>4. CASE PostResult(t)
    <2>1. [t EXCEPT !.step = "posted"] \in Task /\ [t EXCEPT !.step = "posted"].num = t.num
      BY <1>2 DEF Task
    <2>2. UNCHANGED <<handle, hyperVars, controlVars, windowVars, counter, processing>>
      BY <1>4 DEF PostResult
    <2>3. pool' \in SUBSET Task /\ TasksNumbered'
      BY <1>4, <2>1, <2>2, TaskMoves DEF PostResult
    <2>4. [num |-> t.num, ctl |-> t.ctl] \in Event
      BY <1>2 DEF Task, Event
    <2>5. queue' \in Seq(Event)
      BY <1>4, <2>4, PostedEvent DEF PostResult, TypeOK
    <2> QED BY <1>2, <2>2, <2>3, <2>5 DEF TypeOK, PointerGiven, hyperVars, controlVars, windowVars
  <1> QED BY <1>1, <1>3, <1>4

\* What a delivery does: it reloads a control, or hands in a result.
LEMMA Delivered ==
    ASSUME TypeInv, Deliver
    PROVE  /\ ptr # NoConn /\ ptr' = ptr /\ active' = active /\ handle' = handle
           /\ \/ /\ Head(queue).num = 0 /\ Head(queue).ctl \in Control
                 /\ ReloadState(Head(queue).ctl, {})
                 /\ UNCHANGED <<list, updated, connList, processing, missed>>
              \/ \E t \in pool : /\ Head(queue).num = t.num /\ t.num # 0 /\ t \in Task
                                 /\ ResultReceived(t)
  <1>1. Head(queue) \in Event
    BY DeliveredEvent DEF Deliver, TypeInv, TypeOK
  <1>2. ptr # NoConn
    BY DEF Deliver, TypeInv, PointerGiven
  <1> QED BY <1>1, <1>2 DEF Deliver, TypeInv, TypeOK, Event, windowVars

\* A delivery keeps the types.
LEMMA DeliverTyped ==
    ASSUME TypeInv, ViewTypeOK', Deliver
    PROVE  TypeInv'
  <1> USE DEF TypeInv
  <1>1. queue' \in Seq(Event) /\ UNCHANGED <<handle, pace, version, changes, ptr, active>> /\ ptr # NoConn
    BY DeliveredEvent, Delivered DEF Deliver, TypeOK, hyperVars
  <1>2. ASSUME NEW k \in Control, NEW answered, ReloadState(k, answered)
        PROVE  /\ listEnabled' \in [Control -> BOOLEAN] /\ counter' \in Nat
               /\ pool' \in SUBSET Task /\ TasksNumbered'
    <2>1. listEnabled' \in [Control -> BOOLEAN]
      BY <1>2 DEF ReloadState, TypeOK
    <2> QED BY <1>1, <1>2, <2>1, NewTaskAdded DEF ReloadState
  <1>3. CASE /\ Head(queue).ctl \in Control
             /\ ReloadState(Head(queue).ctl, {})
             /\ UNCHANGED <<list, updated, connList, processing>>
    BY <1>1, <1>2, <1>3 DEF TypeOK, PointerGiven
  <1>4. ASSUME NEW t \in pool, t \in Task, ResultReceived(t) PROVE TypeInv'
    <2>1. processing' \in SUBSET Nat
      BY <1>4 DEF ResultReceived, TypeOK
    <2>2. t.ctl \in Control /\ t.conn \in Conn /\ t.seen \in Nat
      BY <1>4 DEF Task
    <2>3. CASE ListReceived(t)
      <3>1. [of |-> t.conn, seen |-> t.seen] \in List /\ EmptyList \in List
        BY <2>2 DEF List, EmptyList
      <3>2. list' \in [Control -> List] /\ listEnabled' \in [Control -> BOOLEAN]
        BY <2>3, <3>1 DEF ListReceived, TypeOK
      <3>3. updated' \in SUBSET Control /\ connList' \in BOOLEAN
        BY <2>2, <2>3 DEF ListReceived, EntityControlUpdated, TypeOK
      <3>4. pool' \in SUBSET Task /\ UNCHANGED counter /\ TasksNumbered'
        BY <2>3 DEF ListReceived, TypeOK, TasksNumbered
      <3> QED BY <1>1, <2>1, <3>2, <3>3, <3>4 DEF TypeOK, PointerGiven
    <2>4. CASE ChangeSucceeded(t)
      BY <1>1, <1>2, <2>1, <2>2, <2>4 DEF ChangeSucceeded, TypeOK, PointerGiven, windowVars
    <2>5. CASE ChangeFailed(t)
      BY <1>1, <2>1, <2>5 DEF ChangeFailed, TypeOK, PointerGiven, TasksNumbered, windowVars
    <2> QED BY <1>4, <2>3, <2>4, <2>5 DEF ResultReceived
  <1> QED BY <1>3, <1>4, Delivered

\* No step takes a variable out of its type.
LEMMA TypeStep == TypeInv /\ [Next]_vars => TypeInv'
  <1> SUFFICES ASSUME TypeInv, [Next]_vars PROVE TypeInv'
    OBVIOUS
  <1>1. CASE UNCHANGED vars
    BY <1>1 DEF vars, hyperVars, controlVars, windowVars, taskVars, viewVars, TypeInv, TypeOK,
                ViewTypeOK, PointerGiven, TasksNumbered
  <1>2. CASE Next
    BY <1>2, ViewTyped, ConnectionTyped, OrderTyped, ThreadTyped, DeliverTyped DEF Next
  <1> QED BY <1>1, <1>2

\* Every variable keeps its type.
THEOREM TypeCorrect == Spec => []TypeOK
  <1>1. TypeInv => TypeOK
    BY DEF TypeInv
  <1> QED BY <1>1, TypeInitially, TypeStep, PTL DEF Spec

----------------------------------------------------------------------------
(* The answers.                                                            *)

\* Initially nothing is ordered or posted.
LEMMA AnswersInitially == Init => AnswersMatchTasks
  BY DEF Init, AnswersMatchTasks

\* Adding tasks with fresh numbers, one number each, takes no answer away.
LEMMA FreshTasks ==
    ASSUME AnswersMatchTasks, pool \subseteq pool', queue' = queue, counter \in Nat,
           TasksNumbered, TasksNumbered', counter' \in Nat,
           \A t \in pool' : t \in pool \/ t.num > counter,
           \A s, t \in pool' : s \notin pool /\ t \notin pool /\ s.num = t.num => s = t
    PROVE  AnswersMatchTasks'
  <1>1. \A s, t \in pool' : s.num = t.num => s = t
    BY DEF AnswersMatchTasks, TasksNumbered
  <1>2. \A t \in pool' : t.num <= counter'
    BY DEF TasksNumbered
  <1> QED BY <1>1, <1>2 DEF AnswersMatchTasks

\* A delivery posts nothing and leaves the tasks that have more to say.
LEMMA AnswerDelivered ==
    ASSUME TypeInv, TasksNumbered', AnswersMatchTasks, Deliver, counter' \in Nat,
           \A t \in pool : t \in pool' \/ t.num = Head(queue).num,
           \A t \in pool' : t \in pool \/ t.num > counter,
           \A s, t \in pool' : s \notin pool /\ t \notin pool /\ s.num = t.num => s = t
    PROVE  AnswersMatchTasks'
  <1>0. counter \in Nat /\ queue \in Seq(Event) /\ TasksNumbered
    BY DEF TypeInv, TypeOK
  <1>1. \A s, t \in pool' : s.num = t.num => s = t
    BY <1>0 DEF AnswersMatchTasks, TasksNumbered
  <1>2. \A t \in pool' : t.num <= counter'
    BY DEF TasksNumbered
  <1>3. ASSUME NEW i \in DOMAIN queue', queue'[i].num # 0
        PROVE  /\ \E t \in pool' : t.num = queue'[i].num /\ t.step = "posted"
               /\ \A j \in DOMAIN queue' : queue'[j].num = queue'[i].num => i = j
    <2>1. /\ Len(queue) \in Nat \ {0}
          /\ DOMAIN queue = 1 .. Len(queue)
          /\ DOMAIN queue' = 1 .. Len(queue) - 1
          /\ \A j \in 1 .. Len(queue) - 1 : queue'[j] = queue[j + 1]
          /\ Head(queue) = queue[1]
      BY <1>0, DeliveredEvent DEF Deliver
    <2>2. i + 1 \in DOMAIN queue /\ queue'[i] = queue[i + 1] /\ i + 1 # 1 /\ 1 \in DOMAIN queue
      BY <2>1
    <2>3. queue[i + 1].num # queue[1].num
      BY <1>3, <2>2 DEF AnswersMatchTasks
    <2>4. \E t \in pool' : t.num = queue'[i].num /\ t.step = "posted"
      BY <1>3, <2>1, <2>2, <2>3 DEF AnswersMatchTasks
    <2>5. ASSUME NEW j \in DOMAIN queue', queue'[j].num = queue'[i].num PROVE i = j
      <3>1. j + 1 \in DOMAIN queue /\ queue'[j] = queue[j + 1]
        BY <2>1
      <3>2. i + 1 = j + 1
        BY <1>3, <2>2, <2>5, <3>1 DEF AnswersMatchTasks
      <3> QED BY <2>1, <3>2
    <2> QED BY <2>4, <2>5
  <1> QED BY <1>1, <1>2, <1>3 DEF AnswersMatchTasks

\* No step loses an answer or gives a task two.
LEMMA AnswersStep == TypeInv /\ AnswersMatchTasks /\ [Next]_vars => AnswersMatchTasks'
  <1> SUFFICES ASSUME TypeInv, AnswersMatchTasks, [Next]_vars PROVE AnswersMatchTasks'
    OBVIOUS
  <1>1. TypeInv' /\ TypeOK /\ TasksNumbered /\ TasksNumbered' /\ counter \in Nat /\ counter' \in Nat
    BY TypeStep DEF TypeInv, TypeOK
  <1>2. CASE UNCHANGED <<counter, pool, queue>>
    BY <1>2 DEF AnswersMatchTasks
  <1>3. ASSUME NEW c \in Conn, Overview(c) PROVE AnswersMatchTasks'
    <2>1. ShowInControls(c) /\ queue' = queue
      BY <1>3 DEF Overview, ShowInControls
    <2>2. \A k \in Control : NewTask(counter + k, k, c, "reload").num = counter + k /\ k \in Nat \ {0}
      BY WarehouseAssumption DEF NewTask, Control
    <2>3. pool \subseteq pool'
      BY <1>1, <2>1, OverviewOrdersReloads
    <2>4. \A t \in pool' : t \in pool \/ \E k \in Control : t = NewTask(counter + k, k, c, "reload")
      BY <1>1, <2>1, OverviewOrdersReloads
    <2>5. \A t \in pool' : t \in pool \/ t.num > counter
      BY <1>1, <2>2, <2>4
    <2>6. ASSUME NEW s \in pool', NEW t \in pool', s \notin pool, t \notin pool, s.num = t.num
          PROVE  s = t
      <3>1. PICK k \in Control : s = NewTask(counter + k, k, c, "reload")
        BY <2>4, <2>6
      <3>2. PICK l \in Control : t = NewTask(counter + l, l, c, "reload")
        BY <2>4, <2>6
      <3>3. counter + k = counter + l
        BY <2>2, <2>6, <3>1, <3>2
      <3>4. k = l
        BY <1>1, <2>2, <3>3
      <3> QED BY <3>1, <3>2, <3>4
    <2> QED BY <1>1, <2>1, <2>3, <2>5, <2>6, FreshTasks
  <1>4. ASSUME NEW k \in Control, NEW kind \in {"reload", "change"}, ptr # NoConn,
               AddNewTask(k, kind, {}), queue' = queue
        PROVE  AnswersMatchTasks'
    <2>1. NewTask(counter + 1, k, ptr, kind).num = counter + 1
      BY DEF NewTask
    <2>2. pool \subseteq pool' /\ \A t \in pool' : t \in pool \/ t = NewTask(counter + 1, k, ptr, kind)
      BY <1>1, <1>4, NewTaskAdded
    <2> QED BY <1>1, <1>4, <2>1, <2>2, FreshTasks
  <1>5. ASSUME NEW k \in Control, Reload(k) PROVE AnswersMatchTasks'
    BY <1>4, <1>5 DEF Reload, ReloadState
  <1>6. ASSUME NEW k \in Control, ExecAction(k) PROVE AnswersMatchTasks'
    BY <1>4, <1>6 DEF ExecAction, TypeInv, PointerGiven
  <1>7. ASSUME NEW k \in Control, HypervisorEvent(k) PROVE AnswersMatchTasks'
    <2>1. /\ [num |-> 0, ctl |-> k] \in Event
          /\ queue' = queue \/ queue' = Append(queue, [num |-> 0, ctl |-> k])
      BY <1>7 DEF HypervisorEvent, Event
    <2>2. UNCHANGED <<counter, pool>> /\ queue \in Seq(Event)
      BY <1>1, <1>7 DEF HypervisorEvent, taskVars, TypeOK
    <2>3. CASE queue' = queue
      BY <1>2, <2>2, <2>3
    <2>4. CASE queue' = Append(queue, [num |-> 0, ctl |-> k])
      BY <2>1, <2>2, <2>4, PostedEvent DEF AnswersMatchTasks
    <2> QED BY <2>1, <2>3, <2>4
  <1>8. ASSUME NEW t \in pool, Compute(t) PROVE AnswersMatchTasks'
    <2>1. PICK u : Replace(t, u) /\ u.num = t.num /\ t.step = "running"
      <3>1. /\ \A ok, seen : [t EXCEPT !.step = "computed", !.ok = ok, !.seen = seen].num = t.num
            /\ \A ok : [t EXCEPT !.step = "computed", !.ok = ok].num = t.num
        BY <1>1 DEF TypeOK, Task
      <3>2. CASE t.kind = "reload"
        <4> DEFINE u == [t EXCEPT !.step = "computed", !.ok = (handle[t.conn] = "open"),
                                  !.seen = version[t.conn][t.ctl]]
        <4>1. Replace(t, u) /\ t.step = "running"
          BY <1>8, <3>2 DEF Compute
        <4>2. u.num = t.num
          BY <1>1 DEF TypeOK, Task
        <4> QED BY <4>1, <4>2
      <3>3. CASE t.kind # "reload"
        <4>1. \/ Replace(t, [t EXCEPT !.step = "computed", !.ok = FALSE])
              \/ Replace(t, [t EXCEPT !.step = "computed", !.ok = TRUE])
          BY <1>8, <3>3 DEF Compute
        <4>2. t.step = "running"
          BY <1>8 DEF Compute
        <4> QED BY <3>1, <4>1, <4>2
      <3> QED BY <3>2, <3>3
    <2>2. UNCHANGED <<counter, queue>>
      BY <1>8 DEF Compute
    <2>3. pool' = (pool \ {t}) \cup {u}
      BY <2>1 DEF Replace
    <2>4. \A s \in pool : s.num = t.num => s = t
      BY DEF AnswersMatchTasks
    <2>5. \A r, s \in pool' : r.num = s.num => r = s
      BY <2>1, <2>3, <2>4 DEF AnswersMatchTasks
    <2>6. \A s \in pool : s.step = "posted" => s \in pool'
      BY <2>1, <2>3
    <2> QED BY <1>1, <2>2, <2>5, <2>6 DEF AnswersMatchTasks, TasksNumbered
  <1>9. ASSUME NEW t \in pool, PostResult(t) PROVE AnswersMatchTasks'
    <2> DEFINE u == [t EXCEPT !.step = "posted"]
    <2> DEFINE e == [num |-> t.num, ctl |-> t.ctl]
    <2>1. t \in Task /\ u.num = t.num /\ u.step = "posted" /\ e \in Event /\ e.num = t.num
      BY <1>1 DEF TypeOK, Task, Event
    <2>2. pool' = (pool \ {t}) \cup {u} /\ t.step = "computed" /\ queue' = Append(queue, e)
      BY <1>9 DEF PostResult, Replace
    <2>3. counter' = counter /\ queue \in Seq(Event)
      BY <1>1, <1>9 DEF PostResult, TypeOK
    <2> HIDE DEF u, e
    <2>4. \A s \in pool : s.num = t.num => s = t
      BY DEF AnswersMatchTasks
    <2>5. \A r, s \in pool' : r.num = s.num => r = s
      BY <2>1, <2>2, <2>4 DEF AnswersMatchTasks
    <2>6. \A i \in DOMAIN queue : queue[i].num # 0 => queue[i].num # t.num
      BY <2>2, <2>4 DEF AnswersMatchTasks
    <2>7. t.num # 0
      BY <1>1 DEF TasksNumbered
    <2>8. /\ DOMAIN queue = 1 .. Len(queue)
          /\ DOMAIN queue' = 1 .. Len(queue) + 1
          /\ \A i \in 1 .. Len(queue) : queue'[i] = queue[i]
          /\ queue'[Len(queue) + 1] = e
          /\ Len(queue) \in Nat
      BY <2>1, <2>2, <2>3, PostedEvent
    <2>9. ASSUME NEW i \in DOMAIN queue', queue'[i].num # 0
          PROVE  /\ \E s \in pool' : s.num = queue'[i].num /\ s.step = "posted"
                 /\ \A j \in DOMAIN queue' : queue'[j].num = queue'[i].num => i = j
      <3>1. CASE i = Len(queue) + 1
        <4>1. u \in pool' /\ queue'[i] = e
          BY <2>2, <2>8, <3>1
        <4>2. ASSUME NEW j \in DOMAIN queue', queue'[j].num = queue'[i].num, i # j PROVE FALSE
          <5>1. j \in DOMAIN queue /\ queue'[j] = queue[j]
            BY <2>8, <3>1, <4>2
          <5> QED BY <2>1, <2>6, <2>7, <4>1, <4>2, <5>1
        <4> QED BY <2>1, <4>1, <4>2
      <3>2. CASE i # Len(queue) + 1
        <4>1. i \in DOMAIN queue /\ queue'[i] = queue[i]
          BY <2>8, <3>2
        <4>2. \E s \in pool' : s.num = queue'[i].num /\ s.step = "posted"
          BY <2>2, <2>9, <4>1 DEF AnswersMatchTasks
        <4>3. ASSUME NEW j \in DOMAIN queue', queue'[j].num = queue'[i].num PROVE i = j
          <5>1. CASE j = Len(queue) + 1
            BY <2>1, <2>6, <2>8, <2>9, <4>1, <4>3, <5>1
          <5>2. CASE j # Len(queue) + 1
            <6>1. j \in DOMAIN queue /\ queue'[j] = queue[j]
              BY <2>8, <5>2
            <6> QED BY <2>9, <4>1, <4>3, <6>1 DEF AnswersMatchTasks
          <5> QED BY <5>1, <5>2
        <4> QED BY <4>2, <4>3
      <3> QED BY <3>1, <3>2
    <2> QED BY <1>1, <2>3, <2>5, <2>9 DEF AnswersMatchTasks, TasksNumbered
  <1>10. CASE Deliver
    <2>1. ASSUME NEW k \in Control, NEW answered \in SUBSET pool, ReloadState(k, answered),
                 \A t \in answered : t.num = Head(queue).num
          PROVE  AnswersMatchTasks'
      <3>1. ptr # NoConn /\ AddNewTask(k, "reload", answered)
        BY <1>10, <2>1, Delivered DEF ReloadState
      <3>2. NewTask(counter + 1, k, ptr, "reload").num = counter + 1
        BY DEF NewTask
      <3>3. /\ pool \ answered \subseteq pool'
            /\ \A t \in pool' : t \in pool \ answered \/ t = NewTask(counter + 1, k, ptr, "reload")
        BY <1>1, <3>1, NewTaskAdded
      <3> QED BY <1>1, <1>10, <2>1, <3>2, <3>3, AnswerDelivered
    <2>2. CASE Head(queue).ctl \in Control /\ ReloadState(Head(queue).ctl, {})
      BY <2>1, <2>2
    <2>3. ASSUME NEW t \in pool, t.num = Head(queue).num, t \in Task, ResultReceived(t)
          PROVE  AnswersMatchTasks'
      <3>1. CASE ChangeSucceeded(t)
        BY <2>1, <2>3, <3>1 DEF ChangeSucceeded, Task
      <3>2. CASE ListReceived(t) \/ ChangeFailed(t)
        <4>1. pool' = pool \ {t}
          BY <3>2 DEF ListReceived, ChangeFailed
        <4> QED BY <1>1, <1>10, <2>3, <4>1, AnswerDelivered
      <3> QED BY <2>3, <3>1, <3>2 DEF ResultReceived
    <2> QED BY <1>10, <2>2, <2>3, Delivered
  <1>11. ASSUME NEW c \in Conn, OpenConnection(c) \/ CloseConnection(c) \/ RemoteClose(c) \/ OverviewOfOther(c)
         PROVE  AnswersMatchTasks'
    BY <1>2, <1>11 DEF OpenConnection, CloseConnection, RemoteClose, OverviewOfOther, taskVars
  <1>12. CASE CloseOverview
    BY <1>2, <1>12 DEF CloseOverview, taskVars
  <1>13. CASE UNCHANGED vars
    BY <1>2, <1>13 DEF vars, taskVars
  <1> QED BY <1>3, <1>5, <1>6, <1>7, <1>8, <1>9, <1>10, <1>11, <1>12, <1>13 DEF Next, Thread

\* A posted result finds its thread in the pool, once, whatever happened since.
THEOREM AnswersFindTasks == Spec => []AnswersMatchTasks
  BY TypeInitially, AnswersInitially, TypeStep, AnswersStep, PTL DEF Spec

----------------------------------------------------------------------------
(* What the connection list and the lists of the controls wait for.        *)

\* The tasks of a thread step: the same kinds of task for the same controls.
LEMMA ThreadKeepsReloads ==
    ASSUME TypeInv, NEW t \in pool, Compute(t) \/ PostResult(t), NEW k \in Control, Reloading(k)
    PROVE  Reloading(k)'
  <1>1. t \in Task
    BY DEF TypeInv, TypeOK
  <1>2. PICK u : Replace(t, u) /\ u.kind = t.kind /\ u.ctl = t.ctl
    <2>1. CASE PostResult(t)
      <3>1. LET u == [t EXCEPT !.step = "posted"] IN u.kind = t.kind /\ u.ctl = t.ctl
        BY <1>1 DEF Task
      <3> QED BY <2>1, <3>1 DEF PostResult
    <2>2. CASE Compute(t) /\ t.kind = "reload"
      <3> DEFINE u == [t EXCEPT !.step = "computed", !.ok = (handle[t.conn] = "open"),
                                !.seen = version[t.conn][t.ctl]]
      <3>1. Replace(t, u)
        BY <2>2 DEF Compute
      <3>2. u.kind = t.kind /\ u.ctl = t.ctl
        BY <1>1 DEF Task
      <3> QED BY <3>1, <3>2
    <2>3. CASE Compute(t) /\ t.kind # "reload"
      <3>1. \A b \in BOOLEAN : LET u == [t EXCEPT !.step = "computed", !.ok = b]
                               IN  u.kind = t.kind /\ u.ctl = t.ctl
        BY <1>1 DEF Task
      <3>2. \/ Replace(t, [t EXCEPT !.step = "computed", !.ok = FALSE])
            \/ Replace(t, [t EXCEPT !.step = "computed", !.ok = TRUE])
        BY <2>3 DEF Compute
      <3> QED BY <3>1, <3>2
    <2> QED BY <2>1, <2>2, <2>3
  <1>3. pool' = (pool \ {t}) \cup {u}
    BY <1>2 DEF Replace
  <1> QED BY <1>2, <1>3 DEF Reloading

\* An outstanding reload stays outstanding until its result has filled the list
\* and has been announced to the main window.
LEMMA ReloadsKept ==
    ASSUME TypeInv, [Next]_vars, NEW k \in Control, Reloading(k)
    PROVE  Reloading(k)' \/ (listEnabled'[k] /\ k \in updated')
  <1>1. TypeOK /\ TasksNumbered /\ listEnabled \in [Control -> BOOLEAN]
    BY DEF TypeInv, TypeOK
  <1>2. CASE pool \subseteq pool'
    BY <1>2 DEF Reloading
  <1>3. ASSUME NEW c \in Conn, Overview(c) PROVE pool \subseteq pool'
    BY <1>1, <1>3, OverviewOrdersReloads DEF Overview
  <1>4. ASSUME NEW l \in Control, Reload(l) PROVE pool \subseteq pool'
    BY <1>1, <1>4, NewTaskAdded DEF Reload, ReloadState
  <1>5. ASSUME NEW l \in Control, ExecAction(l) PROVE pool \subseteq pool'
    BY <1>1, <1>5, NewTaskAdded DEF ExecAction, TypeInv, PointerGiven
  <1>6. CASE Deliver
    <2>1. ASSUME NEW l \in Control, NEW answered, ReloadState(l, answered)
          PROVE  pool \ answered \subseteq pool'
      BY <1>1, <1>6, <2>1, NewTaskAdded, Delivered DEF ReloadState
    <2>2. ASSUME NEW t \in pool, t \in Task, ResultReceived(t)
          PROVE  Reloading(k)' \/ (listEnabled'[k] /\ k \in updated')
      <3>1. CASE ListReceived(t)
        <4>1. CASE t.ctl = k
          BY <1>1, <3>1, <4>1 DEF ListReceived, EntityControlUpdated
        <4>2. CASE t.ctl # k
          BY <3>1, <4>2 DEF ListReceived, Reloading
        <4> QED BY <4>1, <4>2
      <3>2. CASE ChangeSucceeded(t)
        BY <2>1, <2>2, <3>2 DEF ChangeSucceeded, Reloading, Task
      <3>3. CASE ChangeFailed(t)
        BY <3>3 DEF ChangeFailed, Reloading
      <3> QED BY <2>2, <3>1, <3>2, <3>3 DEF ResultReceived
    <2>3. CASE Head(queue).ctl \in Control /\ ReloadState(Head(queue).ctl, {})
      BY <1>2, <2>1, <2>3
    <2> QED BY <1>6, <2>2, <2>3, Delivered
  <1>7. ASSUME NEW t \in pool, Compute(t) \/ PostResult(t) PROVE Reloading(k)'
    BY <1>7, ThreadKeepsReloads
  <1>8. CASE UNCHANGED pool
    BY <1>2, <1>8
  <1>9. ASSUME NEW c \in Conn, OpenConnection(c) \/ CloseConnection(c) \/ RemoteClose(c) \/ OverviewOfOther(c)
        PROVE  UNCHANGED pool
    BY <1>9 DEF OpenConnection, CloseConnection, RemoteClose, OverviewOfOther, taskVars
  <1>10. ASSUME NEW l \in Control, HypervisorEvent(l) PROVE UNCHANGED pool
    BY <1>10 DEF HypervisorEvent, taskVars
  <1>11. CASE CloseOverview
    BY <1>8, <1>11 DEF CloseOverview, taskVars
  <1>12. CASE UNCHANGED vars
    BY <1>8, <1>12 DEF vars, taskVars
  <1> QED BY <1>2, <1>3, <1>4, <1>5, <1>6, <1>7, <1>8, <1>9, <1>10, <1>11, <1>12 DEF Next, Thread

\* What a step does to the main window: nothing, an overview, or one more list
\* that has been announced.
LEMMA WindowStep ==
    ASSUME TypeInv, [Next]_vars
    PROVE  \/ UNCHANGED windowVars
           \/ \E c \in Conn : Overview(c)
           \/ /\ updated \subseteq updated'
              /\ connList' = (connList \/ updated' = Control)
  <1>1. CASE Deliver
    <2>1. ASSUME NEW t \in pool, ResultReceived(t)
          PROVE  \/ UNCHANGED windowVars
                 \/ /\ updated \subseteq updated'
                    /\ connList' = (connList \/ updated' = Control)
      BY <2>1 DEF ResultReceived, ListReceived, EntityControlUpdated, ChangeSucceeded, ChangeFailed
    <2> QED BY <1>1, <2>1, Delivered DEF windowVars
  <1>2. ASSUME NEW c \in Conn, OpenConnection(c) \/ CloseConnection(c) \/ RemoteClose(c) \/ OverviewOfOther(c)
        PROVE  UNCHANGED windowVars
    BY <1>2 DEF OpenConnection, CloseConnection, RemoteClose, OverviewOfOther
  <1>3. ASSUME NEW k \in Control, Reload(k) \/ ExecAction(k) \/ HypervisorEvent(k)
        PROVE  UNCHANGED windowVars
    BY <1>3 DEF Reload, ExecAction, HypervisorEvent
  <1>4. ASSUME NEW t \in pool, Compute(t) \/ PostResult(t) PROVE UNCHANGED windowVars
    BY <1>4 DEF Compute, PostResult
  <1>5. CASE CloseOverview
    BY <1>5 DEF CloseOverview
  <1>6. CASE UNCHANGED vars
    BY <1>6 DEF vars
  <1> QED BY <1>1, <1>2, <1>3, <1>4, <1>5, <1>6 DEF Next, Thread

\* No step leaves the connection list waiting for nothing.
LEMMA HandshakeStep == TypeInv /\ HandshakeHasCause /\ [Next]_vars => HandshakeHasCause'
  <1> SUFFICES ASSUME TypeInv, HandshakeHasCause, [Next]_vars, ~connList'
               PROVE  updated' # Control /\ \A k \in Control \ updated' : Reloading(k)'
    BY DEF HandshakeHasCause, Reloading
  <1>1. CASE \E c \in Conn : Overview(c)
    <2>1. PICK c \in Conn : Overview(c)
      BY <1>1
    <2>2. updated' = {} /\ ShowInControls(c)
      BY <2>1 DEF Overview
    <2>3. 1 \in Control
      BY WarehouseAssumption DEF Control
    <2>4. \A k \in Control : NewTask(counter + k, k, c, "reload") \in pool'
      BY <2>2, OverviewOrdersReloads DEF TypeInv
    <2>5. \A k \in Control : /\ NewTask(counter + k, k, c, "reload").kind = "reload"
                             /\ NewTask(counter + k, k, c, "reload").ctl = k
      BY DEF NewTask
    <2> QED BY <2>2, <2>3, <2>4, <2>5 DEF Reloading
  <1>2. CASE ~connList /\ updated \subseteq updated' /\ updated' # Control
    <2>1. \A k \in Control \ updated' : Reloading(k)
      BY <1>2 DEF HandshakeHasCause
    <2> QED BY <1>2, <2>1, ReloadsKept
  <1>3. CASE UNCHANGED windowVars
    BY <1>2, <1>3 DEF windowVars, HandshakeHasCause
  <1> QED BY <1>1, <1>2, <1>3, WindowStep

\* The connection list waits only for reloads that are on their way.
THEOREM HandshakeCaused == Spec => []HandshakeHasCause
  <1>1. Init => HandshakeHasCause
    BY DEF Init, HandshakeHasCause
  <1> QED BY <1>1, TypeInitially, TypeStep, HandshakeStep, PTL DEF Spec

\* What a step does to docks on view: they were on view with the same pointer,
\* have been told of everything if they are now, and a list that it disables has
\* a new reload; or it is an overview.
LEMMA DocksStep ==
    ASSUME TypeInv, [Next]_vars, active'
    PROVE  \/ \E c \in Conn : Overview(c)
           \/ /\ active /\ ptr' = ptr
              /\ ~untold' => ~untold /\ (handle'[ptr] = handle[ptr] \/ handle'[ptr] # "null")
              /\ \A k \in Control : listEnabled[k] => listEnabled'[k] \/ handle[ptr] = "null" \/ Reloading(k)'
  <1> USE DEF controlVars, viewVars
  <1>1. /\ TypeOK /\ TasksNumbered
        /\ listEnabled \in [Control -> BOOLEAN]
        /\ handle \in [Conn -> {"null", "open", "dead"}]
        /\ ptr = NoConn => ~active
    BY DEF TypeInv, TypeOK, PointerGiven
  <1>2. ASSUME NEW k \in Control, NEW answered, ReloadState(k, answered), ptr # NoConn
        PROVE  /\ \A l \in Control : l # k => listEnabled'[l] = listEnabled[l]
               /\ handle[ptr] = "null" \/ Reloading(k)'
    <2>1. /\ NewTask(counter + 1, k, ptr, "reload").kind = "reload"
          /\ NewTask(counter + 1, k, ptr, "reload").ctl = k
      BY DEF NewTask
    <2>2. handle[ptr] # "null" => NewTask(counter + 1, k, ptr, "reload") \in pool'
      BY <1>1, <1>2, NewTaskAdded DEF ReloadState
    <2>3. \A l \in Control : l # k => listEnabled'[l] = listEnabled[l]
      BY <1>1, <1>2 DEF ReloadState
    <2> QED BY <2>1, <2>2, <2>3 DEF Reloading
  <1>3. CASE Deliver
    <2>1. /\ active' = active /\ ptr' = ptr /\ handle' = handle /\ ptr # NoConn
          /\ untold' = untold
      BY <1>3, Delivered DEF Deliver
    <2>2. ASSUME NEW t \in pool, t \in Task, ResultReceived(t), NEW k \in Control, listEnabled[k]
          PROVE  listEnabled'[k] \/ handle[ptr] = "null" \/ Reloading(k)'
      <3>1. CASE ListReceived(t)
        BY <1>1, <2>2, <3>1 DEF ListReceived
      <3>2. CASE ChangeSucceeded(t)
        BY <1>2, <2>1, <2>2, <3>2 DEF ChangeSucceeded, Task
      <3>3. CASE ChangeFailed(t)
        BY <2>2, <3>3 DEF ChangeFailed
      <3> QED BY <2>2, <3>1, <3>2, <3>3 DEF ResultReceived
    <2>3. ASSUME Head(queue).ctl \in Control, ReloadState(Head(queue).ctl, {}),
                 NEW k \in Control, listEnabled[k]
          PROVE  listEnabled'[k] \/ handle[ptr] = "null" \/ Reloading(k)'
      BY <1>2, <2>1, <2>3
    <2> QED BY <1>3, <2>1, <2>2, <2>3, Delivered
  <1>4. ASSUME NEW k \in Control, Reload(k)
        PROVE  /\ active' = active /\ ptr' = ptr /\ handle' = handle /\ untold' = untold
               /\ \A l \in Control : listEnabled[l] => listEnabled'[l] \/ handle[ptr] = "null" \/ Reloading(l)'
    BY <1>2, <1>4 DEF Reload
  <1>5. ASSUME NEW k \in Control, ExecAction(k) \/ HypervisorEvent(k)
        PROVE  UNCHANGED <<handle, ptr, active, listEnabled, untold>>
    BY <1>5 DEF ExecAction, HypervisorEvent
  <1>6. ASSUME NEW t \in pool, Compute(t) \/ PostResult(t)
        PROVE  UNCHANGED <<handle, ptr, active, listEnabled, untold>>
    BY <1>6 DEF Compute, PostResult
  <1>7. ASSUME NEW c \in Conn, OpenConnection(c) \/ RemoteClose(c) \/ OverviewOfOther(c)
        PROVE  /\ UNCHANGED <<ptr, active, listEnabled>>
               /\ ~untold' => ~untold
               /\ \A d \in Conn : handle'[d] = handle[d] \/ handle'[d] # "null"
    <2>1. CASE OpenConnection(c)
      BY <1>1, <2>1 DEF OpenConnection, DocksUntold
    <2>2. CASE RemoteClose(c)
      <3>1. ~StopProcessing
        BY DEF StopProcessing
      <3> QED BY <1>1, <2>2, <3>1 DEF RemoteClose
    <2>3. CASE OverviewOfOther(c)
      BY <2>3 DEF OverviewOfOther
    <2> QED BY <1>7, <2>1, <2>2, <2>3
  <1>8. ASSUME NEW c \in Conn, CloseConnection(c)
        PROVE  /\ UNCHANGED <<ptr, active, listEnabled>>
               /\ ~untold' => ~untold /\ ~(active /\ ptr = c)
               /\ \A d \in Conn : d # c => handle'[d] = handle[d]
    BY <1>1, <1>8 DEF CloseConnection, StopProcessing, DocksUntold
  <1>9. CASE CloseOverview
    BY <1>9 DEF CloseOverview, StopProcessing
  <1>10. CASE UNCHANGED vars
    BY <1>10 DEF vars
  <1>11. active => ptr \in Conn
    BY <1>1 DEF TypeOK
  <1> QED BY <1>3, <1>4, <1>5, <1>6, <1>7, <1>8, <1>9, <1>10, <1>11 DEF Next, Thread

\* No step leaves a list on view disabled with nothing to enable it again.
LEMMA DisabledStep == TypeInv /\ DisabledListIsAwaited /\ [Next]_vars => DisabledListIsAwaited'
  <1> SUFFICES ASSUME TypeInv, DisabledListIsAwaited, [Next]_vars, active', ~untold'
               PROVE  /\ handle'[ptr'] # "null"
                      /\ \A k \in Control : ~listEnabled'[k] => Reloading(k)'
    BY DEF DisabledListIsAwaited, Reloading
  <1>1. CASE \E c \in Conn : Overview(c)
    <2>1. PICK c \in Conn : Overview(c)
      BY <1>1
    <2>2. handle' = handle /\ ptr' = c /\ handle[c] # "null" /\ ShowInControls(c)
      BY <2>1 DEF Overview, ShowInControls
    <2>3. \A k \in Control : NewTask(counter + k, k, c, "reload") \in pool'
      BY <2>2, OverviewOrdersReloads DEF TypeInv
    <2>4. \A k \in Control : /\ NewTask(counter + k, k, c, "reload").kind = "reload"
                             /\ NewTask(counter + k, k, c, "reload").ctl = k
      BY DEF NewTask
    <2> QED BY <2>2, <2>3, <2>4 DEF Reloading
  <1>2. CASE /\ active /\ ptr' = ptr
             /\ ~untold' => ~untold /\ (handle'[ptr] = handle[ptr] \/ handle'[ptr] # "null")
             /\ \A k \in Control : listEnabled[k] => listEnabled'[k] \/ handle[ptr] = "null" \/ Reloading(k)'
    <2>1. handle[ptr] # "null" /\ \A k \in Control : ~listEnabled[k] => Reloading(k)
      BY <1>2 DEF DisabledListIsAwaited
    <2>2. ASSUME NEW k \in Control, ~listEnabled'[k] PROVE Reloading(k)'
      <3>1. CASE listEnabled[k]
        BY <1>2, <2>1, <2>2, <3>1
      <3>2. CASE ~listEnabled[k]
        BY <2>1, <2>2, <3>2, ReloadsKept
      <3> QED BY <3>1, <3>2
    <2> QED BY <1>2, <2>1, <2>2
  <1> QED BY <1>1, <1>2, DocksStep

\* A list on view is disabled only while a reload is outstanding.
THEOREM DisabledListsAwaited == Spec => []DisabledListIsAwaited
  <1>1. Init => DisabledListIsAwaited
    BY DEF Init, DisabledListIsAwaited
  <1> QED BY <1>1, TypeInitially, TypeStep, DisabledStep, PTL DEF Spec
----------------------------------------------------------------------------
(* What patient users see.                                                 *)

\* A thread on view is that of the connection that the docks show, so that its
\* end empties them; and docks hold a freed handle only if it was freed behind
\* their back.
DocksAreOpen ==
    /\ onView # NoConn => active /\ ptr = onView
    /\ active => ptr \in Conn /\ (handle[ptr] = "null" => untold)

\* The docks show an open connection, the one they were given.
Told == active /\ ~untold /\ handle[ptr] = "open"

\* What is outstanding concerns the connection whose pointer the controls hold.
TasksOfPointer == \A t \in pool : t.conn = ptr

\* A task that changes something is alone in the pool.
ChangesAlone == \A t \in pool : t.kind = "change" => pool = {t}

\* An event of the hypervisor is the only thing outstanding.
EventsAlone == \A i \in DOMAIN queue : queue[i].num = 0 => pool = {} /\ Len(queue) = 1

\* A control lists what the hypervisor of the connection shown has.
IsTrue(k) == list[k] = [of |-> ptr, seen |-> version[ptr][k]]

\* What a reload has read is still so.
ReadIsTrue == Told =>
    \A t \in pool : t.kind = "reload" /\ t.step # "running" =>
        t.ok /\ t.seen = version[ptr][t.ctl]

\* A list that is not what the hypervisor has is about to be read again, unless
\* nobody heard of the change.
Changed(k)   == \E t \in pool : t.kind = "change" /\ t.ctl = k /\ t.step # "running" /\ t.ok
Announced(k) == \E i \in DOMAIN queue : queue[i] = [num |-> 0, ctl |-> k]
StaleIsAwaited == Told =>
    \A k \in Control \ missed : IsTrue(k) \/ Reloading(k) \/ Changed(k) \/ Announced(k)

PatientState ==
    /\ TasksOfPointer
    /\ ChangesAlone
    /\ EventsAlone
    /\ ReadIsTrue
    /\ StaleIsAwaited

PatientInv == ~pace.hurried => PatientState

\* Nobody changes how people act.
LEMMA PaceKept == [Next]_vars => pace' = pace
  BY DEF Next, vars, hyperVars, Change, OpenConnection, CloseConnection, RemoteClose,
         Overview, OverviewOfOther, ShowInControls, Reload, ExecAction, HypervisorEvent, CloseOverview,
         Thread, Compute, PostResult, Deliver

\* Initially the docks are empty.
LEMMA PatientInitially == Init => PatientInv
  BY DEF Init, PatientInv, PatientState, TasksOfPointer, ChangesAlone, EventsAlone,
         ReadIsTrue, StaleIsAwaited, Told

\* No step puts a thread on view that is not the one of the docks, or frees the
\* handle they hold without leaving them untold.
LEMMA DocksStayOpen == TypeInv /\ DocksAreOpen /\ [Next]_vars => DocksAreOpen'
  <1> SUFFICES ASSUME TypeInv, DocksAreOpen, [Next]_vars PROVE DocksAreOpen'
    OBVIOUS
  <1> USE DEF DocksAreOpen, controlVars, viewVars
  <1>0. handle \in [Conn -> {"null", "open", "dead"}] /\ NoConn \notin Conn
    BY WarehouseAssumption DEF TypeInv, TypeOK
  <1>1. ASSUME NEW c \in Conn, OpenConnection(c) PROVE DocksAreOpen'
    BY <1>0, <1>1 DEF OpenConnection, DocksUntold
  <1>2. ASSUME NEW c \in Conn, CloseConnection(c) PROVE DocksAreOpen'
    <2>1. CASE StopProcessing
      BY <1>2, <2>1 DEF CloseConnection, StopProcessing
    <2>2. CASE DocksUntold(c)
      BY <1>0, <1>2, <2>2 DEF CloseConnection, DocksUntold
    <2> QED BY <1>2, <2>1, <2>2 DEF CloseConnection
  <1>3. ASSUME NEW c \in Conn, RemoteClose(c) PROVE DocksAreOpen'
    BY <1>0, <1>3 DEF RemoteClose, StopProcessing
  <1>4. ASSUME NEW c \in Conn, Overview(c) PROVE DocksAreOpen'
    BY <1>4 DEF Overview, ShowInControls
  <1>5. ASSUME NEW c \in Conn, OverviewOfOther(c) PROVE DocksAreOpen'
    BY <1>5 DEF OverviewOfOther
  <1>6. CASE UNCHANGED <<handle, ptr, active, onView, untold>>
    BY <1>6
  <1>7. ASSUME NEW k \in Control, Reload(k) \/ ExecAction(k) \/ HypervisorEvent(k)
        PROVE  UNCHANGED <<handle, ptr, active, onView, untold>>
    BY <1>7 DEF Reload, ExecAction, HypervisorEvent
  <1>8. CASE CloseOverview
    BY <1>8 DEF CloseOverview, StopProcessing
  <1>9. ASSUME NEW t \in pool, Compute(t) \/ PostResult(t)
        PROVE  UNCHANGED <<handle, ptr, active, onView, untold>>
    BY <1>9 DEF Compute, PostResult
  <1>10. CASE Deliver
    BY <1>6, <1>10 DEF Deliver
  <1>11. CASE UNCHANGED vars
    BY <1>6, <1>11 DEF vars
  <1> QED BY <1>1, <1>2, <1>3, <1>4, <1>5, <1>6, <1>7, <1>8, <1>9, <1>10, <1>11 DEF Next, Thread

\* A step that touches neither tasks nor events nor entities, and no list that
\* stays on view.
LEMMA PatienceKept ==
    ASSUME PatientState, UNCHANGED <<ptr, pool, queue, version>>,
           Told' => Told /\ UNCHANGED <<list, missed>>
    PROVE  PatientState'
  BY DEF PatientState, TasksOfPointer, ChangesAlone, EventsAlone, ReadIsTrue, StaleIsAwaited,
         Reloading, Changed, Announced, IsTrue

\* The steps of the connections, and the close of the overview, do that.
LEMMA ConnectionPatient ==
    ASSUME TypeInv, PatientState,
           \/ \E c \in Conn : \/ OpenConnection(c) \/ CloseConnection(c)
                              \/ RemoteClose(c) \/ OverviewOfOther(c)
           \/ CloseOverview
    PROVE  PatientState'
  <1> USE DEF Told, controlVars, viewVars
  <1>0. handle \in [Conn -> {"null", "open", "dead"}] /\ (active => ptr \in Conn)
    BY DEF TypeInv, TypeOK, PointerGiven
  <1>1. UNCHANGED <<pool, queue, version>>
    BY DEF OpenConnection, CloseConnection, RemoteClose, OverviewOfOther, CloseOverview,
           hyperVars, taskVars
  <1>2. ptr' = ptr
    BY DEF OpenConnection, CloseConnection, RemoteClose, OverviewOfOther, CloseOverview,
           StopProcessing, DocksUntold
  <1>3. ASSUME NEW c \in Conn, OpenConnection(c) PROVE Told' => Told /\ UNCHANGED <<list, missed>>
    BY <1>0, <1>3 DEF OpenConnection, DocksUntold
  <1>4. ASSUME NEW c \in Conn, CloseConnection(c) PROVE Told' => Told /\ UNCHANGED <<list, missed>>
    BY <1>0, <1>4 DEF CloseConnection, DocksUntold, StopProcessing
  <1>5. ASSUME NEW c \in Conn, RemoteClose(c) PROVE Told' => Told /\ UNCHANGED <<list, missed>>
    BY <1>0, <1>5 DEF RemoteClose, StopProcessing
  <1>6. ASSUME NEW c \in Conn, OverviewOfOther(c) PROVE Told' => Told /\ UNCHANGED <<list, missed>>
    BY <1>6 DEF OverviewOfOther
  <1>7. ASSUME CloseOverview PROVE Told' => Told /\ UNCHANGED <<list, missed>>
    BY <1>7 DEF CloseOverview, StopProcessing
  <1> QED BY <1>1, <1>2, <1>3, <1>4, <1>5, <1>6, <1>7, PatienceKept

\* An overview starts from an empty pool: every list is about to be read.
LEMMA OverviewPatient ==
    ASSUME TypeInv, ~pace.hurried, NEW c \in Conn, Overview(c)
    PROVE  PatientState'
  <1>1. pool = {} /\ queue = <<>> /\ ShowInControls(c)
    BY DEF Overview, MayAct, Quiet
  <1>2. queue' = <<>> /\ ptr' = c
    BY <1>1 DEF ShowInControls
  <1>3. /\ \A k \in Control : NewTask(counter + k, k, c, "reload") \in pool'
        /\ \A t \in pool' : \E k \in Control : t = NewTask(counter + k, k, c, "reload")
    BY <1>1, OverviewOrdersReloads DEF TypeInv
  <1>4. \A k \in Control : LET t == NewTask(counter + k, k, c, "reload")
                           IN  t.conn = c /\ t.kind = "reload" /\ t.ctl = k /\ t.step = "running"
    BY DEF NewTask
  <1>5. TasksOfPointer' /\ ChangesAlone' /\ ReadIsTrue'
    BY <1>2, <1>3, <1>4 DEF TasksOfPointer, ChangesAlone, ReadIsTrue
  <1>6. StaleIsAwaited'
    BY <1>3, <1>4 DEF StaleIsAwaited, Reloading
  <1>7. EventsAlone'
    BY <1>2 DEF EventsAlone
  <1> QED BY <1>5, <1>6, <1>7 DEF PatientState

\* The first order after all answers are in.
LEMMA OrderPatient ==
    ASSUME TypeInv, PatientState, pool = {}, queue = <<>>, ptr # NoConn,
           NEW k \in Control, NEW kind \in {"reload", "change"}, AddNewTask(k, kind, {}),
           UNCHANGED <<ptr, handle, active, untold, missed, list, version, queue>>
    PROVE  PatientState'
  <1>0. Told' = Told
    BY DEF Told
  <1> DEFINE u == NewTask(counter + 1, k, ptr, kind)
  <1>1. \A t \in pool' : t = u
    BY NewTaskAdded DEF TypeInv
  <1>2. u.conn = ptr /\ u.step = "running"
    BY DEF NewTask
  <1>3. TasksOfPointer' /\ ReadIsTrue'
    BY <1>1, <1>2 DEF TasksOfPointer, ReadIsTrue
  <1>4. ChangesAlone'
    BY <1>1 DEF ChangesAlone
  <1>5. EventsAlone'
    BY DEF EventsAlone
  <1>6. Told => \A l \in Control \ missed : IsTrue(l)
    BY DEF PatientState, StaleIsAwaited, Reloading, Changed, Announced
  <1>7. StaleIsAwaited'
    BY <1>0, <1>6 DEF StaleIsAwaited, IsTrue
  <1> QED BY <1>3, <1>4, <1>5, <1>7 DEF PatientState

\* The hypervisor announces what has changed, or nobody hears of it.
LEMMA EventPatient ==
    ASSUME TypeInv, PatientState, pool = {}, queue = <<>>,
           NEW k \in Control, HypervisorEvent(k)
    PROVE  PatientState'
  <1>1. ptr \in Conn /\ UNCHANGED <<ptr, active, handle, untold, list, pool>> /\ Change(ptr, k)
    BY DEF HypervisorEvent, TypeInv, TypeOK, PointerGiven, controlVars, taskVars
  <1>2. \/ queue' = <<[num |-> 0, ctl |-> k]>> /\ missed' = missed
        \/ queue' = <<>> /\ missed' = missed \cup {k}
    BY DEF HypervisorEvent
  <1>3. TasksOfPointer' /\ ReadIsTrue' /\ ChangesAlone'
    BY <1>1 DEF TasksOfPointer, ReadIsTrue, ChangesAlone
  <1>4. EventsAlone'
    BY <1>1, <1>2 DEF EventsAlone
  <1>5. Told => \A l \in Control \ missed : IsTrue(l)
    BY DEF PatientState, StaleIsAwaited, Reloading, Changed, Announced
  <1>6. Announced(k)' \/ k \in missed'
    BY <1>2 DEF Announced
  <1>7. \A l \in Control : l # k => version'[ptr][l] = version[ptr][l]
    BY <1>1 DEF Change, TypeInv, TypeOK
  <1>8. missed \subseteq missed' /\ Told' = Told
    BY <1>1, <1>2 DEF Told
  <1>9. ASSUME Told', NEW l \in Control \ missed' PROVE IsTrue(l)' \/ Announced(l)'
    <2>1. CASE l = k
      BY <1>6, <1>9, <2>1
    <2>2. CASE l # k
      BY <1>1, <1>5, <1>7, <1>8, <1>9, <2>2 DEF IsTrue
    <2> QED BY <2>1, <2>2
  <1>10. StaleIsAwaited'
    BY <1>9 DEF StaleIsAwaited
  <1> QED BY <1>3, <1>4, <1>10 DEF PatientState

\* A task is outstanding: no event is.
LEMMA NoEventNow ==
    ASSUME PatientState, NEW t \in pool
    PROVE  \A i \in DOMAIN queue : queue[i].num # 0
  BY DEF PatientState, EventsAlone

\* A thread that moves on, while what the hypervisor has stays: what is
\* outstanding stays, if the moved task has read what is so.
LEMMA MovePatient ==
    ASSUME TypeInv, PatientState, NEW t \in pool, NEW u \in Task, Replace(t, u),
           u.conn = t.conn, u.kind = t.kind, u.ctl = t.ctl, u.step # "running",
           Told /\ u.kind = "reload" => u.ok /\ u.seen = version[ptr][u.ctl],
           t.kind = "change" /\ t.step # "running" /\ t.ok => u.ok,
           UNCHANGED <<ptr, handle, active, untold, missed, list, version>>,
           \A i \in DOMAIN queue' : queue'[i].num # 0
    PROVE  PatientState'
  <1>1. pool' = (pool \ {t}) \cup {u} /\ u \in pool' /\ Told' = Told
    BY DEF Replace, Told
  <1>2. TasksOfPointer'
    BY <1>1 DEF PatientState, TasksOfPointer
  <1>3. ChangesAlone'
    BY <1>1 DEF PatientState, ChangesAlone
  <1>4. ReadIsTrue'
    BY <1>1 DEF PatientState, ReadIsTrue
  <1>5. EventsAlone'
    BY DEF EventsAlone
  <1>6. ASSUME NEW k \in Control \ missed, Told PROVE (IsTrue(k) \/ Reloading(k) \/ Changed(k))'
    <2>1. IsTrue(k) \/ Reloading(k) \/ Changed(k)
      <3>1. ~Announced(k)
        BY NoEventNow DEF Announced
      <3> QED BY <1>6, <3>1 DEF PatientState, StaleIsAwaited
    <2>2. CASE IsTrue(k)
      BY <2>2 DEF IsTrue
    <2>3. CASE Reloading(k)
      BY <1>1, <2>3 DEF Reloading
    <2>4. CASE Changed(k)
      BY <1>1, <2>4 DEF Changed
    <2> QED BY <2>1, <2>2, <2>3, <2>4
  <1>7. StaleIsAwaited'
    BY <1>1, <1>6 DEF StaleIsAwaited
  <1> QED BY <1>2, <1>3, <1>4, <1>5, <1>7 DEF PatientState

\* A change that succeeds is the only task: its list alone is out of date.
LEMMA ChangePatient ==
    ASSUME TypeInv, PatientState, NEW t \in pool, NEW u \in Task, Replace(t, u),
           u.conn = t.conn, u.kind = "change", t.kind = "change", u.ctl = t.ctl,
           u.step # "running", u.ok, t.step = "running", Change(t.conn, t.ctl),
           UNCHANGED <<ptr, handle, active, untold, missed, list, queue>>
    PROVE  PatientState'
  <1>1. pool = {t} /\ pool' = {u} /\ t.conn = ptr /\ t \in Task /\ Told' = Told
    BY DEF PatientState, ChangesAlone, TasksOfPointer, Replace, TypeInv, TypeOK, Told
  <1>2. ptr \in Conn /\ t.ctl \in Control
    BY <1>1 DEF Task
  <1>3. TasksOfPointer' /\ ChangesAlone' /\ ReadIsTrue'
    BY <1>1 DEF TasksOfPointer, ChangesAlone, ReadIsTrue
  <1>4. EventsAlone'
    BY NoEventNow DEF EventsAlone
  <1>5. Changed(t.ctl)'
    BY <1>1 DEF Changed
  <1>6. ASSUME NEW k \in Control \ missed, Told, k # t.ctl PROVE IsTrue(k)'
    <2>1. ~Reloading(k) /\ ~Changed(k) /\ ~Announced(k)
      BY <1>1, NoEventNow DEF Reloading, Changed, Announced
    <2>2. IsTrue(k)
      BY <1>6, <2>1 DEF PatientState, StaleIsAwaited
    <2>3. version'[ptr][k] = version[ptr][k]
      BY <1>1, <1>2, <1>6 DEF Change, TypeInv, TypeOK
    <2> QED BY <2>2, <2>3 DEF IsTrue
  <1>7. StaleIsAwaited'
    BY <1>1, <1>2, <1>5, <1>6 DEF StaleIsAwaited
  <1> QED BY <1>3, <1>4, <1>7 DEF PatientState

\* The threads' steps.
LEMMA ThreadPatient ==
    ASSUME TypeInv, PatientState, NEW t \in pool, Compute(t) \/ PostResult(t)
    PROVE  PatientState'
  <1>1. t \in Task /\ t.conn = ptr /\ t.num # 0 /\ (t.kind = "reload" \/ t.kind = "change")
    BY DEF TypeInv, TypeOK, TasksNumbered, PatientState, TasksOfPointer, Task
  <1>2. UNCHANGED <<ptr, handle, active, untold, missed, list>>
    BY DEF Compute, PostResult, controlVars, viewVars
  <1>3. CASE PostResult(t)
    <2>1. [t EXCEPT !.step = "posted"] \in Task /\ [num |-> t.num, ctl |-> t.ctl] \in Event
      BY <1>1 DEF Task, Event
    <2>2. /\ Replace(t, [t EXCEPT !.step = "posted"]) /\ t.step = "computed"
          /\ version' = version /\ queue' = Append(queue, [num |-> t.num, ctl |-> t.ctl])
      BY <1>3 DEF PostResult, hyperVars
    <2>3. \A i \in DOMAIN queue' : queue'[i].num # 0
      <3>1. /\ DOMAIN queue = 1 .. Len(queue)
            /\ DOMAIN queue' = 1 .. Len(queue) + 1
            /\ \A i \in 1 .. Len(queue) : queue'[i] = queue[i]
            /\ queue'[Len(queue) + 1] = [num |-> t.num, ctl |-> t.ctl]
            /\ Len(queue) \in Nat
        BY <2>1, <2>2, PostedEvent DEF TypeInv, TypeOK
      <3> QED BY <1>1, <3>1, NoEventNow
    <2>4. Told /\ t.kind = "reload" => t.ok /\ t.seen = version[ptr][t.ctl]
      BY <2>2 DEF PatientState, ReadIsTrue
    <2> DEFINE u == [t EXCEPT !.step = "posted"]
    <2>5. /\ u.conn = t.conn /\ u.kind = t.kind /\ u.ctl = t.ctl /\ u.step # "running"
          /\ u.ok = t.ok /\ u.seen = t.seen /\ u = [t EXCEPT !.step = "posted"]
      BY <1>1 DEF Task
    <2> HIDE DEF u
    <2> QED BY <1>2, <2>1, <2>2, <2>3, <2>4, <2>5, MovePatient
  <1>4. CASE Compute(t) /\ t.kind = "reload"
    <2> DEFINE u == [t EXCEPT !.step = "computed", !.ok = (handle[t.conn] = "open"),
                              !.seen = version[t.conn][t.ctl]]
    <2>1. Replace(t, u) /\ version' = version /\ queue' = queue
      BY <1>4 DEF Compute, hyperVars
    <2>2. version[t.conn][t.ctl] \in Nat
      BY <1>1 DEF Task, TypeInv, TypeOK
    <2>3. /\ u \in Task /\ u.conn = t.conn /\ u.kind = t.kind /\ u.ctl = t.ctl /\ u.step # "running"
          /\ u.ok = (handle[t.conn] = "open") /\ u.seen = version[t.conn][t.ctl]
      BY <1>1, <2>2 DEF Task
    <2> HIDE DEF u
    <2>4. Told => u.ok /\ u.seen = version[ptr][u.ctl]
      BY <1>1, <2>3 DEF Told
    <2> QED BY <1>2, <1>4, <2>1, <2>3, <2>4, MovePatient, NoEventNow
  <1>5. CASE Compute(t) /\ t.kind = "change"
    <2> DEFINE u(b) == [t EXCEPT !.step = "computed", !.ok = b]
    <2>1. \A b \in BOOLEAN : /\ u(b) \in Task /\ u(b).conn = t.conn /\ u(b).kind = t.kind
                             /\ u(b).ctl = t.ctl /\ u(b).step # "running" /\ u(b).ok = b
      BY <1>1 DEF Task
    <2>2. /\ t.step = "running" /\ queue' = queue
          /\ \/ Replace(t, u(FALSE)) /\ version' = version
             \/ Replace(t, u(TRUE)) /\ Change(t.conn, t.ctl)
      BY <1>5 DEF Compute, hyperVars
    <2> HIDE DEF u
    <2>3. CASE Replace(t, u(FALSE)) /\ version' = version
      BY <1>2, <1>5, <2>1, <2>2, <2>3, MovePatient, NoEventNow
    <2>4. CASE Replace(t, u(TRUE)) /\ Change(t.conn, t.ctl)
      BY <1>2, <1>5, <2>1, <2>2, <2>4, ChangePatient
    <2> QED BY <2>2, <2>3, <2>4
  <1> QED BY <1>1, <1>3, <1>4, <1>5

\* A delivered event leaves no event behind; a delivered result came while no
\* event was outstanding.
LEMMA NoEventAfter ==
    ASSUME TypeInv, PatientState, Deliver
    PROVE  \A i \in DOMAIN queue' : queue'[i].num # 0
  <1>1. /\ Len(queue) \in Nat \ {0}
        /\ DOMAIN queue = 1 .. Len(queue)
        /\ DOMAIN queue' = 1 .. Len(queue) - 1
        /\ \A i \in 1 .. Len(queue) - 1 : queue'[i] = queue[i + 1]
    BY DeliveredEvent DEF Deliver, TypeInv, TypeOK
  <1> QED BY <1>1 DEF PatientState, EventsAlone

\* A control reloads its list: after an event, or after a change.
LEMMA ReloadPatient ==
    ASSUME TypeInv, PatientState, ptr # NoConn,
           NEW k \in Control, NEW answered \in SUBSET pool, ReloadState(k, answered),
           pool = answered, \A l \in Control : Changed(l) \/ Announced(l) => l = k,
           \A t \in pool : t.kind # "reload",
           UNCHANGED <<ptr, handle, active, untold, missed, list, version>>,
           \A i \in DOMAIN queue' : queue'[i].num # 0
    PROVE  PatientState'
  <1> DEFINE u == NewTask(counter + 1, k, ptr, "reload")
  <1>1. /\ \A t \in pool' : t = u
        /\ handle[ptr] # "null" => u \in pool'
    BY NewTaskAdded DEF TypeInv, ReloadState
  <1>7. Told' = Told
    BY DEF Told
  <1>2. u.conn = ptr /\ u.step = "running" /\ u.kind = "reload" /\ u.ctl = k
    BY DEF NewTask
  <1> HIDE DEF u
  <1>3. TasksOfPointer' /\ ChangesAlone' /\ ReadIsTrue' /\ EventsAlone'
    BY <1>1, <1>2 DEF TasksOfPointer, ChangesAlone, ReadIsTrue, EventsAlone
  <1>4. Told => Reloading(k)'
    BY <1>1, <1>2 DEF Told, Reloading
  <1>5. ASSUME NEW l \in Control \ missed, Told, l # k PROVE IsTrue(l)'
    <2>1. IsTrue(l)
      BY <1>5 DEF PatientState, StaleIsAwaited, Reloading
    <2> QED BY <2>1 DEF IsTrue
  <1>6. StaleIsAwaited'
    BY <1>4, <1>5, <1>7 DEF StaleIsAwaited
  <1> QED BY <1>3, <1>6 DEF PatientState

\* A result is handed in: a list that was read is true, a change has its list
\* read again.
LEMMA DeliverPatient ==
    ASSUME TypeInv, AnswersMatchTasks, PatientState, Deliver
    PROVE  PatientState'
  <1>1. /\ UNCHANGED <<ptr, active, handle, version, untold>> /\ ptr # NoConn
        /\ \A i \in DOMAIN queue' : queue'[i].num # 0
        /\ Told' = Told
    BY NoEventAfter, Delivered DEF Deliver, hyperVars, Told
  <1>2. queue # <<>> /\ 1 \in DOMAIN queue /\ Head(queue) = queue[1]
    BY DeliveredEvent DEF Deliver, TypeInv, TypeOK
  <1>3. CASE /\ Head(queue).num = 0 /\ Head(queue).ctl \in Control
             /\ ReloadState(Head(queue).ctl, {}) /\ UNCHANGED <<list, missed>>
    <2>1. pool = {} /\ Len(queue) = 1
      BY <1>2, <1>3 DEF PatientState, EventsAlone
    <2>2. \A i \in DOMAIN queue : i = 1
      BY <2>1 DEF TypeInv, TypeOK
    <2>3. \A l \in Control : Changed(l) \/ Announced(l) => l = Head(queue).ctl
      BY <1>2, <2>1, <2>2 DEF Changed, Announced
    <2> QED BY <1>1, <1>3, <2>1, <2>3, ReloadPatient
  <1>4. ASSUME NEW t \in pool, Head(queue).num = t.num, t.num # 0, t \in Task, ResultReceived(t)
        PROVE  PatientState'
    <2>1. t.step = "posted" /\ t.conn = ptr /\ t.ctl \in Control /\ (t.kind = "reload" \/ t.kind = "change")
      BY <1>2, <1>4 DEF AnswersMatchTasks, PatientState, TasksOfPointer, Task
    <2>2. \A l \in Control : ~Announced(l)
      BY NoEventNow DEF Announced
    <2>3. CASE ListReceived(t)
      <3>1. pool' = pool \ {t} /\ t.kind = "reload" /\ missed' = missed \ {t.ctl}
        BY <2>3 DEF ListReceived
      <3>2. TasksOfPointer' /\ ReadIsTrue' /\ ChangesAlone' /\ EventsAlone'
        BY <1>1, <3>1 DEF PatientState, TasksOfPointer, ReadIsTrue, ChangesAlone, EventsAlone
      <3>3. ASSUME Told PROVE IsTrue(t.ctl)'
        <4>1. t.ok /\ t.seen = version[ptr][t.ctl]
          BY <2>1, <3>1, <3>3 DEF PatientState, ReadIsTrue
        <4>2. list'[t.ctl] = [of |-> t.conn, seen |-> t.seen]
          BY <2>1, <2>3, <4>1 DEF ListReceived, TypeInv, TypeOK
        <4> QED BY <1>1, <2>1, <4>1, <4>2 DEF IsTrue
      <3>4. ASSUME Told, NEW l \in Control \ missed, l # t.ctl
            PROVE  (IsTrue(l) \/ Reloading(l) \/ Changed(l))'
        <4>1. IsTrue(l) \/ Reloading(l) \/ Changed(l)
          BY <2>2, <3>4 DEF PatientState, StaleIsAwaited
        <4>2. CASE IsTrue(l)
          <5>1. list'[l] = list[l]
            BY <2>3, <3>4 DEF ListReceived, TypeInv, TypeOK
          <5> QED BY <1>1, <4>2, <5>1 DEF IsTrue
        <4>3. CASE Reloading(l)
          BY <3>1, <3>4, <4>3 DEF Reloading
        <4>4. CASE Changed(l)
          BY <3>1, <3>4, <4>4 DEF Changed
        <4> QED BY <4>1, <4>2, <4>3, <4>4
      <3>5. StaleIsAwaited'
        BY <1>1, <3>1, <3>3, <3>4 DEF StaleIsAwaited
      <3> QED BY <3>2, <3>5 DEF PatientState
    <2>4. CASE ChangeSucceeded(t)
      <3>1. pool = {t} /\ ReloadState(t.ctl, {t}) /\ UNCHANGED <<list, missed>>
        BY <2>4 DEF ChangeSucceeded, PatientState, ChangesAlone
      <3>2. \A l \in Control : Changed(l) \/ Announced(l) => l = t.ctl
        BY <2>2, <3>1 DEF Changed
      <3>3. \A s \in pool : s.kind # "reload"
        BY <2>4, <3>1 DEF ChangeSucceeded
      <3> QED BY <1>1, <2>1, <3>1, <3>2, <3>3, ReloadPatient
    <2>5. CASE ChangeFailed(t)
      <3>1. pool = {t} /\ pool' = {} /\ UNCHANGED <<list, missed>> /\ ~t.ok /\ t.kind = "change"
        BY <2>5 DEF ChangeFailed, PatientState, ChangesAlone
      <3>2. TasksOfPointer' /\ ReadIsTrue' /\ ChangesAlone' /\ EventsAlone'
        BY <1>1, <3>1 DEF TasksOfPointer, ReadIsTrue, ChangesAlone, EventsAlone
      <3>3. Told => \A l \in Control \ missed : IsTrue(l)
        BY <2>2, <3>1 DEF PatientState, StaleIsAwaited, Reloading, Changed
      <3>4. StaleIsAwaited'
        BY <1>1, <3>1, <3>3 DEF StaleIsAwaited, IsTrue
      <3> QED BY <3>2, <3>4 DEF PatientState
    <2> QED BY <1>4, <2>3, <2>4, <2>5 DEF ResultReceived
  <1> QED BY <1>3, <1>4, Delivered

\* No step of patient users leaves a list out of date with nothing to renew it.
LEMMA PatientStep == TypeInv /\ AnswersMatchTasks /\ PatientInv /\ [Next]_vars => PatientInv'
  <1> SUFFICES ASSUME TypeInv, AnswersMatchTasks, PatientInv, [Next]_vars, ~pace.hurried
               PROVE  PatientState'
    BY PaceKept DEF PatientInv
  <1>2. PatientState
    BY DEF PatientInv
  <1>3. MayAct => pool = {} /\ queue = <<>>
    BY DEF MayAct, Quiet
  <1>4. ASSUME NEW k \in Control, Reload(k) PROVE PatientState'
    BY <1>2, <1>3, <1>4, OrderPatient DEF Reload, ReloadState, hyperVars, viewVars
  <1>5. ASSUME NEW k \in Control, ExecAction(k) PROVE PatientState'
    BY <1>2, <1>3, <1>5, OrderPatient
       DEF ExecAction, hyperVars, controlVars, viewVars, TypeInv, PointerGiven
  <1>6. ASSUME NEW k \in Control, HypervisorEvent(k) PROVE PatientState'
    BY <1>2, <1>3, <1>6, EventPatient DEF HypervisorEvent
  <1>7. CASE UNCHANGED vars
    BY <1>2, <1>7, PatienceKept DEF vars, controlVars, taskVars, hyperVars, viewVars, Told
  <1> QED BY <1>2, <1>4, <1>5, <1>6, <1>7, ConnectionPatient, OverviewPatient, ThreadPatient,
          DeliverPatient DEF Next, Thread

\* Patient users see in the docks what the hypervisor has, as far as anybody
\* announces changes.
THEOREM QuietListsTrue == Spec => []QuietListIsTrue
  <1>1. TypeInv /\ PatientInv => QuietListIsTrue
    <2> SUFFICES ASSUME PatientInv, ~pace.hurried, pool = {}, queue = <<>>, Told,
                        NEW k \in Control \ missed
                 PROVE  IsTrue(k)
      BY DEF QuietListIsTrue, Quiet, IsTrue, Told
    <2> QED BY DEF PatientInv, PatientState, StaleIsAwaited, Reloading, Changed, Announced
  <1> QED BY <1>1, TypeInitially, AnswersInitially, PatientInitially, TypeStep, AnswersStep,
          PatientStep, PTL DEF Spec

\* A thread on view is that of the connection the docks show, and what they hold
\* is freed only behind their back.
THEOREM DocksOpen == Spec => []DocksAreOpen
  <1>1. Init => DocksAreOpen
    BY DEF Init, DocksAreOpen
  <1> QED BY <1>1, TypeInitially, TypeStep, DocksStayOpen, PTL DEF Spec
=============================================================================
