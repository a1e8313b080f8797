-------------------------- MODULE ConnLifecycle_proofs --------------------------
(***************************************************************************)
(* Proofs about ConnLifecycle, for any set of connections, any faults and  *)
(* any bound on the queue: lemmas about the queue of posted events, the    *)
(* type invariant and the safety invariants, and that ConnLifecycle        *)
(* implements ConnRows, the order in which a row goes through its states;  *)
(* and what is on view as long as nothing fails.                           *)
(*                                                                         *)
(* In the last part about AppLifecycle: an exit or a restart that begins   *)
(* when nothing is in process loses no handle, and the exit leaves none    *)
(* open.  Nothing is said of the states after a hasty one, which Orderly   *)
(* need not hold in.                                                       *)
(***************************************************************************)
EXTENDS MCConnLifecycle, AppLifecycle, TLAPS

----------------------------------------------------------------------------
(* The queue: what posting and delivering an event do to its elements.     *)

\* Posting an event leaves the older ones in place and puts it last.
LEMMA PostedEvent ==
    ASSUME NEW e \in Event, queue \in Seq(Event), queue' = Append(queue, e)
    PROVE  /\ queue' \in Seq(Event)
           /\ DOMAIN queue = 1 .. Len(queue)
           /\ DOMAIN queue' = 1 .. Len(queue) + 1
           /\ \A i \in 1 .. Len(queue) : queue'[i] = queue[i]
           /\ queue'[Len(queue) + 1] = e
           /\ Len(queue) \in Nat
  OBVIOUS

\* Delivering the first event moves the others up by one place.
LEMMA DeliveredEvent ==
    ASSUME queue \in Seq(Event), queue # <<>>, queue' = Tail(queue)
    PROVE  /\ queue' \in Seq(Event)
           /\ Len(queue) \in Nat \ {0}
           /\ DOMAIN queue = 1 .. Len(queue)
           /\ DOMAIN queue' = 1 .. Len(queue) - 1
           /\ \A i \in 1 .. Len(queue) - 1 : queue'[i] = queue[i + 1]
           /\ Head(queue) = queue[1]
           /\ Head(queue) \in Event
  OBVIOUS

\* A deletion keeps the places of the queue; the events of the deleted receiver
\* lose it, the others are as they were.
LEMMA DroppedEvents ==
    ASSUME NEW c \in Conn, queue \in Seq(Event),
           queue' = [i \in DOMAIN queue |->
                       IF queue[i].to # c THEN queue[i]
                       ELSE [to |-> NoConn, sig |-> queue[i].sig]]
    PROVE  /\ queue' \in Seq(Event)
           /\ DOMAIN queue' = DOMAIN queue
           /\ DOMAIN queue = 1 .. Len(queue)
           /\ Len(queue) \in Nat
           /\ \A i \in DOMAIN queue : queue[i].to # c => queue'[i] = queue[i]
           /\ \A i \in DOMAIN queue : queue[i].to = c => queue'[i].to = NoConn
  <1>1. DOMAIN queue = 1 .. Len(queue) /\ Len(queue) \in Nat
    OBVIOUS
  <1>2. \A i \in DOMAIN queue : queue[i] \in Event
    OBVIOUS
  <1>3. \A i \in DOMAIN queue : queue'[i] \in Event
    BY <1>2 DEF Event
  <1>4. queue' \in [1 .. Len(queue) -> Event]
    BY <1>1, <1>3
  <1>5. queue' \in Seq(Event)
    BY <1>1, <1>4
  <1> QED
    BY <1>1, <1>2, <1>5, ConnAssumption DEF Event

----------------------------------------------------------------------------
(* Predicates on the order of the events of one connection.                *)

\* The last state event posted to c is not one that leaves the row at unrest.
SettledAtLast(c) ==
    \A i \in DOMAIN queue :
        queue[i].to = c /\ queue[i].sig \in {"started", "RUNNING"}
        => \E j \in DOMAIN queue : j > i /\ queue[j].to = c /\ queue[j].sig \in StateSignal

\* No state event is queued behind a RUNNING one of the same connection.
RunningEndsQueue(c) ==
    \A i, j \in DOMAIN queue :
        i < j /\ queue[i].to = c /\ queue[i].sig = "RUNNING" /\ queue[j].to = c
        => queue[j].sig \notin StateSignal

\* Pending: after a post, what was pending and the new event.
LEMMA PendingPosted ==
    ASSUME NEW e \in Event, queue \in Seq(Event), queue' = Append(queue, e),
           NEW c, NEW S
    PROVE  Pending(c, S)' <=> Pending(c, S) \/ (e.to = c /\ e.sig \in S)
  <1> USE PostedEvent
  <1>1. Pending(c, S) => Pending(c, S)'
    BY DEF Pending
  <1>2. e.to = c /\ e.sig \in S => Pending(c, S)'
    <2>1. Len(queue) + 1 \in DOMAIN queue'
      OBVIOUS
    <2> QED BY <2>1 DEF Pending
  <1>3. Pending(c, S)' => Pending(c, S) \/ (e.to = c /\ e.sig \in S)
    <2> SUFFICES ASSUME NEW i \in DOMAIN queue', queue'[i].to = c, queue'[i].sig \in S
                 PROVE  Pending(c, S) \/ (e.to = c /\ e.sig \in S)
      BY DEF Pending
    <2>1. CASE i = Len(queue) + 1
      BY <2>1
    <2>2. CASE i # Len(queue) + 1
      <3>1. i \in DOMAIN queue /\ queue'[i] = queue[i]
        BY <2>2
      <3> QED BY <3>1 DEF Pending
    <2> QED BY <2>1, <2>2
  <1> QED BY <1>1, <1>2, <1>3

\* Pending: a delivery takes away the first event and nothing else.
LEMMA PendingDelivered ==
    ASSUME queue \in Seq(Event), queue # <<>>, queue' = Tail(queue), NEW c, NEW S
    PROVE  /\ Pending(c, S)' => Pending(c, S)
           /\ Pending(c, S) => Pending(c, S)' \/ (Head(queue).to = c /\ Head(queue).sig \in S)
  <1> USE DeliveredEvent
  <1>1. ASSUME NEW i \in DOMAIN queue', queue'[i].to = c, queue'[i].sig \in S
        PROVE  Pending(c, S)
    <2>1. i + 1 \in DOMAIN queue /\ queue'[i] = queue[i + 1]
      OBVIOUS
    <2> QED BY <1>1, <2>1 DEF Pending
  <1>2. ASSUME NEW i \in DOMAIN queue, queue[i].to = c, queue[i].sig \in S
        PROVE  Pending(c, S)' \/ (Head(queue).to = c /\ Head(queue).sig \in S)
    <2>1. CASE i = 1
      BY <1>2, <2>1
    <2>2. CASE i # 1
      <3>1. i - 1 \in DOMAIN queue' /\ queue'[i - 1] = queue[i]
        BY <2>2
      <3> QED BY <1>2, <3>1 DEF Pending
    <2> QED BY <2>1, <2>2
  <1> QED BY <1>1, <1>2 DEF Pending

\* Pending: the event about to be delivered is pending.
LEMMA PendingHead ==
    ASSUME queue \in Seq(Event), queue # <<>>, NEW S, Head(queue).sig \in S
    PROVE  Pending(Head(queue).to, S)
  <1>1. 1 \in DOMAIN queue /\ Head(queue) = queue[1]
    OBVIOUS
  <1> QED BY <1>1 DEF Pending

\* Pending: a deletion empties the queue for the deleted receiver only.
LEMMA PendingDropped ==
    ASSUME queue \in Seq(Event), NEW d \in Conn,
           queue' = [i \in DOMAIN queue |->
                       IF queue[i].to # d THEN queue[i]
                       ELSE [to |-> NoConn, sig |-> queue[i].sig]],
           NEW c \in Conn, NEW S
    PROVE  /\ c # d => (Pending(c, S)' <=> Pending(c, S))
           /\ ~Pending(d, S)'
  BY DroppedEvents, ConnAssumption DEF Pending

\* RunningIsLast outlives posts to others and close signals; a post of RUNNING
\* establishes it.
LEMMA RunningPosted ==
    ASSUME NEW e \in Event, queue \in Seq(Event), queue' = Append(queue, e), NEW c
    PROVE  /\ RunningIsLast(c) /\ (e.to # c \/ e.sig \in CloseSignal) => RunningIsLast(c)'
           /\ e.to = c /\ e.sig = "RUNNING" => RunningIsLast(c)'
  <1> USE PostedEvent
  <1>1. ASSUME NEW i \in DOMAIN queue, queue[i].to = c, queue[i].sig = "RUNNING",
               \A j \in DOMAIN queue : j > i /\ queue[j].to = c => queue[j].sig \in CloseSignal,
               e.to # c \/ e.sig \in CloseSignal
        PROVE  RunningIsLast(c)'
    <2>1. i \in DOMAIN queue' /\ queue'[i] = queue[i]
      OBVIOUS
    <2>2. ASSUME NEW j \in DOMAIN queue', j > i, queue'[j].to = c
          PROVE  queue'[j].sig \in CloseSignal
      <3>1. CASE j = Len(queue) + 1
        BY <1>1, <2>2, <3>1
      <3>2. CASE j # Len(queue) + 1
        BY <1>1, <2>2, <3>2
      <3> QED BY <3>1, <3>2
    <2> QED BY <1>1, <2>1, <2>2 DEF RunningIsLast
  <1>2. ASSUME e.to = c, e.sig = "RUNNING" PROVE RunningIsLast(c)'
    <2>1. /\ Len(queue) + 1 \in DOMAIN queue'
          /\ \A j \in DOMAIN queue' : ~ (j > Len(queue) + 1)
      OBVIOUS
    <2> QED BY <1>2, <2>1 DEF RunningIsLast
  <1> QED BY <1>1, <1>2 DEF RunningIsLast

\* RunningIsLast outlives deliveries, except that of the RUNNING event itself,
\* after which no state event is pending.
LEMMA RunningDelivered ==
    ASSUME queue \in Seq(Event), queue # <<>>, queue' = Tail(queue), NEW c, RunningIsLast(c)
    PROVE  \/ RunningIsLast(c)'
           \/ /\ Head(queue).to = c /\ Head(queue).sig = "RUNNING"
              /\ ~Pending(c, StateSignal)'
  <1> USE DeliveredEvent
  <1>1. PICK i \in DOMAIN queue :
           /\ queue[i].to = c /\ queue[i].sig = "RUNNING"
           /\ \A j \in DOMAIN queue : j > i /\ queue[j].to = c => queue[j].sig \in CloseSignal
    BY DEF RunningIsLast
  <1>2. \A j \in DOMAIN queue' : j + 1 \in DOMAIN queue /\ queue'[j] = queue[j + 1]
    OBVIOUS
  <1>3. CASE i = 1
    <2>1. \A j \in DOMAIN queue' : queue'[j].to = c => queue'[j].sig \in CloseSignal
      BY <1>1, <1>2, <1>3
    <2> QED BY <1>1, <1>3, <2>1 DEF Pending, StateSignal, CloseSignal
  <1>4. CASE i # 1
    <2>1. i - 1 \in DOMAIN queue' /\ queue'[i - 1] = queue[i]
      BY <1>4
    <2>2. \A j \in DOMAIN queue' : j > i - 1 /\ queue'[j].to = c => queue'[j].sig \in CloseSignal
      BY <1>1, <1>2
    <2> QED BY <1>1, <2>1, <2>2 DEF RunningIsLast
  <1> QED BY <1>3, <1>4

\* RunningIsLast outlives the deletion of another connection.
LEMMA RunningDropped ==
    ASSUME queue \in Seq(Event), NEW d \in Conn,
           queue' = [i \in DOMAIN queue |->
                       IF queue[i].to # d THEN queue[i]
                       ELSE [to |-> NoConn, sig |-> queue[i].sig]],
           NEW c \in Conn, c # d, RunningIsLast(c)
    PROVE  RunningIsLast(c)'
  BY DroppedEvents, ConnAssumption DEF RunningIsLast

\* SettledAtLast outlives posts to others and close signals; finished
\* establishes it.
LEMMA SettledPosted ==
    ASSUME NEW e \in Event, queue \in Seq(Event), queue' = Append(queue, e), NEW c
    PROVE  /\ SettledAtLast(c) /\ (e.to # c \/ e.sig \in CloseSignal) => SettledAtLast(c)'
           /\ e.to = c /\ e.sig = "finished" => SettledAtLast(c)'
  <1> USE PostedEvent DEF StateSignal, CloseSignal
  <1>1. ASSUME SettledAtLast(c), e.to # c \/ e.sig \in CloseSignal PROVE SettledAtLast(c)'
    <2> SUFFICES ASSUME NEW i \in DOMAIN queue', queue'[i].to = c,
                        queue'[i].sig \in {"started", "RUNNING"}
                 PROVE  \E j \in DOMAIN queue' : j > i /\ queue'[j].to = c
                                               /\ queue'[j].sig \in StateSignal
      BY DEF SettledAtLast
    <2>1. i \in DOMAIN queue /\ queue'[i] = queue[i]
      BY <1>1
    <2>2. PICK j \in DOMAIN queue : j > i /\ queue[j].to = c /\ queue[j].sig \in StateSignal
      BY <1>1, <2>1 DEF SettledAtLast
    <2> QED BY <2>2
  <1>2. ASSUME e.to = c, e.sig = "finished" PROVE SettledAtLast(c)'
    <2>1. \A i \in DOMAIN queue' : queue'[i].sig # "finished" => Len(queue) + 1 > i
      BY <1>2
    <2> QED BY <1>2, <2>1 DEF SettledAtLast
  <1> QED BY <1>1, <1>2

\* SettledAtLast outlives deliveries, and one that unsettles the row leaves a
\* state event pending.
LEMMA SettledDelivered ==
    ASSUME queue \in Seq(Event), queue # <<>>, queue' = Tail(queue), NEW c, SettledAtLast(c)
    PROVE  /\ SettledAtLast(c)'
           /\ Head(queue).to = c /\ Head(queue).sig \in {"started", "RUNNING"}
              => Pending(c, StateSignal)'
  <1> USE DeliveredEvent
  <1>1. ASSUME NEW i \in DOMAIN queue, queue[i].to = c,
               queue[i].sig \in {"started", "RUNNING"}
        PROVE  \E j \in DOMAIN queue' : j + 1 > i /\ queue'[j].to = c
                                       /\ queue'[j].sig \in StateSignal
    <2>1. PICK j \in DOMAIN queue : j > i /\ queue[j].to = c /\ queue[j].sig \in StateSignal
      BY <1>1 DEF SettledAtLast
    <2>2. j - 1 \in DOMAIN queue' /\ queue'[j - 1] = queue[j] /\ (j - 1) + 1 > i
      BY <2>1
    <2> QED BY <2>1, <2>2
  <1>2. SettledAtLast(c)'
    <2> SUFFICES ASSUME NEW i \in DOMAIN queue', queue'[i].to = c,
                        queue'[i].sig \in {"started", "RUNNING"}
                 PROVE  \E j \in DOMAIN queue' : j > i /\ queue'[j].to = c
                                               /\ queue'[j].sig \in StateSignal
      BY DEF SettledAtLast
    <2>1. i + 1 \in DOMAIN queue /\ queue'[i] = queue[i + 1]
      OBVIOUS
    <2>2. PICK j \in DOMAIN queue' : j + 1 > i + 1 /\ queue'[j].to = c
                                    /\ queue'[j].sig \in StateSignal
      BY <1>1, <2>1
    <2> QED BY <2>2
  <1>3. 1 \in DOMAIN queue
    OBVIOUS
  <1>4. Head(queue).to = c /\ Head(queue).sig \in {"started", "RUNNING"}
        => Pending(c, StateSignal)'
    BY <1>1, <1>3 DEF Pending
  <1> QED BY <1>2, <1>4

\* SettledAtLast outlives deletions.
LEMMA SettledDropped ==
    ASSUME queue \in Seq(Event), NEW d \in Conn,
           queue' = [i \in DOMAIN queue |->
                       IF queue[i].to # d THEN queue[i]
                       ELSE [to |-> NoConn, sig |-> queue[i].sig]],
           NEW c \in Conn, SettledAtLast(c)
    PROVE  SettledAtLast(c)'
  BY DroppedEvents, ConnAssumption DEF SettledAtLast

\* RunningEndsQueue outlives a post to another connection, and one to a connection
\* for which no RUNNING is pending.
LEMMA EndsPosted ==
    ASSUME NEW e \in Event, queue \in Seq(Event), queue' = Append(queue, e), NEW c,
           RunningEndsQueue(c), e.to # c \/ ~Pending(c, {"RUNNING"})
    PROVE  RunningEndsQueue(c)'
  <1> USE PostedEvent
  <1> SUFFICES ASSUME NEW i \in DOMAIN queue', NEW j \in DOMAIN queue', i < j,
                      queue'[i].to = c, queue'[i].sig = "RUNNING", queue'[j].to = c
               PROVE  queue'[j].sig \notin StateSignal
    BY DEF RunningEndsQueue
  <1>1. i \in DOMAIN queue /\ queue'[i] = queue[i]
    OBVIOUS
  <1>2. Pending(c, {"RUNNING"})
    BY <1>1 DEF Pending
  <1>3. j \in DOMAIN queue /\ queue'[j] = queue[j]
    BY <1>2
  <1> QED BY <1>1, <1>3 DEF RunningEndsQueue

\* RunningEndsQueue outlives deliveries; once RUNNING is delivered nothing that
\* changes the row is left.
LEMMA EndsDelivered ==
    ASSUME queue \in Seq(Event), queue # <<>>, queue' = Tail(queue), NEW c, RunningEndsQueue(c)
    PROVE  /\ RunningEndsQueue(c)'
           /\ Head(queue).to = c /\ Head(queue).sig = "RUNNING" => ~Pending(c, StateSignal)'
  <1> USE DeliveredEvent
  <1>1. \A i \in DOMAIN queue' : /\ i \in Int /\ i + 1 \in DOMAIN queue
                                 /\ 1 < i + 1 /\ queue'[i] = queue[i + 1]
    OBVIOUS
  <1>2. RunningEndsQueue(c)'
    <2> SUFFICES ASSUME NEW i \in DOMAIN queue', NEW j \in DOMAIN queue', i < j,
                        queue'[i].to = c, queue'[i].sig = "RUNNING", queue'[j].to = c
                 PROVE  queue'[j].sig \notin StateSignal
      BY DEF RunningEndsQueue
    <2>1. i + 1 < j + 1
      BY <1>1
    <2> QED BY <1>1, <2>1 DEF RunningEndsQueue
  <1>3. ASSUME Head(queue).to = c, Head(queue).sig = "RUNNING",
               NEW j \in DOMAIN queue', queue'[j].to = c
        PROVE  queue'[j].sig \notin StateSignal
    <2>1. 1 \in DOMAIN queue
      OBVIOUS
    <2> QED BY <1>1, <1>3, <2>1 DEF RunningEndsQueue
  <1> QED BY <1>2, <1>3 DEF Pending

\* RunningEndsQueue outlives deletions.
LEMMA EndsDropped ==
    ASSUME queue \in Seq(Event), NEW d \in Conn,
           queue' = [i \in DOMAIN queue |->
                       IF queue[i].to # d THEN queue[i]
                       ELSE [to |-> NoConn, sig |-> queue[i].sig]],
           NEW c \in Conn, RunningEndsQueue(c)
    PROVE  RunningEndsQueue(c)'
  BY DroppedEvents, ConnAssumption DEF RunningEndsQueue

----------------------------------------------------------------------------
(* Type correctness.                                                       *)

\* Every variable starts with its type, and no step changes it.
LEMMA TypeInitially == Init => TypeOK
  <1> SUFFICES ASSUME Init PROVE TypeOK
    OBVIOUS
  <1>1. /\ item \in [Conn -> CONN_STATE \cup {"absent"}]
        /\ busy \in [Conn -> BOOLEAN]
        /\ thread \in [Conn -> {"idle", "starting", "opening", "opened", "loop"}]
    BY DEF Init, CONN_STATE
  <1>2. queue \in Seq(Event)
    BY DEF Init
  <1> QED BY <1>1, <1>2 DEF Init, TypeOK

\* No step takes a variable out of its type.
LEMMA TypeStep == TypeOK /\ [Next]_vars => TypeOK'
  <1> SUFFICES ASSUME TypeOK, [Next]_vars PROVE TypeOK'
    OBVIOUS
  <1> USE DEF TypeOK
  <1>1. ASSUME NEW c \in Conn, Worker(c) PROVE TypeOK'
    <2>1. CASE Started(c)
      <3>1. [to |-> c, sig |-> "started"] \in Event
        BY DEF Event, StateSignal
      <3> QED BY <2>1, <3>1, PostedEvent DEF Started, Emit, viewVars
    <2>2. CASE OpenSucceeds(c)
      <3>1. [to |-> c, sig |-> "RUNNING"] \in Event
        BY DEF Event, StateSignal
      <3> QED BY <2>2, <3>1, PostedEvent DEF OpenSucceeds, Emit, viewVars
    <2>3. CASE OpenFails(c)
      <3>1. [to |-> c, sig |-> "FAILED"] \in Event
        BY DEF Event, StateSignal
      <3> QED BY <2>3, <3>1, PostedEvent DEF OpenFails, Emit, viewVars
    <2>4. CASE RegisterConnEvents(c)
      BY <2>4 DEF RegisterConnEvents, viewVars
    <2>5. CASE LeaveLoop(c)
      <3>1. [to |-> c, sig |-> "finished"] \in Event
        BY DEF Event, StateSignal
      <3> QED BY <2>5, <3>1, PostedEvent DEF LeaveLoop, Emit, viewVars
    <2> QED BY <1>1, <2>1, <2>2, <2>3, <2>4, <2>5 DEF Worker
  <1>2. ASSUME NEW c \in Conn, RemoteClose(c) PROVE TypeOK'
    <2>1. CASE closeCb[c] /\ thread[c] # "opened"
      <3>1. [to |-> c, sig |-> IF onView[c] THEN "closedOnView" ELSE "closedOffView"] \in Event
        BY DEF Event, CloseSignal
      <3> QED BY <1>2, <2>1, <3>1, PostedEvent DEF RemoteClose, Emit, viewVars
    <2> QED BY <1>2, <2>1 DEF RemoteClose, viewVars
  <1>3. ASSUME NEW c \in Conn, User(c) PROVE TypeOK'
    <2>1. CASE CreateConnection(c)
      BY <2>1 DEF CreateConnection, viewVars, CONN_STATE
    <2>2. CASE OpenItem(c)
      BY <2>2 DEF OpenItem, viewVars
    <2>3. CASE CloseItem(c)
      BY <2>3 DEF CloseItem, CloseConnection, SetConnectionState,
                  ForwardConnClosed, ShowInDocks, viewVars, CONN_STATE
    <2>4. CASE OverviewItem(c)
      BY <2>4 DEF OverviewItem, NoneOnView, ShowInDocks, threadVars
    <2>5. CASE DeleteConnection(c)
      <3>1. CASE thread[c] # "idle"
        BY <2>5, <3>1 DEF DeleteConnection, threadVars
      <3>2. CASE thread[c] = "idle"
        <4>1. queue' \in Seq(Event)
          BY <2>5, <3>2, DroppedEvents DEF DeleteConnection
        <4> QED BY <2>5, <3>2, <4>1 DEF DeleteConnection
      <3> QED BY <3>1, <3>2
    <2> QED BY <1>3, <2>1, <2>2, <2>3, <2>4, <2>5 DEF User
  <1>4. CASE Deliver
    <2>1. Head(queue) \in Event /\ queue' \in Seq(Event)
      BY <1>4, DeliveredEvent DEF Deliver
    <2>2. UNCHANGED <<thread, keepAlive, ptr, closeCb, searching, aborted>>
      BY <1>4 DEF Deliver, threadVars
    <2>3. CASE Head(queue).to = NoConn
      BY <1>4, <2>1, <2>2, <2>3 DEF Deliver, viewVars
    <2>4. CASE Head(queue).to # NoConn /\ Head(queue).sig \in StateSignal
      <3>1. Head(queue).to \in Conn /\ Shows(Head(queue).sig) \in CONN_STATE
        BY <2>1, <2>4 DEF Event, StateSignal, Shows, CONN_STATE
      <3>2. SetConnectionState(Head(queue).to, Shows(Head(queue).sig))
        BY <1>4, <2>4 DEF Deliver, StateSignal, CloseSignal
      <3> QED
        BY <2>1, <2>2, <3>1, <3>2 DEF SetConnectionState, ShowInDocks, viewVars
    <2>5. CASE Head(queue).to # NoConn /\ Head(queue).sig \in CloseSignal
      <3>1. /\ Head(queue).to \in Conn
            /\ ForwardConnClosed(Head(queue).to, Head(queue).sig = "closedOnView")
            /\ UNCHANGED <<item, busy>>
        BY <1>4, <2>1, <2>5 DEF Deliver, Event, StateSignal, CloseSignal
      <3>2. onView' \in [Conn -> BOOLEAN] /\ listEnabled' \in BOOLEAN
        BY <3>1 DEF ForwardConnClosed
      <3>3. docks' \in Conn \cup {NoConn}
        BY <3>1 DEF ForwardConnClosed
      <3>4. onViewExist' \in BOOLEAN
        BY <3>1 DEF ForwardConnClosed
      <3> QED BY <2>1, <2>2, <3>1, <3>2, <3>3, <3>4
    <2> QED BY <2>1, <2>3, <2>4, <2>5 DEF Event
  <1>5. CASE CloseOverview
    BY <1>5 DEF CloseOverview, NoneOnView, threadVars
  <1>6. CASE RefreshLocalhost \/ SearchComplete
    BY <1>6 DEF RefreshLocalhost, SearchComplete, threadVars, viewVars
  <1>7. CASE EntityControlsUpdated
    BY <1>7 DEF EntityControlsUpdated, threadVars
  <1>8. CASE UNCHANGED vars
    BY <1>8 DEF vars, threadVars, viewVars
  <1> QED BY <1>1, <1>2, <1>3, <1>4, <1>5, <1>6, <1>7, <1>8 DEF Next

\* Every variable has its type in every state of the connection list.
THEOREM TypeCorrect == Spec => []TypeOK
  BY TypeInitially, TypeStep, PTL DEF Spec

----------------------------------------------------------------------------
(* A row that is not in the list has nothing left of it: no thread, no     *)
(* handle, no event that would bring it back.                              *)

AbsentIsGone ==
    \A c \in Conn : item[c] = "absent" =>
        /\ thread[c] = "idle"
        /\ ptr[c] = "null"
        /\ ~busy[c]
        /\ ~onView[c]
        /\ \A i \in DOMAIN queue : queue[i].to # c

\* AbsentIsGone is kept by every step.
LEMMA AbsentStep == TypeOK /\ AbsentIsGone /\ [Next]_vars => AbsentIsGone'
  <1> SUFFICES ASSUME TypeOK, AbsentIsGone, [Next]_vars PROVE AbsentIsGone'
    OBVIOUS
  <1> USE DEF TypeOK, AbsentIsGone
  <1>1. ASSUME NEW c \in Conn, Worker(c) PROVE AbsentIsGone'
    <2>1. CASE Started(c)
      <3>1. [to |-> c, sig |-> "started"] \in Event
        BY DEF Event, StateSignal
      <3> QED BY <2>1, <3>1, PostedEvent DEF Started, Emit, viewVars
    <2>2. CASE OpenSucceeds(c)
      <3>1. [to |-> c, sig |-> "RUNNING"] \in Event
        BY DEF Event, StateSignal
      <3> QED BY <2>2, <3>1, PostedEvent DEF OpenSucceeds, Emit, viewVars
    <2>3. CASE OpenFails(c)
      <3>1. [to |-> c, sig |-> "FAILED"] \in Event
        BY DEF Event, StateSignal
      <3> QED BY <2>3, <3>1, PostedEvent DEF OpenFails, Emit, viewVars
    <2>4. CASE RegisterConnEvents(c)
      BY <2>4 DEF RegisterConnEvents, viewVars
    <2>5. CASE LeaveLoop(c)
      <3>1. [to |-> c, sig |-> "finished"] \in Event
        BY DEF Event, StateSignal
      <3> QED BY <2>5, <3>1, PostedEvent DEF LeaveLoop, Emit, viewVars
    <2> QED BY <1>1, <2>1, <2>2, <2>3, <2>4, <2>5 DEF Worker
  <1>2. ASSUME NEW c \in Conn, RemoteClose(c) PROVE AbsentIsGone'
    <2>1. CASE closeCb[c] /\ thread[c] # "opened"
      <3>1. [to |-> c, sig |-> IF onView[c] THEN "closedOnView" ELSE "closedOffView"] \in Event
        BY DEF Event, CloseSignal
      <3>2. item[c] # "absent"
        BY <1>2 DEF RemoteClose
      <3>3. /\ \A i \in DOMAIN queue' : i \in DOMAIN queue \/ queue'[i].to = c
            /\ \A i \in DOMAIN queue : i \in DOMAIN queue' /\ queue'[i] = queue[i]
        <4>1. queue' = Append(queue, [to |-> c, sig |-> IF onView[c] THEN "closedOnView"
                                                                     ELSE "closedOffView"])
          BY <1>2, <2>1 DEF RemoteClose, Emit
        <4> QED BY <3>1, <4>1, PostedEvent
      <3>4. /\ ptr' = [ptr EXCEPT ![c] = "dead"]
            /\ UNCHANGED <<item, thread, busy, onView>>
        BY <1>2, <2>1 DEF RemoteClose, viewVars
      <3> QED BY <3>2, <3>3, <3>4
    <2> QED BY <1>2, <2>1 DEF RemoteClose, viewVars
  <1>3. ASSUME NEW c \in Conn, User(c) PROVE AbsentIsGone'
    <2>1. CASE CreateConnection(c)
      BY <2>1 DEF CreateConnection, viewVars
    <2>2. CASE OpenItem(c)
      BY <2>2 DEF OpenItem, viewVars, CONN_STATE
    <2>3. CASE CloseItem(c)
      BY <2>3 DEF CloseItem, CloseConnection, SetConnectionState,
                  ForwardConnClosed, ShowInDocks, viewVars
    <2>4. CASE OverviewItem(c)
      BY <2>4 DEF OverviewItem, NoneOnView, ShowInDocks, threadVars
    <2>5. CASE DeleteConnection(c)
      <3>1. CASE thread[c] # "idle"
        BY <2>5, <3>1 DEF DeleteConnection, threadVars
      <3>2. CASE thread[c] = "idle"
        <4>1. /\ item' = [item EXCEPT ![c] = "absent"]
              /\ ptr' = [ptr EXCEPT ![c] = "null"]
              /\ onView' = [onView EXCEPT ![c] = FALSE]
              /\ UNCHANGED <<thread, busy>>
              /\ ~busy[c]
          BY <2>5, <3>2 DEF DeleteConnection
        <4>2. /\ DOMAIN queue' = DOMAIN queue
              /\ \A i \in DOMAIN queue : queue[i].to # c => queue'[i] = queue[i]
              /\ \A i \in DOMAIN queue : queue[i].to = c => queue'[i].to = NoConn
          BY <2>5, <3>2, DroppedEvents DEF DeleteConnection
        <4>3. \A d \in Conn : item'[d] = "absent" =>
                 \A i \in DOMAIN queue' : queue'[i].to # d
          BY <4>1, <4>2, ConnAssumption
        <4> QED BY <3>2, <4>1, <4>3
      <3> QED BY <3>1, <3>2
    <2> QED BY <1>3, <2>1, <2>2, <2>3, <2>4, <2>5 DEF User
  <1>4. CASE Deliver
    <2>1. UNCHANGED <<thread, keepAlive, ptr, closeCb, searching, aborted>>
      BY <1>4 DEF Deliver, threadVars
    <2>2. /\ Head(queue) \in Event
          /\ queue # <<>> /\ queue' = Tail(queue)
      BY <1>4, DeliveredEvent DEF Deliver
    <2>3. CASE Head(queue).to = NoConn
      BY <1>4, <2>1, <2>2, <2>3, DeliveredEvent, ConnAssumption DEF Deliver, viewVars
    <2>4. CASE Head(queue).to # NoConn /\ Head(queue).sig \in StateSignal
      <3> DEFINE c == Head(queue).to
                 state == Shows(Head(queue).sig)
      <3>1. c \in Conn /\ state \in CONN_STATE
        BY <2>2, <2>4 DEF Event, StateSignal, Shows, CONN_STATE
      <3>2. SetConnectionState(c, state)
        BY <1>4, <2>4 DEF Deliver, StateSignal, CloseSignal
      <3>3. item[c] # "absent"
        BY <2>2, <3>1, DeliveredEvent
      <3>4. /\ item' = [item EXCEPT ![c] = state]
            /\ busy' = [busy EXCEPT ![c] = FALSE]
            /\ onView' = [onView EXCEPT ![c] = onView'[c]]
        BY <3>1, <3>2 DEF SetConnectionState, viewVars
      <3>5. state # "absent"
        BY <3>1 DEF CONN_STATE
      <3>6. \A d \in Conn : item'[d] = "absent" => d # c /\ item[d] = "absent"
        BY <3>1, <3>4, <3>5
      <3>7. \A d \in Conn : item'[d] = "absent" =>
               \A i \in DOMAIN queue' : queue'[i].to # d
        BY <2>2, <3>6, DeliveredEvent
      <3> HIDE DEF c, state
      <3> QED BY <2>1, <3>1, <3>4, <3>6, <3>7
    <2>5. CASE Head(queue).to # NoConn /\ Head(queue).sig \in CloseSignal
      <3> DEFINE c == Head(queue).to
      <3>1. /\ c \in Conn
            /\ ForwardConnClosed(c, Head(queue).sig = "closedOnView")
            /\ UNCHANGED <<item, busy>>
        BY <1>4, <2>2, <2>5 DEF Deliver, Event, StateSignal, CloseSignal
      <3> QED
        BY <2>1, <2>2, <2>5, <3>1, DeliveredEvent DEF ForwardConnClosed
    <2> QED BY <2>2, <2>3, <2>4, <2>5 DEF Event
  <1>5. CASE CloseOverview
    BY <1>5 DEF CloseOverview, NoneOnView, threadVars
  <1>6. CASE RefreshLocalhost \/ SearchComplete
    BY <1>6 DEF RefreshLocalhost, SearchComplete, threadVars, viewVars
  <1>7. CASE EntityControlsUpdated
    BY <1>7 DEF EntityControlsUpdated, threadVars
  <1>8. CASE UNCHANGED vars
    BY <1>8 DEF vars, threadVars, viewVars
  <1> QED BY <1>1, <1>2, <1>3, <1>4, <1>5, <1>6, <1>7, <1>8 DEF Next

----------------------------------------------------------------------------
(* A live handle is watched by its thread.                                 *)

\* LiveHandleIsWatched is kept by every step: a thread is started only for an
\* idle one, whose pointer is not open, and ends its loop only on a closed one.
LEMMA WatchedStep == TypeOK /\ AbsentIsGone /\ LiveHandleIsWatched /\ [Next]_vars => LiveHandleIsWatched'
  <1> SUFFICES ASSUME TypeOK, AbsentIsGone, LiveHandleIsWatched, [Next]_vars PROVE LiveHandleIsWatched'
    OBVIOUS
  <1> USE DEF TypeOK, LiveHandleIsWatched, AbsentIsGone
  <1>1. ASSUME NEW c \in Conn, Worker(c) PROVE LiveHandleIsWatched'
    <2>1. CASE Started(c)
      <3>1. [to |-> c, sig |-> "started"] \in Event
        BY DEF Event, StateSignal
      <3> QED BY <2>1, <3>1, PostedEvent DEF Started, Emit, viewVars
    <2>2. CASE OpenSucceeds(c)
      <3>1. [to |-> c, sig |-> "RUNNING"] \in Event
        BY DEF Event, StateSignal
      <3> QED BY <2>2, <3>1, PostedEvent DEF OpenSucceeds, Emit, viewVars
    <2>3. CASE OpenFails(c)
      <3>1. [to |-> c, sig |-> "FAILED"] \in Event
        BY DEF Event, StateSignal
      <3> QED BY <2>3, <3>1, PostedEvent DEF OpenFails, Emit, viewVars
    <2>4. CASE RegisterConnEvents(c)
      BY <2>4 DEF RegisterConnEvents, viewVars
    <2>5. CASE LeaveLoop(c)
      <3>1. [to |-> c, sig |-> "finished"] \in Event
        BY DEF Event, StateSignal
      <3> QED BY <2>5, <3>1, PostedEvent DEF LeaveLoop, Emit, viewVars
    <2> QED BY <1>1, <2>1, <2>2, <2>3, <2>4, <2>5 DEF Worker
  <1>2. ASSUME NEW c \in Conn, RemoteClose(c) PROVE LiveHandleIsWatched'
    <2>1. CASE closeCb[c] /\ thread[c] # "opened"
      <3>1. [to |-> c, sig |-> IF onView[c] THEN "closedOnView" ELSE "closedOffView"] \in Event
        BY DEF Event, CloseSignal
      <3> QED BY <1>2, <2>1, <3>1, PostedEvent DEF RemoteClose, Emit, viewVars
    <2> QED BY <1>2, <2>1 DEF RemoteClose, viewVars
  <1>3. ASSUME NEW c \in Conn, User(c) PROVE LiveHandleIsWatched'
    <2>1. CASE CreateConnection(c)
      BY <2>1 DEF CreateConnection, viewVars
    <2>2. CASE OpenItem(c)
      BY <2>2 DEF OpenItem, viewVars, CONN_STATE
    <2>3. CASE CloseItem(c)
      BY <2>3 DEF CloseItem, CloseConnection, SetConnectionState,
                  ForwardConnClosed, ShowInDocks, viewVars
    <2>4. CASE OverviewItem(c)
      BY <2>4 DEF OverviewItem, NoneOnView, ShowInDocks, threadVars
    <2>5. CASE DeleteConnection(c)
      <3>1. CASE thread[c] # "idle"
        BY <2>5, <3>1 DEF DeleteConnection, threadVars
      <3>2. CASE thread[c] = "idle"
        BY <2>5, <3>2, DroppedEvents, ConnAssumption DEF DeleteConnection
      <3> QED BY <3>1, <3>2
    <2> QED BY <1>3, <2>1, <2>2, <2>3, <2>4, <2>5 DEF User
  <1>4. CASE Deliver
    <2>1. UNCHANGED <<thread, keepAlive, ptr, closeCb, searching, aborted>>
      BY <1>4 DEF Deliver, threadVars
    <2>2. /\ Head(queue) \in Event
          /\ queue # <<>> /\ queue' = Tail(queue)
      BY <1>4, DeliveredEvent DEF Deliver
    <2>3. CASE Head(queue).to = NoConn
      BY <1>4, <2>1, <2>2, <2>3, DeliveredEvent, ConnAssumption DEF Deliver, viewVars
    <2>4. CASE Head(queue).to # NoConn /\ Head(queue).sig \in StateSignal
      <3> DEFINE c == Head(queue).to
                 state == Shows(Head(queue).sig)
      <3>1. c \in Conn /\ state \in CONN_STATE
        BY <2>2, <2>4 DEF Event, StateSignal, Shows, CONN_STATE
      <3>2. SetConnectionState(c, state)
        BY <1>4, <2>4 DEF Deliver, StateSignal, CloseSignal
      <3> QED
        BY <2>1, <2>2, <2>4, <3>1, <3>2, DeliveredEvent
           DEF SetConnectionState, ShowInDocks, viewVars
    <2>5. CASE Head(queue).to # NoConn /\ Head(queue).sig \in CloseSignal
      <3> DEFINE c == Head(queue).to
      <3>1. /\ c \in Conn
            /\ ForwardConnClosed(c, Head(queue).sig = "closedOnView")
            /\ UNCHANGED <<item, busy>>
        BY <1>4, <2>2, <2>5 DEF Deliver, Event, StateSignal, CloseSignal
      <3> QED
        BY <2>1, <2>2, <2>5, <3>1, DeliveredEvent DEF ForwardConnClosed
    <2> QED BY <2>2, <2>3, <2>4, <2>5 DEF Event
  <1>5. CASE CloseOverview
    BY <1>5 DEF CloseOverview, NoneOnView, threadVars
  <1>6. CASE RefreshLocalhost \/ SearchComplete
    BY <1>6 DEF RefreshLocalhost, SearchComplete, threadVars, viewVars
  <1>7. CASE EntityControlsUpdated
    BY <1>7 DEF EntityControlsUpdated, threadVars
  <1>8. CASE UNCHANGED vars
    BY <1>8 DEF vars, threadVars, viewVars
  <1> QED BY <1>1, <1>2, <1>3, <1>4, <1>5, <1>6, <1>7, <1>8 DEF Next

----------------------------------------------------------------------------
(* The flag of the list and the docks of the main window.                  *)

\* FlagMatchesDocks is kept by every step: the slots of the two components that
\* the same signal reaches run one after the other in the GUI thread.
LEMMA FlagStep == TypeOK /\ FlagMatchesDocks /\ [Next]_vars => FlagMatchesDocks'
  <1> SUFFICES ASSUME TypeOK, FlagMatchesDocks, [Next]_vars PROVE FlagMatchesDocks'
    OBVIOUS
  <1> USE DEF TypeOK, FlagMatchesDocks
  <1>1. ASSUME NEW c \in Conn, Worker(c) PROVE FlagMatchesDocks'
    <2>1. CASE Started(c)
      <3>1. [to |-> c, sig |-> "started"] \in Event
        BY DEF Event, StateSignal
      <3> QED BY <2>1, <3>1, PostedEvent DEF Started, Emit, viewVars
    <2>2. CASE OpenSucceeds(c)
      <3>1. [to |-> c, sig |-> "RUNNING"] \in Event
        BY DEF Event, StateSignal
      <3> QED BY <2>2, <3>1, PostedEvent DEF OpenSucceeds, Emit, viewVars
    <2>3. CASE OpenFails(c)
      <3>1. [to |-> c, sig |-> "FAILED"] \in Event
        BY DEF Event, StateSignal
      <3> QED BY <2>3, <3>1, PostedEvent DEF OpenFails, Emit, viewVars
    <2>4. CASE RegisterConnEvents(c)
      BY <2>4 DEF RegisterConnEvents, viewVars
    <2>5. CASE LeaveLoop(c)
      <3>1. [to |-> c, sig |-> "finished"] \in Event
        BY DEF Event, StateSignal
      <3> QED BY <2>5, <3>1, PostedEvent DEF LeaveLoop, Emit, viewVars
    <2> QED BY <1>1, <2>1, <2>2, <2>3, <2>4, <2>5 DEF Worker
  <1>2. ASSUME NEW c \in Conn, RemoteClose(c) PROVE FlagMatchesDocks'
    <2>1. CASE closeCb[c] /\ thread[c] # "opened"
      <3>1. [to |-> c, sig |-> IF onView[c] THEN "closedOnView" ELSE "closedOffView"] \in Event
        BY DEF Event, CloseSignal
      <3> QED BY <1>2, <2>1, <3>1, PostedEvent DEF RemoteClose, Emit, viewVars
    <2> QED BY <1>2, <2>1 DEF RemoteClose, viewVars
  <1>3. ASSUME NEW c \in Conn, User(c) PROVE FlagMatchesDocks'
    <2>1. CASE CreateConnection(c)
      BY <2>1 DEF CreateConnection, viewVars
    <2>2. CASE OpenItem(c)
      BY <2>2 DEF OpenItem, viewVars, CONN_STATE
    <2>3. CASE CloseItem(c)
      <3>1. CASE onView[c]
        BY <2>3, <3>1 DEF CloseItem, CloseConnection, SetConnectionState,
                          ForwardConnClosed, viewVars
      <3>2. CASE ~onView[c]
        BY <2>3, <3>2 DEF CloseItem, CloseConnection, SetConnectionState,
                          ForwardConnClosed, viewVars
      <3> QED BY <3>1, <3>2
    <2>4. CASE OverviewItem(c)
      BY <2>4, ConnAssumption DEF OverviewItem, NoneOnView, ShowInDocks, threadVars
    <2>5. CASE DeleteConnection(c)
      <3>1. CASE thread[c] # "idle"
        BY <2>5, <3>1 DEF DeleteConnection, threadVars
      <3>2. CASE thread[c] = "idle"
        BY <2>5, <3>2, DroppedEvents, ConnAssumption DEF DeleteConnection
      <3> QED BY <3>1, <3>2
    <2> QED BY <1>3, <2>1, <2>2, <2>3, <2>4, <2>5 DEF User
  <1>4. CASE Deliver
    <2>1. UNCHANGED <<thread, keepAlive, ptr, closeCb, searching, aborted>>
      BY <1>4 DEF Deliver, threadVars
    <2>2. /\ Head(queue) \in Event
          /\ queue # <<>> /\ queue' = Tail(queue)
      BY <1>4, DeliveredEvent DEF Deliver
    <2>3. CASE Head(queue).to = NoConn
      BY <1>4, <2>1, <2>2, <2>3, DeliveredEvent, ConnAssumption DEF Deliver, viewVars
    <2>4. CASE Head(queue).to # NoConn /\ Head(queue).sig \in StateSignal
      <3> DEFINE c == Head(queue).to
                 state == Shows(Head(queue).sig)
      <3>1. c \in Conn /\ state \in CONN_STATE
        BY <2>2, <2>4 DEF Event, StateSignal, Shows, CONN_STATE
      <3>2. SetConnectionState(c, state)
        BY <1>4, <2>4 DEF Deliver, StateSignal, CloseSignal
      <3> QED
        BY <2>1, <2>2, <2>4, <3>1, <3>2, DeliveredEvent
           DEF SetConnectionState, ShowInDocks, viewVars
    <2>5. CASE Head(queue).to # NoConn /\ Head(queue).sig \in CloseSignal
      <3> DEFINE c == Head(queue).to
      <3>1. /\ c \in Conn
            /\ ForwardConnClosed(c, Head(queue).sig = "closedOnView")
            /\ UNCHANGED <<item, busy>>
        BY <1>4, <2>2, <2>5 DEF Deliver, Event, StateSignal, CloseSignal
      <3> QED
        BY <2>1, <2>2, <2>5, <3>1, DeliveredEvent DEF ForwardConnClosed
    <2> QED BY <2>2, <2>3, <2>4, <2>5 DEF Event
  <1>5. CASE CloseOverview
    BY <1>5 DEF CloseOverview, NoneOnView, threadVars
  <1>6. CASE RefreshLocalhost \/ SearchComplete
    BY <1>6 DEF RefreshLocalhost, SearchComplete, threadVars, viewVars
  <1>7. CASE EntityControlsUpdated
    BY <1>7 DEF EntityControlsUpdated, threadVars
  <1>8. CASE UNCHANGED vars
    BY <1>8 DEF vars, threadVars, viewVars
  <1> QED BY <1>1, <1>2, <1>3, <1>4, <1>5, <1>6, <1>7, <1>8 DEF Next

----------------------------------------------------------------------------
(* A row at unrest has a cause.                                            *)

\* A thread that does not run has said so, or will have said so last.
IdleIsSettled == \A c \in Conn : thread[c] = "idle" => SettledAtLast(c)

\* IdleIsSettled is kept by every step.
LEMMA SettledStep ==
    TypeOK /\ AbsentIsGone /\ IdleIsSettled /\ [Next]_vars => IdleIsSettled'
  <1> SUFFICES ASSUME TypeOK, AbsentIsGone, IdleIsSettled, [Next]_vars PROVE IdleIsSettled'
    OBVIOUS
  <1> USE DEF TypeOK, IdleIsSettled
  <1>0. UNCHANGED queue => \A d \in Conn :
                              /\ (SettledAtLast(d)' <=> SettledAtLast(d))
    BY DEF SettledAtLast
  <1>1. ASSUME NEW c \in Conn, Worker(c) PROVE IdleIsSettled'
    <2>1. CASE Started(c)
      <3> DEFINE e == [to |-> c, sig |-> "started"]
      <3>1. e \in Event /\ queue' = Append(queue, e)
        BY <2>1 DEF Started, Emit, Event, StateSignal
      <3>2. \A d \in Conn : SettledAtLast(d) /\ (d # c \/ "started" \in CloseSignal)
                           => SettledAtLast(d)'
        BY <3>1, SettledPosted
      <3> QED BY <2>1, <3>2 DEF Started, StateSignal, CloseSignal, viewVars
    <2>2. CASE OpenSucceeds(c)
      <3> DEFINE e == [to |-> c, sig |-> "RUNNING"]
      <3>1. e \in Event /\ queue' = Append(queue, e)
        BY <2>2 DEF OpenSucceeds, Emit, Event, StateSignal
      <3>2. \A d \in Conn : SettledAtLast(d) /\ (d # c \/ "RUNNING" \in CloseSignal)
                           => SettledAtLast(d)'
        BY <3>1, SettledPosted
      <3> QED BY <2>2, <3>2 DEF OpenSucceeds, StateSignal, CloseSignal, viewVars
    <2>3. CASE OpenFails(c)
      <3> DEFINE e == [to |-> c, sig |-> "FAILED"]
      <3>1. e \in Event /\ queue' = Append(queue, e)
        BY <2>3 DEF OpenFails, Emit, Event, StateSignal
      <3>2. \A d \in Conn : SettledAtLast(d) /\ (d # c \/ "FAILED" \in CloseSignal)
                           => SettledAtLast(d)'
        BY <3>1, SettledPosted
      <3> QED BY <2>3, <3>2 DEF OpenFails, StateSignal, CloseSignal, viewVars
    <2>4. CASE RegisterConnEvents(c)
      BY <1>0, <2>4 DEF RegisterConnEvents, viewVars
    <2>5. CASE LeaveLoop(c)
      <3> DEFINE e == [to |-> c, sig |-> "finished"]
      <3>1. e \in Event /\ queue' = Append(queue, e)
        BY <2>5 DEF LeaveLoop, Emit, Event, StateSignal
      <3>2. \A d \in Conn : SettledAtLast(d) /\ (d # c \/ "finished" \in CloseSignal)
                           => SettledAtLast(d)'
        BY <3>1, SettledPosted
      <3>8. SettledAtLast(c)'
        BY <3>1, SettledPosted
      <3> QED BY <2>5, <3>2, <3>8 DEF LeaveLoop, StateSignal, CloseSignal, viewVars
    <2> QED BY <1>1, <2>1, <2>2, <2>3, <2>4, <2>5 DEF Worker
  <1>2. ASSUME NEW c \in Conn, RemoteClose(c) PROVE IdleIsSettled'
    <2>1. CASE closeCb[c] /\ thread[c] # "opened"
      <3> DEFINE sig == IF onView[c] THEN "closedOnView" ELSE "closedOffView"
                 e == [to |-> c, sig |-> sig]
      <3>1. e \in Event /\ queue' = Append(queue, e)
        BY <1>2, <2>1 DEF RemoteClose, Emit, Event, CloseSignal
      <3>2. sig \in CloseSignal /\ sig \notin StateSignal
        BY DEF CloseSignal, StateSignal
      <3>3. \A d \in Conn : SettledAtLast(d) /\ (d # c \/ sig \in CloseSignal)
                           => SettledAtLast(d)'
        BY <3>1, SettledPosted
      <3>8. /\ ptr' = [ptr EXCEPT ![c] = "dead"]
            /\ keepAlive' = [keepAlive EXCEPT ![c] = FALSE]
            /\ UNCHANGED <<item, busy, thread, onView, onViewExist, docks>>
        BY <1>2, <2>1 DEF RemoteClose, viewVars
      <3> HIDE DEF sig, e
      <3> QED BY <3>2, <3>3, <3>8
    <2>2. CASE ~(closeCb[c] /\ thread[c] # "opened")
      BY <1>0, <1>2, <2>2 DEF RemoteClose, viewVars
    <2> QED BY <2>1, <2>2
  <1>3. ASSUME NEW c \in Conn, User(c) PROVE IdleIsSettled'
    <2>1. CASE CreateConnection(c)
      BY <1>0, <2>1 DEF CreateConnection, viewVars
    <2>2. CASE OpenItem(c)
      BY <1>0, <2>2 DEF OpenItem, viewVars, CONN_STATE
    <2>3. CASE CloseItem(c)
      BY <1>0, <2>3 DEF CloseItem, CloseConnection, SetConnectionState, ForwardConnClosed, viewVars
    <2>4. CASE OverviewItem(c)
      BY <1>0, <2>4 DEF OverviewItem, NoneOnView, ShowInDocks, threadVars
    <2>5. CASE DeleteConnection(c)
      <3>1. CASE thread[c] # "idle"
        BY <1>0, <2>5, <3>1 DEF DeleteConnection, threadVars
      <3>2. CASE thread[c] = "idle"
        <4>1. \A d \in Conn : SettledAtLast(d) => SettledAtLast(d)'
          BY <2>5, <3>2, SettledDropped DEF DeleteConnection
        <4>5. /\ item' = [item EXCEPT ![c] = "absent"]
              /\ ptr' = [ptr EXCEPT ![c] = "null"]
              /\ onView' = [onView EXCEPT ![c] = FALSE]
              /\ keepAlive' = [keepAlive EXCEPT ![c] = FALSE]
              /\ UNCHANGED <<thread, busy, onViewExist, docks>>
              /\ ~busy[c] /\ item[c] # "RUNNING"
          BY <2>5, <3>2 DEF DeleteConnection
        <4> QED BY <4>1, <3>2, <4>5
      <3> QED BY <3>1, <3>2
    <2> QED BY <1>3, <2>1, <2>2, <2>3, <2>4, <2>5 DEF User
  <1>4. CASE Deliver
    <2>1. UNCHANGED <<thread, keepAlive, ptr, closeCb, searching, aborted>>
      BY <1>4 DEF Deliver, threadVars
    <2>2. /\ Head(queue) \in Event
          /\ queue # <<>> /\ queue' = Tail(queue)
      BY <1>4, DeliveredEvent DEF Deliver
    <2>3. \A d \in Conn : SettledAtLast(d) => SettledAtLast(d)'
      BY <2>2, SettledDelivered
    <2>4. \A d \in Conn : SettledAtLast(d) /\ Head(queue).to = d /\ Head(queue).sig \in {"started", "RUNNING"}
                        => Pending(d, StateSignal)'
      BY <2>2, SettledDelivered
    <2>10. CASE Head(queue).to = NoConn
      <3>1. UNCHANGED <<item, busy, onView, onViewExist, docks>>
        BY <1>4, <2>2, <2>10 DEF Deliver, viewVars
      <3> QED BY <2>1, <2>10, <3>1, <2>3, <2>4, ConnAssumption
    <2>11. CASE Head(queue).to # NoConn /\ Head(queue).sig \in StateSignal
      <3> DEFINE c == Head(queue).to
      <3>1. c \in Conn
        BY <2>2, <2>11 DEF Event
      <3>2. SetConnectionState(c, Shows(Head(queue).sig))
        BY <1>4, <2>11 DEF Deliver, StateSignal, CloseSignal
      <3> QED
        BY <2>1, <2>11, <3>1, <3>2, <2>3, <2>4
           DEF SetConnectionState, ShowInDocks, viewVars, Shows, StateSignal
    <2>12. CASE Head(queue).to # NoConn /\ Head(queue).sig \in CloseSignal
      <3> DEFINE c == Head(queue).to
      <3>1. /\ c \in Conn
            /\ ForwardConnClosed(c, Head(queue).sig = "closedOnView")
            /\ UNCHANGED <<item, busy>>
        BY <1>4, <2>2, <2>12 DEF Deliver, Event, StateSignal, CloseSignal
      <3>2. Head(queue).sig \notin StateSignal
        BY <2>12 DEF StateSignal, CloseSignal
      <3> QED
        BY <2>1, <2>12, <3>1, <3>2, <2>3, <2>4 DEF ForwardConnClosed, StateSignal
    <2> QED BY <2>2, <2>10, <2>11, <2>12 DEF Event
  <1>5. CASE CloseOverview
    BY <1>0, <1>5 DEF CloseOverview, NoneOnView, threadVars
  <1>6. CASE RefreshLocalhost \/ SearchComplete
    BY <1>0, <1>6 DEF RefreshLocalhost, SearchComplete, threadVars, viewVars
  <1>7. CASE EntityControlsUpdated
    BY <1>0, <1>7 DEF EntityControlsUpdated, threadVars
  <1>8. CASE UNCHANGED vars
    BY <1>0, <1>8 DEF vars, threadVars, viewVars
  <1> QED BY <1>1, <1>2, <1>3, <1>4, <1>5, <1>6, <1>7, <1>8 DEF Next

\* UnrestHasCause is kept by every step, with the help of IdleIsSettled when
\* the thread ends or an event is delivered.
LEMMA UnrestStep ==
    TypeOK /\ IdleIsSettled /\ UnrestHasCause /\ [Next]_vars => UnrestHasCause'
  <1> SUFFICES ASSUME TypeOK, IdleIsSettled, UnrestHasCause, [Next]_vars PROVE UnrestHasCause'
    OBVIOUS
  <1> USE DEF TypeOK, IdleIsSettled, UnrestHasCause
  <1>0. UNCHANGED queue => \A d \in Conn :
                              /\ (Pending(d, StateSignal)' <=> Pending(d, StateSignal))
                              /\ (SettledAtLast(d)' <=> SettledAtLast(d))
    BY DEF Pending, SettledAtLast
  <1>1. ASSUME NEW c \in Conn, Worker(c) PROVE UnrestHasCause'
    <2>1. CASE Started(c)
      <3> DEFINE e == [to |-> c, sig |-> "started"]
      <3>1. e \in Event /\ queue' = Append(queue, e)
        BY <2>1 DEF Started, Emit, Event, StateSignal
      <3>2. \A d \in Conn : Pending(d, StateSignal)' <=>
               Pending(d, StateSignal) \/ (d = c /\ "started" \in StateSignal)
        BY <3>1, PendingPosted
      <3>3. \A d \in Conn : SettledAtLast(d) /\ (d # c \/ "started" \in CloseSignal)
                           => SettledAtLast(d)'
        BY <3>1, SettledPosted
      <3> QED BY <2>1, <3>2, <3>3 DEF Started, StateSignal, CloseSignal, viewVars
    <2>2. CASE OpenSucceeds(c)
      <3> DEFINE e == [to |-> c, sig |-> "RUNNING"]
      <3>1. e \in Event /\ queue' = Append(queue, e)
        BY <2>2 DEF OpenSucceeds, Emit, Event, StateSignal
      <3>2. \A d \in Conn : Pending(d, StateSignal)' <=>
               Pending(d, StateSignal) \/ (d = c /\ "RUNNING" \in StateSignal)
        BY <3>1, PendingPosted
      <3>3. \A d \in Conn : SettledAtLast(d) /\ (d # c \/ "RUNNING" \in CloseSignal)
                           => SettledAtLast(d)'
        BY <3>1, SettledPosted
      <3> QED BY <2>2, <3>2, <3>3 DEF OpenSucceeds, StateSignal, CloseSignal, viewVars
    <2>3. CASE OpenFails(c)
      <3> DEFINE e == [to |-> c, sig |-> "FAILED"]
      <3>1. e \in Event /\ queue' = Append(queue, e)
        BY <2>3 DEF OpenFails, Emit, Event, StateSignal
      <3>2. \A d \in Conn : Pending(d, StateSignal)' <=>
               Pending(d, StateSignal) \/ (d = c /\ "FAILED" \in StateSignal)
        BY <3>1, PendingPosted
      <3>3. \A d \in Conn : SettledAtLast(d) /\ (d # c \/ "FAILED" \in CloseSignal)
                           => SettledAtLast(d)'
        BY <3>1, SettledPosted
      <3> QED BY <2>3, <3>2, <3>3 DEF OpenFails, StateSignal, CloseSignal, viewVars
    <2>4. CASE RegisterConnEvents(c)
      BY <1>0, <2>4 DEF RegisterConnEvents, viewVars
    <2>5. CASE LeaveLoop(c)
      <3> DEFINE e == [to |-> c, sig |-> "finished"]
      <3>1. e \in Event /\ queue' = Append(queue, e)
        BY <2>5 DEF LeaveLoop, Emit, Event, StateSignal
      <3>2. \A d \in Conn : Pending(d, StateSignal)' <=>
               Pending(d, StateSignal) \/ (d = c /\ "finished" \in StateSignal)
        BY <3>1, PendingPosted
      <3>3. \A d \in Conn : SettledAtLast(d) /\ (d # c \/ "finished" \in CloseSignal)
                           => SettledAtLast(d)'
        BY <3>1, SettledPosted
      <3>8. SettledAtLast(c)'
        BY <3>1, SettledPosted
      <3> QED BY <2>5, <3>2, <3>3, <3>8 DEF LeaveLoop, StateSignal, CloseSignal, viewVars
    <2> QED BY <1>1, <2>1, <2>2, <2>3, <2>4, <2>5 DEF Worker
  <1>2. ASSUME NEW c \in Conn, RemoteClose(c) PROVE UnrestHasCause'
    <2>1. CASE closeCb[c] /\ thread[c] # "opened"
      <3> DEFINE sig == IF onView[c] THEN "closedOnView" ELSE "closedOffView"
                 e == [to |-> c, sig |-> sig]
      <3>1. e \in Event /\ queue' = Append(queue, e)
        BY <1>2, <2>1 DEF RemoteClose, Emit, Event, CloseSignal
      <3>2. sig \in CloseSignal /\ sig \notin StateSignal
        BY DEF CloseSignal, StateSignal
      <3>3. \A d \in Conn : Pending(d, StateSignal)' <=>
               Pending(d, StateSignal) \/ (d = c /\ sig \in StateSignal)
        BY <3>1, PendingPosted
      <3>4. \A d \in Conn : SettledAtLast(d) /\ (d # c \/ sig \in CloseSignal)
                           => SettledAtLast(d)'
        BY <3>1, SettledPosted
      <3>8. /\ ptr' = [ptr EXCEPT ![c] = "dead"]
            /\ keepAlive' = [keepAlive EXCEPT ![c] = FALSE]
            /\ UNCHANGED <<item, busy, thread, onView, onViewExist, docks>>
        BY <1>2, <2>1 DEF RemoteClose, viewVars
      <3> HIDE DEF sig, e
      <3> QED BY <3>2, <3>3, <3>4, <3>8
    <2>2. CASE ~(closeCb[c] /\ thread[c] # "opened")
      BY <1>0, <1>2, <2>2 DEF RemoteClose, viewVars
    <2> QED BY <2>1, <2>2
  <1>3. ASSUME NEW c \in Conn, User(c) PROVE UnrestHasCause'
    <2>1. CASE CreateConnection(c)
      BY <1>0, <2>1 DEF CreateConnection, viewVars
    <2>2. CASE OpenItem(c)
      BY <1>0, <2>2 DEF OpenItem, viewVars, CONN_STATE
    <2>3. CASE CloseItem(c)
      BY <1>0, <2>3 DEF CloseItem, CloseConnection, SetConnectionState, ForwardConnClosed, viewVars
    <2>4. CASE OverviewItem(c)
      BY <1>0, <2>4 DEF OverviewItem, NoneOnView, ShowInDocks, threadVars
    <2>5. CASE DeleteConnection(c)
      <3>1. CASE thread[c] # "idle"
        BY <1>0, <2>5, <3>1 DEF DeleteConnection, threadVars
      <3>2. CASE thread[c] = "idle"
        <4>1. \A d \in Conn : d # c => (Pending(d, StateSignal)' <=> Pending(d, StateSignal))
          BY <2>5, <3>2, PendingDropped DEF DeleteConnection
        <4>2. \A d \in Conn : SettledAtLast(d) => SettledAtLast(d)'
          BY <2>5, <3>2, SettledDropped DEF DeleteConnection
        <4>5. /\ item' = [item EXCEPT ![c] = "absent"]
              /\ ptr' = [ptr EXCEPT ![c] = "null"]
              /\ onView' = [onView EXCEPT ![c] = FALSE]
              /\ keepAlive' = [keepAlive EXCEPT ![c] = FALSE]
              /\ UNCHANGED <<thread, busy, onViewExist, docks>>
              /\ ~busy[c] /\ item[c] # "RUNNING"
          BY <2>5, <3>2 DEF DeleteConnection
        <4> QED BY <4>1, <4>2, <3>2, <4>5
      <3> QED BY <3>1, <3>2
    <2> QED BY <1>3, <2>1, <2>2, <2>3, <2>4, <2>5 DEF User
  <1>4. CASE Deliver
    <2>1. UNCHANGED <<thread, keepAlive, ptr, closeCb, searching, aborted>>
      BY <1>4 DEF Deliver, threadVars
    <2>2. /\ Head(queue) \in Event
          /\ queue # <<>> /\ queue' = Tail(queue)
      BY <1>4, DeliveredEvent DEF Deliver
    <2>3. \A d \in Conn : Pending(d, StateSignal)' => Pending(d, StateSignal)
      BY <2>2, PendingDelivered
    <2>4. \A d \in Conn : Pending(d, StateSignal) /\ ~(Head(queue).to = d /\ Head(queue).sig \in StateSignal)
                        => Pending(d, StateSignal)'
      BY <2>2, PendingDelivered
    <2>5. \A d \in Conn : SettledAtLast(d) => SettledAtLast(d)'
      BY <2>2, SettledDelivered
    <2>6. \A d \in Conn : SettledAtLast(d) /\ Head(queue).to = d /\ Head(queue).sig \in {"started", "RUNNING"}
                        => Pending(d, StateSignal)'
      BY <2>2, SettledDelivered
    <2>10. CASE Head(queue).to = NoConn
      <3>1. UNCHANGED <<item, busy, onView, onViewExist, docks>>
        BY <1>4, <2>2, <2>10 DEF Deliver, viewVars
      <3> QED BY <2>1, <2>10, <3>1, <2>3, <2>4, <2>5, <2>6, ConnAssumption
    <2>11. CASE Head(queue).to # NoConn /\ Head(queue).sig \in StateSignal
      <3> DEFINE c == Head(queue).to
      <3>1. c \in Conn
        BY <2>2, <2>11 DEF Event
      <3>2. SetConnectionState(c, Shows(Head(queue).sig))
        BY <1>4, <2>11 DEF Deliver, StateSignal, CloseSignal
      <3> QED
        BY <2>1, <2>11, <3>1, <3>2, <2>3, <2>4, <2>5, <2>6
           DEF SetConnectionState, ShowInDocks, viewVars, Shows, StateSignal
    <2>12. CASE Head(queue).to # NoConn /\ Head(queue).sig \in CloseSignal
      <3> DEFINE c == Head(queue).to
      <3>1. /\ c \in Conn
            /\ ForwardConnClosed(c, Head(queue).sig = "closedOnView")
            /\ UNCHANGED <<item, busy>>
        BY <1>4, <2>2, <2>12 DEF Deliver, Event, StateSignal, CloseSignal
      <3>2. Head(queue).sig \notin StateSignal
        BY <2>12 DEF StateSignal, CloseSignal
      <3> QED
        BY <2>1, <2>12, <3>1, <3>2, <2>3, <2>4, <2>5, <2>6 DEF ForwardConnClosed, StateSignal
    <2> QED BY <2>2, <2>10, <2>11, <2>12 DEF Event
  <1>5. CASE CloseOverview
    BY <1>0, <1>5 DEF CloseOverview, NoneOnView, threadVars
  <1>6. CASE RefreshLocalhost \/ SearchComplete
    BY <1>0, <1>6 DEF RefreshLocalhost, SearchComplete, threadVars, viewVars
  <1>7. CASE EntityControlsUpdated
    BY <1>0, <1>7 DEF EntityControlsUpdated, threadVars
  <1>8. CASE UNCHANGED vars
    BY <1>0, <1>8 DEF vars, threadVars, viewVars
  <1> QED BY <1>1, <1>2, <1>3, <1>4, <1>5, <1>6, <1>7, <1>8 DEF Next

----------------------------------------------------------------------------
(* A live handle is shown.                                                 *)

\* LiveHandleIsShown is kept by every step: a live handle has a thread that
\* stays in its loop and posts nothing behind RUNNING.
LEMMA ShownStep ==
    TypeOK /\ AbsentIsGone /\ LiveHandleIsWatched /\ LiveHandleIsShown /\ [Next]_vars => LiveHandleIsShown'
  <1> SUFFICES ASSUME TypeOK, AbsentIsGone, LiveHandleIsWatched, LiveHandleIsShown, [Next]_vars PROVE LiveHandleIsShown'
    OBVIOUS
  <1> USE DEF TypeOK, LiveHandleIsWatched, LiveHandleIsShown, AbsentIsGone
  <1>0. UNCHANGED queue => \A d \in Conn :
                              /\ (Pending(d, StateSignal)' <=> Pending(d, StateSignal))
                              /\ (RunningIsLast(d)' <=> RunningIsLast(d))
    BY DEF Pending, RunningIsLast
  <1>1. ASSUME NEW c \in Conn, Worker(c) PROVE LiveHandleIsShown'
    <2>1. CASE Started(c)
      <3> DEFINE e == [to |-> c, sig |-> "started"]
      <3>1. e \in Event /\ queue' = Append(queue, e)
        BY <2>1 DEF Started, Emit, Event, StateSignal
      <3>2. \A d \in Conn : Pending(d, StateSignal)' <=>
               Pending(d, StateSignal) \/ (d = c /\ "started" \in StateSignal)
        BY <3>1, PendingPosted
      <3>3. \A d \in Conn : RunningIsLast(d) /\ (d # c \/ "started" \in CloseSignal)
                           => RunningIsLast(d)'
        BY <3>1, RunningPosted
      <3> QED BY <2>1, <3>2, <3>3 DEF Started, StateSignal, CloseSignal, viewVars
    <2>2. CASE OpenSucceeds(c)
      <3> DEFINE e == [to |-> c, sig |-> "RUNNING"]
      <3>1. e \in Event /\ queue' = Append(queue, e)
        BY <2>2 DEF OpenSucceeds, Emit, Event, StateSignal
      <3>2. \A d \in Conn : Pending(d, StateSignal)' <=>
               Pending(d, StateSignal) \/ (d = c /\ "RUNNING" \in StateSignal)
        BY <3>1, PendingPosted
      <3>3. \A d \in Conn : RunningIsLast(d) /\ (d # c \/ "RUNNING" \in CloseSignal)
                           => RunningIsLast(d)'
        BY <3>1, RunningPosted
      <3>8. RunningIsLast(c)'
        BY <3>1, RunningPosted
      <3> QED BY <2>2, <3>2, <3>3, <3>8 DEF OpenSucceeds, StateSignal, CloseSignal, viewVars
    <2>3. CASE OpenFails(c)
      <3> DEFINE e == [to |-> c, sig |-> "FAILED"]
      <3>1. e \in Event /\ queue' = Append(queue, e)
        BY <2>3 DEF OpenFails, Emit, Event, StateSignal
      <3>2. \A d \in Conn : Pending(d, StateSignal)' <=>
               Pending(d, StateSignal) \/ (d = c /\ "FAILED" \in StateSignal)
        BY <3>1, PendingPosted
      <3>3. \A d \in Conn : RunningIsLast(d) /\ (d # c \/ "FAILED" \in CloseSignal)
                           => RunningIsLast(d)'
        BY <3>1, RunningPosted
      <3> QED BY <2>3, <3>2, <3>3 DEF OpenFails, StateSignal, CloseSignal, viewVars
    <2>4. CASE RegisterConnEvents(c)
      BY <1>0, <2>4 DEF RegisterConnEvents, viewVars
    <2>5. CASE LeaveLoop(c)
      <3> DEFINE e == [to |-> c, sig |-> "finished"]
      <3>1. e \in Event /\ queue' = Append(queue, e)
        BY <2>5 DEF LeaveLoop, Emit, Event, StateSignal
      <3>2. \A d \in Conn : Pending(d, StateSignal)' <=>
               Pending(d, StateSignal) \/ (d = c /\ "finished" \in StateSignal)
        BY <3>1, PendingPosted
      <3>3. \A d \in Conn : RunningIsLast(d) /\ (d # c \/ "finished" \in CloseSignal)
                           => RunningIsLast(d)'
        BY <3>1, RunningPosted
      <3> QED BY <2>5, <3>2, <3>3 DEF LeaveLoop, StateSignal, CloseSignal, viewVars
    <2> QED BY <1>1, <2>1, <2>2, <2>3, <2>4, <2>5 DEF Worker
  <1>2. ASSUME NEW c \in Conn, RemoteClose(c) PROVE LiveHandleIsShown'
    <2>1. CASE closeCb[c] /\ thread[c] # "opened"
      <3> DEFINE sig == IF onView[c] THEN "closedOnView" ELSE "closedOffView"
                 e == [to |-> c, sig |-> sig]
      <3>1. e \in Event /\ queue' = Append(queue, e)
        BY <1>2, <2>1 DEF RemoteClose, Emit, Event, CloseSignal
      <3>2. sig \in CloseSignal /\ sig \notin StateSignal
        BY DEF CloseSignal, StateSignal
      <3>3. \A d \in Conn : Pending(d, StateSignal)' <=>
               Pending(d, StateSignal) \/ (d = c /\ sig \in StateSignal)
        BY <3>1, PendingPosted
      <3>4. \A d \in Conn : RunningIsLast(d) /\ (d # c \/ sig \in CloseSignal)
                           => RunningIsLast(d)'
        BY <3>1, RunningPosted
      <3>8. /\ ptr' = [ptr EXCEPT ![c] = "dead"]
            /\ keepAlive' = [keepAlive EXCEPT ![c] = FALSE]
            /\ UNCHANGED <<item, busy, thread, onView, onViewExist, docks>>
        BY <1>2, <2>1 DEF RemoteClose, viewVars
      <3> HIDE DEF sig, e
      <3> QED BY <3>2, <3>3, <3>4, <3>8
    <2>2. CASE ~(closeCb[c] /\ thread[c] # "opened")
      BY <1>0, <1>2, <2>2 DEF RemoteClose, viewVars
    <2> QED BY <2>1, <2>2
  <1>3. ASSUME NEW c \in Conn, User(c) PROVE LiveHandleIsShown'
    <2>1. CASE CreateConnection(c)
      BY <1>0, <2>1 DEF CreateConnection, viewVars
    <2>2. CASE OpenItem(c)
      BY <1>0, <2>2 DEF OpenItem, viewVars, CONN_STATE
    <2>3. CASE CloseItem(c)
      BY <1>0, <2>3 DEF CloseItem, CloseConnection, SetConnectionState, ForwardConnClosed, viewVars
    <2>4. CASE OverviewItem(c)
      BY <1>0, <2>4 DEF OverviewItem, NoneOnView, ShowInDocks, threadVars
    <2>5. CASE DeleteConnection(c)
      <3>1. CASE thread[c] # "idle"
        BY <1>0, <2>5, <3>1 DEF DeleteConnection, threadVars
      <3>2. CASE thread[c] = "idle"
        <4>1. \A d \in Conn : d # c => (Pending(d, StateSignal)' <=> Pending(d, StateSignal))
          BY <2>5, <3>2, PendingDropped DEF DeleteConnection
        <4>2. \A d \in Conn : d # c /\ RunningIsLast(d) => RunningIsLast(d)'
          BY <2>5, <3>2, RunningDropped DEF DeleteConnection
        <4>5. /\ item' = [item EXCEPT ![c] = "absent"]
              /\ ptr' = [ptr EXCEPT ![c] = "null"]
              /\ onView' = [onView EXCEPT ![c] = FALSE]
              /\ keepAlive' = [keepAlive EXCEPT ![c] = FALSE]
              /\ UNCHANGED <<thread, busy, onViewExist, docks>>
              /\ ~busy[c] /\ item[c] # "RUNNING"
          BY <2>5, <3>2 DEF DeleteConnection
        <4> QED BY <4>1, <4>2, <3>2, <4>5
      <3> QED BY <3>1, <3>2
    <2> QED BY <1>3, <2>1, <2>2, <2>3, <2>4, <2>5 DEF User
  <1>4. CASE Deliver
    <2>1. UNCHANGED <<thread, keepAlive, ptr, closeCb, searching, aborted>>
      BY <1>4 DEF Deliver, threadVars
    <2>2. /\ Head(queue) \in Event
          /\ queue # <<>> /\ queue' = Tail(queue)
      BY <1>4, DeliveredEvent DEF Deliver
    <2>3. \A d \in Conn : Pending(d, StateSignal)' => Pending(d, StateSignal)
      BY <2>2, PendingDelivered
    <2>4. \A d \in Conn : Pending(d, StateSignal) /\ ~(Head(queue).to = d /\ Head(queue).sig \in StateSignal)
                        => Pending(d, StateSignal)'
      BY <2>2, PendingDelivered
    <2>5. \A d \in Conn : RunningIsLast(d) => RunningIsLast(d)' \/ (Head(queue).to = d /\ Head(queue).sig = "RUNNING" /\ ~Pending(d, StateSignal)')
      BY <2>2, RunningDelivered
    <2>10. CASE Head(queue).to = NoConn
      <3>1. UNCHANGED <<item, busy, onView, onViewExist, docks>>
        BY <1>4, <2>2, <2>10 DEF Deliver, viewVars
      <3> QED BY <2>1, <2>10, <3>1, <2>3, <2>4, <2>5, ConnAssumption
    <2>11. CASE Head(queue).to # NoConn /\ Head(queue).sig \in StateSignal
      <3>1. PICK c \in Conn : c = Head(queue).to
        BY <2>2, <2>11 DEF Event
      <3>2. SetConnectionState(c, Shows(Head(queue).sig))
        BY <1>4, <2>11, <3>1 DEF Deliver, StateSignal, CloseSignal
      <3>3. Pending(c, StateSignal)
        <4>1. 1 \in DOMAIN queue /\ queue[1] = Head(queue)
          BY <2>2, DeliveredEvent
        <4> QED BY <2>11, <3>1, <4>1 DEF Pending
      <3>4. /\ item' = [item EXCEPT ![c] = Shows(Head(queue).sig)]
            /\ Head(queue).sig = "RUNNING" => Shows(Head(queue).sig) = "RUNNING"
        BY <3>2 DEF SetConnectionState, Shows
      <3>5. ASSUME NEW d \in Conn, ptr[d] = "open", d # c
            PROVE  \/ item'[d] = "RUNNING" /\ ~Pending(d, StateSignal)'
                   \/ RunningIsLast(d)'
        BY <2>3, <2>5, <3>1, <3>4, <3>5
      <3>6. ASSUME ptr[c] = "open"
            PROVE  \/ item'[c] = "RUNNING" /\ ~Pending(c, StateSignal)'
                   \/ RunningIsLast(c)'
        <4>1. RunningIsLast(c)
          BY <3>3, <3>6
        <4> QED BY <2>5, <3>1, <3>4, <4>1
      <3> QED BY <2>1, <3>5, <3>6
    <2>12. CASE Head(queue).to # NoConn /\ Head(queue).sig \in CloseSignal
      <3> DEFINE c == Head(queue).to
      <3>1. /\ c \in Conn
            /\ ForwardConnClosed(c, Head(queue).sig = "closedOnView")
            /\ UNCHANGED <<item, busy>>
        BY <1>4, <2>2, <2>12 DEF Deliver, Event, StateSignal, CloseSignal
      <3>2. Head(queue).sig \notin StateSignal
        BY <2>12 DEF StateSignal, CloseSignal
      <3> QED
        BY <2>1, <2>12, <3>1, <3>2, <2>3, <2>4, <2>5 DEF ForwardConnClosed, StateSignal
    <2> QED BY <2>2, <2>10, <2>11, <2>12 DEF Event
  <1>5. CASE CloseOverview
    BY <1>0, <1>5 DEF CloseOverview, NoneOnView, threadVars
  <1>6. CASE RefreshLocalhost \/ SearchComplete
    BY <1>0, <1>6 DEF RefreshLocalhost, SearchComplete, threadVars, viewVars
  <1>7. CASE EntityControlsUpdated
    BY <1>0, <1>7 DEF EntityControlsUpdated, threadVars
  <1>8. CASE UNCHANGED vars
    BY <1>0, <1>8 DEF vars, threadVars, viewVars
  <1> QED BY <1>1, <1>2, <1>3, <1>4, <1>5, <1>6, <1>7, <1>8 DEF Next

----------------------------------------------------------------------------
(* The invariants, in every state of the connection list.                  *)

\* The list starts with rows at rest or with their threads about to start,
\* empty docks and an empty queue.
LEMMA InvariantsInitially ==
    Init => /\ AbsentIsGone /\ LiveHandleIsWatched /\ LiveHandleIsShown
            /\ FlagMatchesDocks /\ IdleIsSettled /\ UnrestHasCause
  <1> SUFFICES ASSUME Init
               PROVE  /\ AbsentIsGone /\ LiveHandleIsWatched /\ LiveHandleIsShown
                      /\ FlagMatchesDocks /\ IdleIsSettled /\ UnrestHasCause
    OBVIOUS
  <1>1. PICK saved \in SUBSET Conn : \E atStart \in SUBSET saved :
           /\ item = [c \in Conn |-> IF c \in saved THEN "CLOSED" ELSE "absent"]
           /\ busy = [c \in Conn |-> c \in atStart]
           /\ thread = [c \in Conn |-> IF c \in atStart THEN "starting" ELSE "idle"]
    BY DEF Init
  <1>2. PICK atStart \in SUBSET saved :
           /\ item = [c \in Conn |-> IF c \in saved THEN "CLOSED" ELSE "absent"]
           /\ busy = [c \in Conn |-> c \in atStart]
           /\ thread = [c \in Conn |-> IF c \in atStart THEN "starting" ELSE "idle"]
    BY <1>1
  <1>3. \A c \in Conn : busy[c] <=> c \in atStart
    BY <1>2
  <1>4. \A c \in Conn : /\ item[c] \in {"CLOSED", "absent"}
                        /\ item[c] = "absent" => thread[c] = "idle" /\ c \notin atStart
                        /\ c \in atStart => thread[c] = "starting"
    BY <1>2
  <1>5. /\ \A c \in Conn : ptr[c] = "null" /\ ~onView[c]
        /\ ~onViewExist /\ docks = NoConn
        /\ DOMAIN queue = {}
    BY DEF Init
  <1>6. AbsentIsGone /\ UnrestHasCause
    BY <1>3, <1>4, <1>5 DEF AbsentIsGone, UnrestHasCause
  <1>7. LiveHandleIsWatched /\ LiveHandleIsShown /\ FlagMatchesDocks
    BY <1>5 DEF LiveHandleIsWatched, LiveHandleIsShown, FlagMatchesDocks
  <1>8. IdleIsSettled
    BY <1>5 DEF IdleIsSettled, SettledAtLast
  <1> QED BY <1>6, <1>7, <1>8

\* A row that left the list left nothing behind that could bring it back.
THEOREM AbsentStaysGone == Spec => []AbsentIsGone
  BY InvariantsInitially, AbsentStep, TypeCorrect, PTL DEF Spec

\* Every row at unrest has a thread or an event that will set it right.
THEOREM UnrestCaused == Spec => []UnrestHasCause
  BY InvariantsInitially, SettledStep, UnrestStep, TypeCorrect, AbsentStaysGone, PTL
     DEF Spec

\* No interleaving of the user, the threads and the peers orphans a live handle.
THEOREM HandlesWatched == Spec => []LiveHandleIsWatched
  BY InvariantsInitially, WatchedStep, TypeCorrect, AbsentStaysGone, PTL DEF Spec

\* No interleaving leaves the user without a RUNNING row to close a live handle.
THEOREM HandlesShown == Spec => []LiveHandleIsShown
  BY InvariantsInitially, ShownStep, TypeCorrect, AbsentStaysGone, HandlesWatched, PTL
     DEF Spec

\* The list and the main window agree on whether a connection is on view.
THEOREM FlagAndDocksAgree == Spec => []FlagMatchesDocks
  BY InvariantsInitially, FlagStep, TypeCorrect, PTL DEF Spec

----------------------------------------------------------------------------
(* What is shown, what will be, and what the thread posts next.            *)

\* The states the row of c will show: the one it shows now is at place 0, the one
\* of each queued state event at the place of the event.
Shown(c, i) == IF i = 0 THEN item[c] ELSE Shows(queue[i].sig)
Place(c, i) == i = 0 \/ (i \in DOMAIN queue /\ queue[i].to = c /\ queue[i].sig \in StateSignal)
Places(c) == {i \in 0 .. Len(queue) : Place(c, i)}

\* What is shown, and the state signal that may come next.
MayFollow == { <<"CLOSED", "started">>, <<"CONNECT", "RUNNING">>, <<"CONNECT", "FAILED">>,
               <<"RUNNING", "finished">>, <<"FAILED", "finished">>, <<"CLOSED", "finished">> }

\* What will be shown at last, and where the thread is.
MayEnd == { <<"absent", "idle">>, <<"CLOSED", "idle">>, <<"CLOSED", "starting">>,
            <<"CONNECT", "opening">> }
          \cup ({"RUNNING", "FAILED", "CLOSED"} \X {"opened", "loop"})

\* Each queued state follows the one before it.
Chained(c) ==
    \A i, j \in Places(c) :
        i < j /\ (\A k \in Places(c) : k <= i \/ k >= j) => <<Shown(c, i), queue[j].sig>> \in MayFollow

\* The last one fits the thread, which posts the next.
Ended(c) ==
    \A i \in Places(c) : (\A k \in Places(c) : k <= i) => <<Shown(c, i), thread[c]>> \in MayEnd

InOrder(c) == Chained(c) /\ Ended(c)
AllInOrder == \A c \in Conn : InOrder(c)

LEMMA PlacesType ==
    ASSUME TypeOK, NEW c
    PROVE  /\ Len(queue) \in Nat /\ DOMAIN queue = 1 .. Len(queue)
           /\ Places(c) \subseteq 0 .. Len(queue) /\ 0 \in Places(c)
           /\ \A i \in 1 .. Len(queue) :
                 i \in Places(c) <=> queue[i].to = c /\ queue[i].sig \in StateSignal
  BY DEF TypeOK, Places, Place

\* A step that changes neither the row and the thread of a connection nor its events.
LEMMA OrderUnmoved ==
    ASSUME NEW c \in Conn, InOrder(c), Places(c)' = Places(c),
           item'[c] = item[c], thread'[c] = thread[c],
           \A i \in Places(c) : i # 0 => queue'[i] = queue[i]
    PROVE  InOrder(c)'
  <1>1. \A i \in Places(c) : Shown(c, i)' = Shown(c, i)
    BY DEF Shown, Shows
  <1>2. \A i \in Places(c) : i \in Nat
    BY DEF Places
  <1> QED BY <1>1, <1>2 DEF InOrder, Chained, Ended

\* An event that is none of the states of c changes nothing for c.
LEMMA OrderPostedElse ==
    ASSUME TypeOK, NEW c \in Conn, InOrder(c), NEW e \in Event,
           e.to # c \/ e.sig \notin StateSignal, queue' = Append(queue, e),
           item'[c] = item[c], thread'[c] = thread[c]
    PROVE  InOrder(c)'
  <1>1. /\ DOMAIN queue = 1 .. Len(queue) /\ Len(queue) \in Nat
        /\ DOMAIN queue' = 1 .. Len(queue) + 1 /\ Len(queue') = Len(queue) + 1
        /\ \A i \in 1 .. Len(queue) : queue'[i] = queue[i]
        /\ queue'[Len(queue) + 1] = e
    BY PostedEvent DEF TypeOK
  <1>2. Places(c)' = Places(c)
    BY <1>1 DEF Places, Place
  <1>3. \A i \in Places(c) : i # 0 => queue'[i] = queue[i]
    BY <1>1 DEF Places
  <1> QED BY <1>2, <1>3, OrderUnmoved

\* The thread posts a state that may follow the last one, and goes on to where that
\* one may be the last.
LEMMA OrderPosted ==
    ASSUME TypeOK, NEW c \in Conn, InOrder(c), NEW sig \in StateSignal,
           queue' = Append(queue, [to |-> c, sig |-> sig]), item'[c] = item[c],
           \A state : <<state, thread[c]>> \in MayEnd => <<state, sig>> \in MayFollow,
           <<Shows(sig), thread'[c]>> \in MayEnd
    PROVE  InOrder(c)'
  <1> PICK n \in Nat : n = Len(queue) + 1
    BY PlacesType
  <1>0. [to |-> c, sig |-> sig] \in Event
    BY DEF Event
  <1>1. /\ DOMAIN queue = 1 .. Len(queue) /\ Len(queue) \in Nat
        /\ DOMAIN queue' = 1 .. n /\ Len(queue') = n
        /\ \A i \in 1 .. Len(queue) : queue'[i] = queue[i]
        /\ queue'[n].to = c /\ queue'[n].sig = sig
    BY <1>0, PostedEvent DEF TypeOK
  <1>2. Places(c)' = Places(c) \cup {n}
    BY <1>1 DEF Places, Place
  <1>3. /\ \A i \in Places(c) : i \in Nat /\ i < n /\ Shown(c, i)' = Shown(c, i)
        /\ \A i \in Places(c) : i # 0 => queue'[i] = queue[i]
        /\ Shown(c, n)' = Shows(sig)
    <2>1. \A i \in Places(c) : i \in Nat /\ i < n /\ (i # 0 => queue'[i] = queue[i])
      BY <1>1 DEF Places
    <2>2. \A i \in Places(c) : Shown(c, i)' = Shown(c, i)
      BY <2>1 DEF Shown, Shows
    <2>3. n # 0
      BY <1>1
    <2>4. Shown(c, n)' = Shows(sig)
      BY <1>1, <2>3 DEF Shown, Shows
    <2> QED BY <2>1, <2>2, <2>4
  <1>4. n \in Nat
    OBVIOUS
  <1>5. Chained(c)'
    <2> SUFFICES ASSUME NEW i \in Places(c)', NEW j \in Places(c)', i < j,
                        \A k \in Places(c)' : k <= i \/ k >= j
                 PROVE  <<Shown(c, i)', queue'[j].sig>> \in MayFollow
      BY DEF Chained
    <2>1. i \in Places(c) /\ i \in Nat
      BY <1>2, <1>3, <1>4
    <2>2. CASE j = n
      <3>1. \A k \in Places(c) : k <= i
        BY <1>2, <1>3, <1>4, <2>1, <2>2
      <3>2. <<Shown(c, i), thread[c]>> \in MayEnd
        BY <2>1, <3>1 DEF InOrder, Ended
      <3> QED BY <1>1, <1>3, <2>1, <2>2, <3>2
    <2>3. CASE j \in Places(c)
      <3>1. j # 0
        BY <2>1
      <3>2. <<Shown(c, i), queue[j].sig>> \in MayFollow
        BY <1>2, <2>1, <2>3 DEF InOrder, Chained
      <3> QED BY <1>3, <2>1, <2>3, <3>1, <3>2
    <2> QED BY <1>2, <2>2, <2>3
  <1>6. Ended(c)'
    <2>1. \A i \in Places(c)' : (\A k \in Places(c)' : k <= i) => i = n
      BY <1>2, <1>3, <1>4
    <2>2. <<Shown(c, n)', thread'[c]>> \in MayEnd
      BY <1>3
    <2> QED BY <2>1, <2>2 DEF Ended
  <1> QED BY <1>5, <1>6 DEF InOrder

\* The first event of the queue is gone, and shown if it is a state of c.
LEMMA OrderDelivered ==
    ASSUME TypeOK, NEW c \in Conn, InOrder(c), queue # <<>>, queue' = Tail(queue),
           thread'[c] = thread[c],
           item'[c] = IF 1 \in Places(c) THEN Shows(queue[1].sig) ELSE item[c]
    PROVE  InOrder(c)'
  <1>1. /\ DOMAIN queue = 1 .. Len(queue) /\ Len(queue) \in Nat \ {0}
        /\ DOMAIN queue' = 1 .. Len(queue) - 1 /\ Len(queue') = Len(queue) - 1
        /\ \A i \in 1 .. Len(queue) - 1 : queue'[i] = queue[i + 1]
    BY DeliveredEvent DEF TypeOK
  \* Where each place has been.
  <1> DEFINE Old(i) == IF i = 0 /\ 1 \notin Places(c) THEN 0 ELSE i + 1
  <1>2. \A i \in Places(c)' : i \in Nat /\ Old(i) \in Places(c) /\ (i # 0 => Old(i) = i + 1)
    BY <1>1 DEF Places, Place
  <1>3. \A i \in Places(c)' : Shown(c, i)' = Shown(c, Old(i))
    BY <1>1 DEF Places, Place, Shown, Shows
  <1>4. \A i \in Places(c)' : i # 0 => queue'[i].sig = queue[Old(i)].sig
    BY <1>1 DEF Places, Place
  <1>5. \A k \in Places(c) : k \in Nat /\ (k > 1 => k - 1 \in Places(c)')
    BY <1>1 DEF Places, Place
  <1>6. 0 \in Places(c)'
    BY <1>1 DEF Places, Place
  <1>7. \A i \in Places(c)' : (\A k \in Places(c)' : k <= i) => \A k \in Places(c) : k <= Old(i)
    BY <1>2, <1>5, <1>6
  <1>8. \A i, j \in Places(c)' : i < j /\ (\A k \in Places(c)' : k <= i \/ k >= j)
            => /\ Old(i) < Old(j) /\ j # 0
               /\ \A k \in Places(c) : k <= Old(i) \/ k >= Old(j)
    <2> SUFFICES ASSUME NEW i \in Places(c)', NEW j \in Places(c)', i < j,
                        \A k \in Places(c)' : k <= i \/ k >= j
                 PROVE  /\ Old(i) < Old(j) /\ j # 0
                        /\ \A k \in Places(c) : k <= Old(i) \/ k >= Old(j)
      OBVIOUS
    <2>1. i \in Nat /\ j \in Nat /\ j # 0 /\ Old(j) = j + 1
      BY <1>2
    <2>2. ASSUME NEW k \in Places(c) PROVE k <= Old(i) \/ k >= Old(j)
      <3>1. CASE k > 1
        <4>1. k - 1 <= i \/ k - 1 >= j
          BY <1>5, <3>1
        <4>2. Old(i) = i + 1 \/ (i = 0 /\ Old(i) = 0)
          OBVIOUS
        <4> QED BY <1>5, <2>1, <3>1, <4>1, <4>2
      <3>2. CASE k <= 1
        BY <1>2, <1>5, <2>1, <3>2
      <3>3. k \in Nat
        BY <1>5
      <3> QED BY <3>1, <3>2, <3>3
    <2> QED BY <2>1, <2>2
  <1> HIDE DEF Old
  <1>9. Chained(c)'
    BY <1>2, <1>3, <1>4, <1>8 DEF InOrder, Chained
  <1>10. Ended(c)'
    BY <1>2, <1>3, <1>7 DEF InOrder, Ended
  <1> QED BY <1>9, <1>10 DEF InOrder

\* The GUI closes a RUNNING row, or marks it FAILED.
LEMMA OrderClosed ==
    ASSUME TypeOK, NEW c \in Conn, InOrder(c), item[c] = "RUNNING",
           item'[c] \in {"CLOSED", "FAILED"}, thread'[c] = thread[c], queue' = queue
    PROVE  InOrder(c)'
  <1>1. Places(c)' = Places(c) /\ Places(c) \subseteq Nat
    BY DEF Places, Place
  <1>2. \A i \in Places(c) : i # 0 => Shown(c, i)' = Shown(c, i)
    BY DEF Shown, Shows
  <1>3. /\ Shown(c, 0) = "RUNNING" /\ Shown(c, 0)' \in {"CLOSED", "FAILED"}
    BY DEF Shown
  <1>4. \A sig : <<"RUNNING", sig>> \in MayFollow =>
                    <<"CLOSED", sig>> \in MayFollow /\ <<"FAILED", sig>> \in MayFollow
    BY DEF MayFollow
  <1>5. \A at : <<"RUNNING", at>> \in MayEnd =>
                    <<"CLOSED", at>> \in MayEnd /\ <<"FAILED", at>> \in MayEnd
    BY DEF MayEnd
  <1>6. Chained(c)'
    BY <1>1, <1>2, <1>3, <1>4 DEF InOrder, Chained
  <1>7. Ended(c)'
    BY <1>1, <1>2, <1>3, <1>5 DEF InOrder, Ended
  <1> QED BY <1>6, <1>7 DEF InOrder

\* A thread is started: the row is at rest, or will be.
LEMMA OrderStarted ==
    ASSUME TypeOK, NEW c \in Conn, InOrder(c), item[c] # "absent", thread[c] = "idle",
           thread'[c] = "starting", item'[c] = item[c], queue' = queue
    PROVE  InOrder(c)'
  <1>1. Places(c)' = Places(c) /\ \A i : Shown(c, i)' = Shown(c, i)
    BY DEF Places, Place, Shown, Shows
  <1>2. \A i \in Places(c) : Shown(c, i) # "absent"
    BY DEF Places, Place, Shown, Shows, StateSignal
  <1>3. Ended(c)'
    <2> SUFFICES ASSUME NEW i \in Places(c), \A k \in Places(c) : k <= i
                 PROVE  <<Shown(c, i), "starting">> \in MayEnd
      BY <1>1 DEF Ended
    <2>1. <<Shown(c, i), "idle">> \in MayEnd
      BY DEF InOrder, Ended
    <2>2. Shown(c, i) = "CLOSED"
      BY <1>2, <2>1 DEF MayEnd
    <2> QED BY <2>2 DEF MayEnd
  <1> QED BY <1>1, <1>3 DEF InOrder, Chained

\* A row without events is set with its thread: it is created or deleted.
LEMMA OrderSet ==
    ASSUME TypeOK', NEW c \in Conn, <<item'[c], thread'[c]>> \in MayEnd,
           \A i \in DOMAIN queue' : queue'[i].to # c
    PROVE  InOrder(c)'
  <1>1. Places(c)' = {0} /\ Shown(c, 0)' = item'[c]
    BY DEF TypeOK, Places, Place, Shown
  <1> QED BY <1>1 DEF InOrder, Chained, Ended

----------------------------------------------------------------------------
(* Every step keeps the order.                                             *)

\* The thread posts what its place calls for.
LEMMA OrderWorker ==
    ASSUME TypeOK, AllInOrder, NEW d \in Conn, Worker(d), NEW c \in Conn
    PROVE  InOrder(c)'
  <1>1. InOrder(c) /\ item' = item
    BY DEF AllInOrder, Worker, Started, OpenSucceeds, OpenFails, RegisterConnEvents, LeaveLoop
  <1>2. CASE RegisterConnEvents(d)
    <2>1. queue' = queue /\ thread[d] = "opened" /\ thread' = [thread EXCEPT ![d] = "loop"]
      BY <1>2 DEF RegisterConnEvents
    <2>2. CASE d # c
      <3>1. thread'[c] = thread[c] /\ Places(c)' = Places(c)
        BY <2>1, <2>2 DEF TypeOK, Places, Place
      <3> QED BY <1>1, <2>1, <3>1, OrderUnmoved
    <2>3. CASE d = c
      <3>1. Places(c)' = Places(c) /\ \A i : Shown(c, i)' = Shown(c, i)
        BY <1>1, <2>1 DEF Places, Place, Shown, Shows
      <3>2. \A state : <<state, "opened">> \in MayEnd => <<state, "loop">> \in MayEnd
        BY DEF MayEnd
      <3>3. thread[c] = "opened" /\ thread'[c] = "loop"
        BY <2>1, <2>3 DEF TypeOK
      <3> QED BY <1>1, <2>1, <3>1, <3>2, <3>3 DEF InOrder, Chained, Ended
    <2> QED BY <2>2, <2>3
  <1>3. ASSUME NEW sig \in StateSignal, NEW at,
               queue' = Append(queue, [to |-> d, sig |-> sig]),
               thread' = [thread EXCEPT ![d] = at],
               \A state : <<state, thread[d]>> \in MayEnd => <<state, sig>> \in MayFollow,
               <<Shows(sig), at>> \in MayEnd
        PROVE  InOrder(c)'
    <2>1. CASE d = c
      BY <1>1, <1>3, <2>1, OrderPosted DEF TypeOK
    <2>2. CASE d # c
      <3>1. [to |-> d, sig |-> sig] \in Event
        BY DEF Event
      <3>2. thread'[c] = thread[c]
        BY <1>3, <2>2 DEF TypeOK
      <3> QED BY <1>1, <1>3, <2>2, <3>1, <3>2, OrderPostedElse
    <2> QED BY <2>1, <2>2
  <1>4. CASE Started(d)
    <2>1. \A state : <<state, "starting">> \in MayEnd => <<state, "started">> \in MayFollow
      BY DEF MayEnd, MayFollow
    <2>2. "started" \in StateSignal /\ <<Shows("started"), "opening">> \in MayEnd
      BY DEF StateSignal, Shows, MayEnd
    <2> QED BY <1>3, <1>4, <2>1, <2>2 DEF Started, Emit
  <1>5. CASE OpenSucceeds(d)
    <2>1. \A state : <<state, "opening">> \in MayEnd => <<state, "RUNNING">> \in MayFollow
      BY DEF MayEnd, MayFollow
    <2>2. "RUNNING" \in StateSignal /\ <<Shows("RUNNING"), "opened">> \in MayEnd
      BY DEF StateSignal, Shows, MayEnd
    <2> QED BY <1>3, <1>5, <2>1, <2>2 DEF OpenSucceeds, Emit
  <1>6. CASE OpenFails(d)
    <2>1. \A state : <<state, "opening">> \in MayEnd => <<state, "FAILED">> \in MayFollow
      BY DEF MayEnd, MayFollow
    <2>2. "FAILED" \in StateSignal /\ <<Shows("FAILED"), "loop">> \in MayEnd
      BY DEF StateSignal, Shows, MayEnd
    <2> QED BY <1>3, <1>6, <2>1, <2>2 DEF OpenFails, Emit
  <1>7. CASE LeaveLoop(d)
    <2>1. \A state : <<state, "loop">> \in MayEnd => <<state, "finished">> \in MayFollow
      BY DEF MayEnd, MayFollow
    <2>2. "finished" \in StateSignal /\ <<Shows("finished"), "idle">> \in MayEnd
      BY DEF StateSignal, Shows, MayEnd
    <2> QED BY <1>3, <1>7, <2>1, <2>2 DEF LeaveLoop, Emit
  <1> QED BY <1>2, <1>4, <1>5, <1>6, <1>7 DEF Worker

\* What the user does to a row: open, close, create and delete it.
LEMMA OrderUser ==
    ASSUME TypeOK, TypeOK', AbsentIsGone, AllInOrder, NEW d \in Conn, User(d), NEW c \in Conn
    PROVE  InOrder(c)'
  <1>1. InOrder(c)
    BY DEF AllInOrder
  <1>2. ASSUME item'[c] = item[c], thread'[c] = thread[c], queue' = queue PROVE InOrder(c)'
    <2>1. Places(c)' = Places(c)
      BY <1>2 DEF Places, Place
    <2> QED BY <1>1, <1>2, <2>1, OrderUnmoved
  <1>3. CASE CreateConnection(d)
    <2>1. CASE d # c
      BY <1>2, <1>3, <2>1 DEF CreateConnection, TypeOK
    <2>2. CASE d = c
      <3>1. item'[c] = "CLOSED" /\ thread'[c] \in {"idle", "starting"} /\ queue' = queue
        BY <1>3, <2>2 DEF CreateConnection, TypeOK, AbsentIsGone
      <3>2. \A i \in DOMAIN queue : queue[i].to # c
        BY <1>3, <2>2 DEF CreateConnection, AbsentIsGone
      <3> QED BY <3>1, <3>2, OrderSet DEF MayEnd
    <2> QED BY <2>1, <2>2
  <1>4. CASE OpenItem(d)
    <2>1. item' = item /\ queue' = queue /\ item[d] # "absent"
      BY <1>4 DEF OpenItem, CONN_STATE
    <2>2. CASE d = c /\ thread[c] = "idle"
      <3>1. thread'[c] = "starting"
        BY <1>4, <2>2 DEF OpenItem, TypeOK
      <3> QED BY <1>1, <2>1, <2>2, <3>1, OrderStarted
    <2>3. CASE ~(d = c /\ thread[c] = "idle")
      <3>1. thread'[c] = thread[c]
        BY <1>4, <2>3 DEF OpenItem, TypeOK
      <3> QED BY <1>2, <2>1, <3>1
    <2> QED BY <2>2, <2>3
  <1>5. CASE CloseItem(d)
    <2>1. /\ item[d] = "RUNNING" /\ UNCHANGED <<thread, queue>>
          /\ \E state \in {"CLOSED", "FAILED"} : item' = [item EXCEPT ![d] = state]
      BY <1>5 DEF CloseItem, CloseConnection, SetConnectionState
    <2>2. CASE d = c
      <3>1. item'[c] \in {"CLOSED", "FAILED"}
        BY <2>1, <2>2 DEF TypeOK
      <3> QED BY <1>1, <2>1, <2>2, <3>1, OrderClosed
    <2>3. CASE d # c
      <3>1. item'[c] = item[c]
        BY <2>1, <2>3 DEF TypeOK
      <3> QED BY <1>2, <2>1, <3>1
    <2> QED BY <2>2, <2>3
  <1>6. CASE OverviewItem(d)
    BY <1>2, <1>6 DEF OverviewItem, threadVars
  <1>7. CASE DeleteConnection(d)
    <2>1. CASE thread[d] # "idle"
      BY <1>2, <1>7, <2>1 DEF DeleteConnection, threadVars
    <2>2. CASE thread[d] = "idle"
      <3>1. /\ item' = [item EXCEPT ![d] = "absent"] /\ thread' = thread
            /\ queue' = [i \in DOMAIN queue |->
                           IF queue[i].to # d THEN queue[i]
                           ELSE [to |-> NoConn, sig |-> queue[i].sig]]
        BY <1>7, <2>2 DEF DeleteConnection
      <3>2. /\ DOMAIN queue' = DOMAIN queue /\ Len(queue) \in Nat
            /\ DOMAIN queue = 1 .. Len(queue) /\ Len(queue') \in Nat
            /\ DOMAIN queue' = 1 .. Len(queue')
            /\ \A i \in DOMAIN queue : queue[i].to # d => queue'[i] = queue[i]
            /\ \A i \in DOMAIN queue : queue[i].to = d => queue'[i].to = NoConn
        <4>1. queue \in Seq(Event) /\ queue' \in Seq(Event)
          BY DEF TypeOK
        <4> QED BY <3>1, <4>1, DroppedEvents
      <3>3. CASE d = c
        <4>1. \A i \in DOMAIN queue' : queue'[i].to # c
          BY <3>2, <3>3, ConnAssumption
        <4>2. item'[c] = "absent" /\ thread'[c] = "idle"
          BY <2>2, <3>1, <3>3 DEF TypeOK
        <4> QED BY <4>1, <4>2, OrderSet DEF MayEnd
      <3>4. CASE d # c
        <4>1. item'[c] = item[c]
          BY <3>1, <3>4 DEF TypeOK
        <4>2. Len(queue') = Len(queue)
          BY <3>2
        <4>3. \A i \in DOMAIN queue : (queue'[i].to = c <=> queue[i].to = c)
                                      /\ (queue[i].to = c => queue'[i] = queue[i])
          BY <3>2, <3>4, ConnAssumption
        <4>4. Places(c)' = Places(c) /\ \A i \in Places(c) : i # 0 => queue'[i] = queue[i]
          BY <3>2, <4>2, <4>3 DEF Places, Place
        <4> QED BY <1>1, <3>1, <4>1, <4>4, OrderUnmoved
      <3> QED BY <3>3, <3>4
    <2> QED BY <2>1, <2>2
  <1> QED BY <1>3, <1>4, <1>5, <1>6, <1>7 DEF User

LEMMA OrderDeliver ==
    ASSUME TypeOK, AllInOrder, Deliver, NEW c \in Conn
    PROVE  InOrder(c)'
  <1> DEFINE e == Head(queue)
  <1>1. queue # <<>> /\ queue' = Tail(queue) /\ thread' = thread
    BY DEF Deliver, threadVars
  <1>2. e = queue[1] /\ e \in Event /\ 1 \in DOMAIN queue /\ Len(queue) \in Nat \ {0}
    BY <1>1, DeliveredEvent DEF TypeOK
  <1>3. 1 \in Places(c) <=> e.to = c /\ e.sig \in StateSignal
    BY <1>2 DEF Places, Place
  <1>4. item' = IF e.to # NoConn /\ e.sig \in StateSignal
                THEN [item EXCEPT ![e.to] = Shows(e.sig)] ELSE item
    <2>1. e.sig \in CloseSignal => e.sig \notin StateSignal
      BY DEF CloseSignal, StateSignal
    <2> QED BY <2>1 DEF Deliver, SetConnectionState
  <1> HIDE DEF e
  <1>5. item'[c] = IF 1 \in Places(c) THEN Shows(queue[1].sig) ELSE item[c]
    BY <1>2, <1>3, <1>4, ConnAssumption DEF TypeOK
  <1> QED BY <1>1, <1>5, OrderDelivered DEF AllInOrder

\* A peer that closes posts no state.
LEMMA OrderRemoteClose ==
    ASSUME TypeOK, AllInOrder, NEW d \in Conn, RemoteClose(d), NEW c \in Conn
    PROVE  InOrder(c)'
  <1>1. InOrder(c) /\ item' = item /\ thread' = thread
    BY DEF AllInOrder, RemoteClose
  <1>2. CASE queue' = queue
    <2>1. Places(c)' = Places(c)
      BY <1>2 DEF Places, Place
    <2> QED BY <1>1, <1>2, <2>1, OrderUnmoved
  <1>3. CASE queue' # queue
    <2> DEFINE e == [to |-> d, sig |-> IF onView[d] THEN "closedOnView" ELSE "closedOffView"]
    <2>1. queue' = Append(queue, e)
      BY <1>3 DEF RemoteClose, Emit
    <2>2. e \in Event /\ e.sig \notin StateSignal
      BY DEF Event, CloseSignal, StateSignal
    <2> QED BY <1>1, <2>1, <2>2, OrderPostedElse
  <1> QED BY <1>2, <1>3

LEMMA OrderStep ==
    TypeOK /\ TypeOK' /\ AbsentIsGone /\ AllInOrder /\ [Next]_vars => AllInOrder'
  <1> SUFFICES ASSUME TypeOK, TypeOK', AbsentIsGone, AllInOrder, [Next]_vars, NEW c \in Conn
               PROVE  InOrder(c)'
    BY DEF AllInOrder
  <1>1. ASSUME UNCHANGED <<item, thread, queue>> PROVE InOrder(c)'
    <2>1. Places(c)' = Places(c)
      BY <1>1 DEF Places, Place
    <2> QED BY <1>1, <2>1, OrderUnmoved DEF AllInOrder
  <1>2. CASE UNCHANGED vars \/ CloseOverview \/ RefreshLocalhost \/ SearchComplete
             \/ EntityControlsUpdated
    BY <1>1, <1>2 DEF vars, threadVars, CloseOverview, RefreshLocalhost, SearchComplete,
                      EntityControlsUpdated
  <1> QED BY <1>2, OrderWorker, OrderRemoteClose, OrderUser, OrderDeliver DEF Next

----------------------------------------------------------------------------
(* The refinement.                                                         *)

LEMMA RowsInitially == Init => AllInOrder /\ Rows!Init
  <1> SUFFICES ASSUME Init PROVE AllInOrder /\ Rows!Init
    OBVIOUS
  <1>1. PICK saved \in SUBSET Conn : \E atStart \in SUBSET saved :
           /\ item = [c \in Conn |-> IF c \in saved THEN "CLOSED" ELSE "absent"]
           /\ busy = [c \in Conn |-> c \in atStart]
           /\ thread = [c \in Conn |-> IF c \in atStart THEN "starting" ELSE "idle"]
    BY DEF Init
  <1>2. item \in [Conn -> {"absent", "CLOSED"}]
    BY <1>1
  <1>3. \A c \in Conn : <<item[c], thread[c]>> \in MayEnd
    <2>1. PICK atStart \in SUBSET saved :
             /\ item = [c \in Conn |-> IF c \in saved THEN "CLOSED" ELSE "absent"]
             /\ thread = [c \in Conn |-> IF c \in atStart THEN "starting" ELSE "idle"]
      BY <1>1
    <2> QED BY <2>1 DEF MayEnd
  <1>4. \A c \in Conn : Places(c) = {0} /\ Shown(c, 0) = item[c]
    <2>1. Len(queue) = 0 /\ DOMAIN queue = {}
      BY DEF Init
    <2>2. 0 .. 0 = {0}
      OBVIOUS
    <2> QED BY <2>1, <2>2 DEF Places, Place, Shown
  <1>5. ASSUME NEW c \in Conn PROVE InOrder(c)
    <2>1. Chained(c)
      BY <1>4 DEF Chained
    <2>2. Ended(c)
      BY <1>3, <1>4 DEF Ended
    <2> QED BY <2>1, <2>2 DEF InOrder
  <1> QED BY <1>2, <1>5 DEF AllInOrder, Rows!Init

\* A row that is set is set to what the list promises, or stays as it is.
LEMMA RowsStep ==
    TypeOK /\ AbsentIsGone /\ AllInOrder /\ [Next]_vars => [Rows!Next]_item
  <1> SUFFICES ASSUME TypeOK, AbsentIsGone, AllInOrder, [Next]_vars
               PROVE  Rows!Next \/ item' = item
    OBVIOUS
  <1>1. ASSUME NEW c \in Conn, NEW state, item' = [item EXCEPT ![c] = state],
               <<item[c], state>> \in Rows!Follows
        PROVE  Rows!Next
    <2>1. state \in {f[2] : f \in Rows!Follows}
      BY <1>1
    <2> QED BY <1>1, <2>1 DEF Rows!Next, Rows!Move
  <1>2. ASSUME NEW c \in Conn, User(c) PROVE Rows!Next \/ item' = item
    <2>1. CASE CreateConnection(c)
      BY <1>1, <2>1 DEF CreateConnection, Rows!Follows
    <2>2. CASE CloseItem(c)
      <3>1. /\ item[c] = "RUNNING"
            /\ \E state \in {"CLOSED", "FAILED"} : item' = [item EXCEPT ![c] = state]
        BY <2>2 DEF CloseItem, CloseConnection, SetConnectionState
      <3> QED BY <1>1, <3>1 DEF Rows!Follows
    <2>3. CASE DeleteConnection(c)
      <3>1. item[c] \in {"FAILED", "CLOSED", "CONNECT"}
        BY <2>3 DEF DeleteConnection, CONN_STATE
      <3>2. item' = item \/ item' = [item EXCEPT ![c] = "absent"]
        BY <2>3 DEF DeleteConnection
      <3> QED BY <1>1, <3>1, <3>2 DEF Rows!Follows
    <2> QED BY <1>2, <2>1, <2>2, <2>3 DEF User, OpenItem, OverviewItem
  <1>3. CASE Deliver
    <2> DEFINE e == Head(queue)
    <2>1. e = queue[1] /\ e \in Event /\ 1 \in DOMAIN queue /\ Len(queue) \in Nat \ {0}
      BY <1>3, DeliveredEvent DEF Deliver, TypeOK
    <2> HIDE DEF e
    <2>2. CASE item' # item
      <3>1. /\ e.to \in Conn /\ e.sig \in StateSignal
            /\ item' = [item EXCEPT ![e.to] = Shows(e.sig)]
        BY <1>3, <2>1, <2>2 DEF Deliver, SetConnectionState, Event, e
      <3>2. 0 \in Places(e.to) /\ 1 \in Places(e.to) /\ Places(e.to) \subseteq Nat
        BY <2>1, <3>1 DEF Places, Place
      <3>3. <<item[e.to], e.sig>> \in MayFollow
        BY <2>1, <3>1, <3>2 DEF AllInOrder, InOrder, Chained, Shown
      <3>4. item[e.to] = Shows(e.sig) \/ <<item[e.to], Shows(e.sig)>> \in Rows!Follows
        BY <3>3 DEF MayFollow, Shows, Rows!Follows
      <3>5. item[e.to] = Shows(e.sig) => item' = item
        BY <3>1 DEF TypeOK
      <3> QED BY <1>1, <3>1, <3>4, <3>5
    <2> QED BY <2>2
  <1>4. ASSUME NEW c \in Conn, Worker(c) \/ RemoteClose(c) PROVE item' = item
    BY <1>4 DEF Worker, Started, OpenSucceeds, OpenFails, RegisterConnEvents, LeaveLoop,
                RemoteClose
  <1>5. CASE UNCHANGED vars \/ CloseOverview \/ RefreshLocalhost \/ SearchComplete
             \/ EntityControlsUpdated
    BY <1>5 DEF vars, CloseOverview, RefreshLocalhost, SearchComplete, EntityControlsUpdated
  <1> QED BY <1>2, <1>3, <1>4, <1>5 DEF Next

\* The row of every connection goes through CONNECT before RUNNING or FAILED and
\* rests at CLOSED before the next attempt, though the worker posts its states to
\* ConnElement::setConnectionState while the user closes, deletes and opens rows.
THEOREM RowsKept == Spec => RowsInOrder
  <1>1. Spec => []AllInOrder
    BY RowsInitially, OrderStep, TypeCorrect, AbsentStaysGone, PTL DEF Spec
  <1>2. Spec => [][Rows!Next]_item
    BY <1>1, RowsStep, TypeCorrect, AbsentStaysGone, PTL DEF Spec
  <1>3. Spec => Rows!Init
    BY RowsInitially DEF Spec
  <1> QED BY <1>2, <1>3 DEF RowsInOrder, Rows!Spec

----------------------------------------------------------------------------
(* As long as no fault happens (no peer closes, no close fails), what is   *)
(* on view is the live connection in the docks.                            *)

\* What ViewConsistent needs of the rest of the state: a row that says RUNNING,
\* or is about to, belongs to an open handle, and nothing queued will take the
\* row away from that state behind the user's back.
Calm == \A c \in Conn :
    /\ ptr[c] # "dead"
    /\ ~Pending(c, CloseSignal)
    /\ Pending(c, {"RUNNING"}) \/ item[c] = "RUNNING" => ptr[c] = "open"
    /\ item[c] = "RUNNING" => ~Pending(c, StateSignal)
    /\ RunningEndsQueue(c)

\* A close that is no fault takes the first path of closeConnection.
LEMMA CloseSucceeds ==
    ASSUME ~Fault, TypeOK, NEW c \in Conn, CloseItem(c), ptr[c] = "open"
    PROVE  /\ ptr' = [ptr EXCEPT ![c] = "null"]
           /\ item' = [item EXCEPT ![c] = "CLOSED"]
           /\ ForwardConnClosed(c, onView[c])
           /\ UNCHANGED <<queue, thread, keepAlive>>
  BY DEF TypeOK, CloseItem, CloseConnection, SetConnectionState, Fault

\* Calm is kept by every step: RUNNING is posted with the handle open, only the
\* user closes it, and only once RUNNING has been delivered.
LEMMA CalmStep ==
    ~Fault /\ TypeOK /\ AbsentIsGone /\ LiveHandleIsWatched /\ Calm /\ [Next]_vars => Calm'
  <1> SUFFICES ASSUME ~Fault, TypeOK, AbsentIsGone, LiveHandleIsWatched, Calm,
                      [Next]_vars PROVE Calm'
    OBVIOUS
  <1> USE DEF TypeOK, LiveHandleIsWatched, AbsentIsGone, Calm
  <1>0. UNCHANGED queue => \A d \in Conn :
                 /\ Pending(d, StateSignal)' <=> Pending(d, StateSignal)
                 /\ Pending(d, {"RUNNING"})' <=> Pending(d, {"RUNNING"})
                 /\ Pending(d, CloseSignal)' <=> Pending(d, CloseSignal)
                 /\ RunningEndsQueue(d)' <=> RunningEndsQueue(d)
    BY DEF Pending, RunningEndsQueue
  <1>1. ASSUME NEW c \in Conn, Worker(c) PROVE Calm'
    <2>1. CASE Started(c)
      <3> DEFINE e == [to |-> c, sig |-> "started"]
      <3>1. e \in Event /\ queue' = Append(queue, e)
        BY <2>1 DEF Started, Emit, Event, StateSignal
      <3>2. \A d \in Conn : Pending(d, StateSignal)' <=>
               Pending(d, StateSignal) \/ (d = c /\ "started" \in StateSignal)
        BY <3>1, PendingPosted
      <3>3. \A d \in Conn : Pending(d, {"RUNNING"})' <=>
               Pending(d, {"RUNNING"}) \/ (d = c /\ "started" \in {"RUNNING"})
        BY <3>1, PendingPosted
      <3>4. \A d \in Conn : Pending(d, CloseSignal)' <=>
               Pending(d, CloseSignal) \/ (d = c /\ "started" \in CloseSignal)
        BY <3>1, PendingPosted
      <3>5. \A d \in Conn : RunningEndsQueue(d) /\ (d # c \/ ~Pending(d, {"RUNNING"}))
                           => RunningEndsQueue(d)'
        BY <3>1, EndsPosted
      <3> QED BY <2>1, <3>2, <3>3, <3>4, <3>5 DEF Started, StateSignal, CloseSignal, viewVars
    <2>2. CASE OpenSucceeds(c)
      <3> DEFINE e == [to |-> c, sig |-> "RUNNING"]
      <3>1. e \in Event /\ queue' = Append(queue, e)
        BY <2>2 DEF OpenSucceeds, Emit, Event, StateSignal
      <3>2. \A d \in Conn : Pending(d, StateSignal)' <=>
               Pending(d, StateSignal) \/ (d = c /\ "RUNNING" \in StateSignal)
        BY <3>1, PendingPosted
      <3>3. \A d \in Conn : Pending(d, {"RUNNING"})' => Pending(d, {"RUNNING"}) \/ d = c
        BY <3>1, PendingPosted
      <3>4. \A d \in Conn : Pending(d, CloseSignal)' <=>
               Pending(d, CloseSignal) \/ (d = c /\ "RUNNING" \in CloseSignal)
        BY <3>1, PendingPosted
      <3>5. \A d \in Conn : RunningEndsQueue(d) /\ (d # c \/ ~Pending(d, {"RUNNING"}))
                           => RunningEndsQueue(d)'
        BY <3>1, EndsPosted
      <3> QED BY <2>2, <3>2, <3>3, <3>4, <3>5 DEF OpenSucceeds, StateSignal, CloseSignal, viewVars
    <2>3. CASE OpenFails(c)
      <3> DEFINE e == [to |-> c, sig |-> "FAILED"]
      <3>1. e \in Event /\ queue' = Append(queue, e)
        BY <2>3 DEF OpenFails, Emit, Event, StateSignal
      <3>2. \A d \in Conn : Pending(d, StateSignal)' <=>
               Pending(d, StateSignal) \/ (d = c /\ "FAILED" \in StateSignal)
        BY <3>1, PendingPosted
      <3>3. \A d \in Conn : Pending(d, {"RUNNING"})' <=>
               Pending(d, {"RUNNING"}) \/ (d = c /\ "FAILED" \in {"RUNNING"})
        BY <3>1, PendingPosted
      <3>4. \A d \in Conn : Pending(d, CloseSignal)' <=>
               Pending(d, CloseSignal) \/ (d = c /\ "FAILED" \in CloseSignal)
        BY <3>1, PendingPosted
      <3>5. \A d \in Conn : RunningEndsQueue(d) /\ (d # c \/ ~Pending(d, {"RUNNING"}))
                           => RunningEndsQueue(d)'
        BY <3>1, EndsPosted
      <3> QED BY <2>3, <3>2, <3>3, <3>4, <3>5 DEF OpenFails, StateSignal, CloseSignal, viewVars
    <2>4. CASE RegisterConnEvents(c)
      BY <1>0, <2>4 DEF RegisterConnEvents, viewVars
    <2>5. CASE LeaveLoop(c)
      <3> DEFINE e == [to |-> c, sig |-> "finished"]
      <3>1. e \in Event /\ queue' = Append(queue, e)
        BY <2>5 DEF LeaveLoop, Emit, Event, StateSignal
      <3>2. \A d \in Conn : Pending(d, StateSignal)' <=>
               Pending(d, StateSignal) \/ (d = c /\ "finished" \in StateSignal)
        BY <3>1, PendingPosted
      <3>3. \A d \in Conn : Pending(d, {"RUNNING"})' <=>
               Pending(d, {"RUNNING"}) \/ (d = c /\ "finished" \in {"RUNNING"})
        BY <3>1, PendingPosted
      <3>4. \A d \in Conn : Pending(d, CloseSignal)' <=>
               Pending(d, CloseSignal) \/ (d = c /\ "finished" \in CloseSignal)
        BY <3>1, PendingPosted
      <3>5. \A d \in Conn : RunningEndsQueue(d) /\ (d # c \/ ~Pending(d, {"RUNNING"}))
                           => RunningEndsQueue(d)'
        BY <3>1, EndsPosted
      <3> QED BY <2>5, <3>2, <3>3, <3>4, <3>5 DEF LeaveLoop, StateSignal, CloseSignal, viewVars
    <2> QED BY <1>1, <2>1, <2>2, <2>3, <2>4, <2>5 DEF Worker
  <1>2. ASSUME NEW c \in Conn, RemoteClose(c) PROVE FALSE
    BY <1>2 DEF RemoteClose, Fault
  <1>3. ASSUME NEW c \in Conn, User(c) PROVE Calm'
    <2>1. CASE CreateConnection(c)
      BY <1>0, <2>1 DEF CreateConnection, viewVars
    <2>2. CASE OpenItem(c)
      BY <1>0, <2>2 DEF OpenItem, viewVars, CONN_STATE
    <2>3. CASE CloseItem(c)
      <3>1. /\ ptr[c] = "open"
            /\ ~Pending(c, StateSignal)
        BY <2>3 DEF CloseItem
      <3>2. ~Pending(c, {"RUNNING"})
        BY <3>1 DEF Pending, StateSignal
      <3>3. /\ ptr' = [ptr EXCEPT ![c] = "null"]
            /\ item' = [item EXCEPT ![c] = "CLOSED"]
            /\ UNCHANGED queue
        BY <2>3, <3>1, CloseSucceeds
      <3> QED BY <1>0, <3>2, <3>3
    <2>4. CASE OverviewItem(c)
      BY <1>0, <2>4 DEF OverviewItem, NoneOnView, ShowInDocks, threadVars
    <2>5. CASE DeleteConnection(c)
      <3>1. CASE thread[c] # "idle"
        BY <1>0, <2>5, <3>1 DEF DeleteConnection, threadVars
      <3>2. CASE thread[c] = "idle"
        <4>1. \A d \in Conn : d # c => (Pending(d, StateSignal)' <=> Pending(d, StateSignal))
          BY <2>5, <3>2, PendingDropped DEF DeleteConnection
        <4>2. \A d \in Conn : d # c => (Pending(d, {"RUNNING"})' <=> Pending(d, {"RUNNING"}))
          BY <2>5, <3>2, PendingDropped DEF DeleteConnection
        <4>3. ~Pending(c, {"RUNNING"})'
          BY <2>5, <3>2, PendingDropped DEF DeleteConnection
        <4>4. \A d \in Conn : d # c => (Pending(d, CloseSignal)' <=> Pending(d, CloseSignal))
          BY <2>5, <3>2, PendingDropped DEF DeleteConnection
        <4>5. ~Pending(c, CloseSignal)'
          BY <2>5, <3>2, PendingDropped DEF DeleteConnection
        <4>6. ~Pending(c, StateSignal)'
          BY <2>5, <3>2, PendingDropped DEF DeleteConnection
        <4>7. \A d \in Conn : RunningEndsQueue(d) => RunningEndsQueue(d)'
          BY <2>5, <3>2, EndsDropped DEF DeleteConnection
        <4>9. /\ item' = [item EXCEPT ![c] = "absent"]
              /\ ptr' = [ptr EXCEPT ![c] = "null"]
              /\ onView' = [onView EXCEPT ![c] = FALSE]
              /\ keepAlive' = [keepAlive EXCEPT ![c] = FALSE]
              /\ UNCHANGED <<thread, busy, onViewExist, docks>>
              /\ ~busy[c] /\ item[c] # "RUNNING"
          BY <2>5, <3>2 DEF DeleteConnection
        <4> QED BY <4>1, <4>2, <4>3, <4>4, <4>5, <4>6, <4>7, <3>2, <4>9
      <3> QED BY <3>1, <3>2
    <2> QED BY <1>3, <2>1, <2>2, <2>3, <2>4, <2>5 DEF User
  <1>4. CASE Deliver
    <2>1. UNCHANGED <<thread, keepAlive, ptr, closeCb, searching, aborted>>
      BY <1>4 DEF Deliver, threadVars
    <2>2. /\ Head(queue) \in Event
          /\ queue # <<>> /\ queue' = Tail(queue)
      BY <1>4, DeliveredEvent DEF Deliver
    <2>3. \A d \in Conn : Pending(d, StateSignal)' => Pending(d, StateSignal)
      BY <2>2, PendingDelivered
    <2>4. \A d \in Conn : Pending(d, StateSignal) /\ ~(Head(queue).to = d /\ Head(queue).sig \in StateSignal)
                        => Pending(d, StateSignal)'
      BY <2>2, PendingDelivered
    <2>5. \A d \in Conn : Pending(d, {"RUNNING"})' => Pending(d, {"RUNNING"})
      BY <2>2, PendingDelivered
    <2>6. \A d \in Conn : Pending(d, CloseSignal)' => Pending(d, CloseSignal)
      BY <2>2, PendingDelivered
    <2>7. \A d \in Conn : Head(queue).to = d /\ Head(queue).sig = "RUNNING"
                        => Pending(d, {"RUNNING"})
      BY <2>2, PendingHead
    <2>8. \A d \in Conn : Head(queue).to = d /\ Head(queue).sig \in CloseSignal
                        => Pending(d, CloseSignal)
      BY <2>2, PendingHead
    <2>9. \A d \in Conn : RunningEndsQueue(d) => RunningEndsQueue(d)'
      BY <2>2, EndsDelivered
    <2>10. \A d \in Conn : RunningEndsQueue(d) /\ Head(queue).to = d /\ Head(queue).sig = "RUNNING"
                        => ~Pending(d, StateSignal)'
      BY <2>2, EndsDelivered
    <2>20. CASE Head(queue).to = NoConn
      <3>1. UNCHANGED <<item, busy, onView, onViewExist, docks>>
        BY <1>4, <2>2, <2>20 DEF Deliver, viewVars
      <3> QED
        BY <2>1, <2>20, <3>1, <2>3, <2>4, <2>5, <2>6, <2>7, <2>8, <2>9, <2>10, ConnAssumption
    <2>21. CASE Head(queue).to # NoConn /\ Head(queue).sig \in StateSignal
      <3> DEFINE c == Head(queue).to
      <3>1. c \in Conn
        BY <2>2, <2>21 DEF Event
      <3>2. SetConnectionState(c, Shows(Head(queue).sig))
        BY <1>4, <2>21 DEF Deliver, StateSignal, CloseSignal
      <3> QED
        BY <2>1, <2>21, <3>1, <3>2, <2>3, <2>4, <2>5, <2>6, <2>7, <2>8, <2>9, <2>10
           DEF SetConnectionState, ShowInDocks, viewVars, Shows, StateSignal
    <2>22. CASE Head(queue).to # NoConn /\ Head(queue).sig \in CloseSignal
      <3> DEFINE c == Head(queue).to
      <3>1. /\ c \in Conn
            /\ ForwardConnClosed(c, Head(queue).sig = "closedOnView")
            /\ UNCHANGED <<item, busy>>
        BY <1>4, <2>2, <2>22 DEF Deliver, Event, StateSignal, CloseSignal
      <3>2. Head(queue).sig \notin StateSignal
        BY <2>22 DEF StateSignal, CloseSignal
      <3> QED
        BY <2>1, <2>22, <3>1, <3>2, <2>3, <2>4, <2>5, <2>6, <2>7, <2>8, <2>9, <2>10
           DEF ForwardConnClosed, StateSignal
    <2> QED BY <2>2, <2>20, <2>21, <2>22 DEF Event
  <1>5. CASE CloseOverview
    BY <1>0, <1>5 DEF CloseOverview, NoneOnView, threadVars
  <1>6. CASE RefreshLocalhost \/ SearchComplete
    BY <1>0, <1>6 DEF RefreshLocalhost, SearchComplete, threadVars, viewVars
  <1>7. CASE EntityControlsUpdated
    BY <1>0, <1>7 DEF EntityControlsUpdated, threadVars
  <1>8. CASE UNCHANGED vars
    BY <1>0, <1>8 DEF vars, threadVars, viewVars
  <1> QED BY <1>1, <1>2, <1>3, <1>4, <1>5, <1>6, <1>7, <1>8 DEF Next

----------------------------------------------------------------------------
(* What is on view.                                                        *)

\* ViewConsistent is kept by every step: a connection takes empty docks or those
\* the user gives it, and leaves them when it is closed.
LEMMA ViewStep ==
    /\ ~Fault /\ TypeOK /\ AbsentIsGone /\ LiveHandleIsWatched /\ Calm
    /\ ViewConsistent /\ [Next]_vars
    => ViewConsistent'
  <1> SUFFICES ASSUME ~Fault, TypeOK, AbsentIsGone, LiveHandleIsWatched, Calm,
                      ViewConsistent, [Next]_vars
               PROVE  ViewConsistent'
    OBVIOUS
  <1> USE DEF TypeOK, LiveHandleIsWatched, AbsentIsGone, ViewConsistent
  <1>1. ASSUME NEW c \in Conn, Worker(c) PROVE ViewConsistent'
    <2>1. CASE Started(c)
      BY <2>1 DEF Started, viewVars
    <2>2. CASE OpenSucceeds(c)
      BY <2>2 DEF OpenSucceeds, viewVars
    <2>3. CASE OpenFails(c)
      BY <2>3 DEF OpenFails, viewVars
    <2>4. CASE RegisterConnEvents(c)
      BY <2>4 DEF RegisterConnEvents, viewVars
    <2>5. CASE LeaveLoop(c)
      BY <2>5 DEF LeaveLoop, viewVars
    <2> QED BY <1>1, <2>1, <2>2, <2>3, <2>4, <2>5 DEF Worker
  <1>2. ASSUME NEW c \in Conn, RemoteClose(c) PROVE FALSE
    BY <1>2 DEF RemoteClose, Fault
  <1>3. ASSUME NEW c \in Conn, User(c) PROVE ViewConsistent'
    <2>1. CASE CreateConnection(c)
      BY <2>1 DEF CreateConnection, viewVars
    <2>2. CASE OpenItem(c)
      BY <2>2 DEF OpenItem, viewVars
    <2>3. CASE CloseItem(c)
      <3>1. ptr[c] = "open"
        BY <2>3 DEF CloseItem, Calm
      <3>2. /\ ptr' = [ptr EXCEPT ![c] = "null"]
            /\ item' = [item EXCEPT ![c] = "CLOSED"]
            /\ ForwardConnClosed(c, onView[c])
        BY <2>3, <3>1, CloseSucceeds
      <3>3. CASE onView[c]
        <4>1. \A d \in Conn : ~onView'[d]
          BY <3>2, <3>3 DEF ForwardConnClosed
        <4> QED BY <4>1
      <3>4. CASE ~onView[c]
        BY <3>2, <3>4 DEF ForwardConnClosed
      <3> QED BY <3>3, <3>4
    <2>4. CASE OverviewItem(c)
      <3>1. CASE item[c] = "RUNNING" /\ ~busy[c]
        <4>1. ptr[c] = "open"
          BY <3>1 DEF Calm
        <4> QED BY <2>4, <3>1, <4>1 DEF OverviewItem, NoneOnView, ShowInDocks, threadVars
      <3>2. CASE ~(item[c] = "RUNNING" /\ ~busy[c])
        BY <2>4, <3>2 DEF OverviewItem, NoneOnView, threadVars
      <3> QED BY <3>1, <3>2
    <2>5. CASE DeleteConnection(c)
      <3>1. CASE thread[c] # "idle"
        BY <2>5, <3>1 DEF DeleteConnection, threadVars
      <3>2. CASE thread[c] = "idle"
        BY <2>5, <3>2 DEF DeleteConnection
      <3> QED BY <3>1, <3>2
    <2> QED BY <1>3, <2>1, <2>2, <2>3, <2>4, <2>5 DEF User
  <1>4. CASE Deliver
    <2>1. UNCHANGED <<ptr>>
      BY <1>4 DEF Deliver, threadVars
    <2>2. Head(queue) \in Event /\ queue # <<>>
      BY <1>4, DeliveredEvent DEF Deliver
    <2>3. CASE Head(queue).to = NoConn
      <3>1. UNCHANGED <<item, busy, onView, onViewExist, docks>>
        BY <1>4, <2>2, <2>3, ConnAssumption DEF Deliver, viewVars
      <3> QED BY <2>1, <3>1
    <2>4. CASE Head(queue).to # NoConn /\ Head(queue).sig \in StateSignal
      <3>1. PICK c \in Conn : c = Head(queue).to
        BY <2>2, <2>4 DEF Event
      <3>2. SetConnectionState(c, Shows(Head(queue).sig))
        BY <1>4, <2>4, <3>1 DEF Deliver, StateSignal, CloseSignal
      <3>3. Pending(c, StateSignal)
        BY <2>2, <2>4, <3>1, PendingHead
      <3>4. item[c] # "RUNNING"
        BY <3>3 DEF Calm
      <3>5. CASE Shows(Head(queue).sig) = "RUNNING"
        <4>1. Head(queue).sig = "RUNNING"
          BY <2>4, <3>5 DEF Shows, StateSignal
        <4>2. Pending(c, {"RUNNING"})
          BY <2>2, <3>1, <4>1, PendingHead
        <4>3. ptr[c] = "open"
          BY <4>2 DEF Calm
        <4> QED
          BY <2>1, <3>2, <3>4, <3>5, <4>3 DEF SetConnectionState, ShowInDocks, viewVars
      <3>6. CASE Shows(Head(queue).sig) # "RUNNING"
        BY <2>1, <3>2, <3>4, <3>6 DEF SetConnectionState, viewVars
      <3> QED BY <3>5, <3>6
    <2>5. CASE Head(queue).to # NoConn /\ Head(queue).sig \in CloseSignal
      <3>1. Head(queue).to \in Conn /\ Pending(Head(queue).to, CloseSignal)
        BY <2>2, <2>5, PendingHead DEF Event
      <3> QED BY <3>1 DEF Calm
    <2> QED BY <2>2, <2>3, <2>4, <2>5 DEF Event
  <1>5. CASE CloseOverview
    BY <1>5 DEF CloseOverview, NoneOnView, threadVars
  <1>6. CASE RefreshLocalhost \/ SearchComplete
    BY <1>6 DEF RefreshLocalhost, SearchComplete, threadVars, viewVars
  <1>7. CASE EntityControlsUpdated
    BY <1>7 DEF EntityControlsUpdated, threadVars
  <1>8. CASE UNCHANGED vars
    BY <1>8 DEF vars, threadVars, viewVars
  <1> QED BY <1>1, <1>2, <1>3, <1>4, <1>5, <1>6, <1>7, <1>8 DEF Next

\* Nothing is open, running or on view when the list is filled.
LEMMA CalmInitially == Init => Calm /\ ViewConsistent
  <1> SUFFICES ASSUME Init PROVE Calm /\ ViewConsistent
    OBVIOUS
  <1>1. /\ \A c \in Conn : ptr[c] = "null" /\ ~onView[c] /\ item[c] # "RUNNING"
        /\ DOMAIN queue = {}
    BY DEF Init
  <1> QED BY <1>1 DEF Calm, ViewConsistent, Pending, RunningEndsQueue

\* Where no fault can happen, none happens.
LEMMA NoFault ==
    ASSUME Faults = {}, TypeOK, LiveHandleIsWatched, Calm, [Next]_vars
    PROVE  ~Fault
  <1> SUFFICES ASSUME Fault PROVE FALSE
    OBVIOUS
  <1>1. PICK c \in Conn : \/ ptr[c] # "dead" /\ ptr'[c] = "dead"
                          \/ ptr[c] # "null" /\ ptr'[c] = "null" /\ item'[c] = "FAILED"
    BY DEF Fault
  <1>2. /\ ptr'[c] # ptr[c]
        /\ ptr'[c] = "dead" \/ ptr[c] = "open"
        /\ ptr \in [Conn -> {"null", "open", "dead"}]
    BY <1>1 DEF Calm, TypeOK
  <1>3. ASSUME NEW d \in Conn, Worker(d) PROVE FALSE
    BY <1>1, <1>2, <1>3 DEF Worker, Started, OpenSucceeds, OpenFails, RegisterConnEvents, LeaveLoop,
       LiveHandleIsWatched
  <1>4. ASSUME NEW d \in Conn, RemoteClose(d) PROVE FALSE
    BY <1>4 DEF RemoteClose
  <1>5. ASSUME NEW d \in Conn, User(d) PROVE FALSE
    <2>1. CASE CloseItem(d)
      BY <1>1, <1>2, <2>1 DEF CloseItem, CloseConnection, TypeOK
    <2>2. CASE DeleteConnection(d)
      <3>1. CASE thread[d] # "idle"
        BY <1>2, <2>2, <3>1 DEF DeleteConnection, threadVars
      <3>2. CASE thread[d] = "idle"
        BY <1>1, <1>2, <2>2, <3>2 DEF DeleteConnection, TypeOK
      <3> QED BY <3>1, <3>2
    <2> QED BY <1>2, <1>5, <2>1, <2>2 DEF User, CreateConnection, OpenItem, OverviewItem, threadVars
  <1>6. CASE UNCHANGED ptr
    BY <1>2, <1>6
  <1> QED BY <1>3, <1>4, <1>5, <1>6
      DEF Next, vars, threadVars, Deliver, CloseOverview, RefreshLocalhost, SearchComplete,
          EntityControlsUpdated

\* Where no peer closes and no close fails, the connection on view is the one in
\* the docks, it is listed RUNNING and its handle is open.
THEOREM ViewIsConsistent ==
    ASSUME Faults = {} PROVE Spec => []ViewConsistent
  <1>1. Calm /\ TypeOK /\ AbsentIsGone /\ LiveHandleIsWatched /\ [Next]_vars => Calm'
    BY NoFault, CalmStep
  <1>2. /\ ViewConsistent /\ Calm /\ TypeOK /\ AbsentIsGone /\ LiveHandleIsWatched
        /\ [Next]_vars
        => ViewConsistent'
    BY NoFault, ViewStep
  <1> QED
    BY <1>1, <1>2, CalmInitially, TypeCorrect, AbsentStaysGone, HandlesWatched, PTL DEF Spec

\* Where faults may happen, that is so until the first one.
THEOREM CalmIsConsistent == MCSpec => []CalmViewConsistent
  <1> DEFINE Inv == /\ TypeOK /\ AbsentIsGone /\ LiveHandleIsWatched
                    /\ calm => Calm /\ ViewConsistent
  <1>1. MCInit => Inv
    BY TypeInitially, InvariantsInitially, CalmInitially DEF MCInit
  <1>2. Inv /\ [MCNext]_<<vars, calm>> => Inv'
    <2> SUFFICES ASSUME Inv, [MCNext]_<<vars, calm>> PROVE Inv'
      OBVIOUS
    <2>1. [Next]_vars
      BY DEF MCNext
    <2>2. TypeOK' /\ AbsentIsGone' /\ LiveHandleIsWatched'
      BY <2>1, TypeStep, AbsentStep, WatchedStep
    <2>3. ASSUME calm' PROVE Calm' /\ ViewConsistent'
      <3>1. calm
        BY <2>3 DEF MCNext
      <3>2. CASE ~Fault
        BY <2>1, <3>1, <3>2, CalmStep, ViewStep
      <3>3. CASE UNCHANGED vars
        BY <3>1, <3>3 DEF vars, threadVars, viewVars, Calm, ViewConsistent, Pending, RunningEndsQueue
      <3> QED BY <2>3, <3>2, <3>3 DEF MCNext
    <2> QED BY <2>2, <2>3
  <1>3. Inv => CalmViewConsistent
    BY DEF CalmViewConsistent
  <1> QED BY <1>1, <1>2, <1>3, PTL DEF MCSpec

----------------------------------------------------------------------------
(* The exit and the restart of the application (AppLifecycle).             *)

\* A handle, whether its peer is still there or not, that nobody has let go.
Held(c) == ptr[c] # "null" /\ keepAlive[c]

\* The row of c reads RUNNING, or will when the queue is delivered.
ReadsRunning(c) == (item[c] = "RUNNING" /\ ~Pending(c, StateSignal)) \/ RunningIsLast(c)

\* An open handle is not let go, and one that is held has a thread beside it and a
\* row that the Wait thread will find running.
HandleIsKept(c) ==
    /\ ptr[c] = "open" => keepAlive[c]
    /\ Held(c) => thread[c] \in {"opened", "loop"} /\ ReadsRunning(c)
HandlesAreKept == \A c \in Conn : HandleIsKept(c)

\* While Wait works the user is shut out, nothing is being opened and nothing
\* announces that it runs.
WaitIsAlone ==
    wait # "none" =>
        /\ ~inputs /\ ~fileMenu /\ ~searching
        /\ result = "none" /\ loop # "starting"
        /\ \A c \in Conn : thread[c] \in {"idle", "loop"}
        /\ \A i \in DOMAIN queue : queue[i].sig # "RUNNING"

DeletesNoneHeld == wait = "visiting" => \A c \in toDelete : ~Held(c)

\* Until Wait removes rows, a row that is not listed has no thread; when it has
\* ended, no thread runs; only then the event loop is stopped.
AbsentRests ==
    wait \in {"none", "started"} => \A c \in Conn : item[c] = "absent" => thread[c] = "idle"
AllRest == wait \in {"over", "done"} => \A c \in Conn : thread[c] = "idle"
LoopStopsLast == loop \in {"stopping", "freed", "ended"} => wait = "done"

AppTypeOK == TypeOK /\ todo \subseteq Conn /\ toDelete \subseteq Conn

Orderly == /\ AppTypeOK /\ HandlesAreKept
           /\ WaitIsAlone /\ DeletesNoneHeld
           /\ AbsentRests /\ AllRest /\ LoopStopsLast

----------------------------------------------------------------------------
(* Handles.                                                                *)

\* A row goes on reading so when nothing is posted to it but the end of a
\* connection that is lost.
LEMMA ReadsKept ==
    ASSUME TypeOK, NEW d \in Conn, ReadsRunning(d), item'[d] = item[d],
           \/ queue' = queue
           \/ \E e \in Event : queue' = Append(queue, e) /\ (e.to # d \/ e.sig \in CloseSignal)
    PROVE  ReadsRunning(d)'
  <1>1. CASE queue' = queue
    BY <1>1 DEF ReadsRunning, Pending, RunningIsLast
  <1>2. CASE queue' # queue
    <2>1. PICK e \in Event : queue' = Append(queue, e) /\ (e.to # d \/ e.sig \in CloseSignal)
      BY <1>2
    <2>2. queue \in Seq(Event) /\ CloseSignal \cap StateSignal = {}
      BY DEF TypeOK, CloseSignal, StateSignal
    <2>3. Pending(d, StateSignal)' <=> Pending(d, StateSignal)
      BY <2>1, <2>2, PendingPosted
    <2>4. RunningIsLast(d) => RunningIsLast(d)'
      BY <2>1, <2>2, RunningPosted
    <2> QED BY <2>3, <2>4 DEF ReadsRunning
  <1> QED BY <1>1, <1>2

\* The handles of the connections that a step leaves alone.
LEMMA OthersKept ==
    ASSUME TypeOK, NEW d \in Conn, HandleIsKept(d),
           ptr'[d] = ptr[d], keepAlive'[d] = keepAlive[d], thread'[d] = thread[d],
           item'[d] = item[d],
           \/ queue' = queue
           \/ \E e \in Event : queue' = Append(queue, e) /\ e.to # d
    PROVE  HandleIsKept(d)'
  BY ReadsKept DEF HandleIsKept, Held

\* No handle is touched where the connections are not.
LEMMA AllKept == HandlesAreKept /\ UNCHANGED vars => HandlesAreKept'
  BY DEF HandlesAreKept, HandleIsKept, Held, ReadsRunning, Pending, RunningIsLast,
         vars, threadVars, viewVars

\* In the time of Wait a handle that is held has a row that reads RUNNING.
LEMMA HeldReadsRunning ==
    ASSUME Orderly, wait # "none", NEW c \in Conn, Held(c)
    PROVE  item[c] = "RUNNING" /\ ~Pending(c, StateSignal)
  BY DEF Orderly, WaitIsAlone, HandlesAreKept, HandleIsKept, ReadsRunning, RunningIsLast

\* What is done to the connections elsewhere than in Wait keeps their types.
LEMMA TypeKept ==
    ASSUME AppTypeOK, ~aborted, UNCHANGED <<todo, toDelete>>,
           \/ \E c \in Conn : Worker(c) \/ RemoteClose(c) \/ User(c)
           \/ Deliver \/ CloseOverview
           \/ RefreshLocalhost \/ SearchComplete \/ EntityControlsUpdated
    PROVE  AppTypeOK'
  BY TypeStep DEF AppTypeOK, Next

----------------------------------------------------------------------------
(* Threads of connections, peers and controls.                             *)

LEMMA WorkerOrderly ==
    ASSUME Orderly, ~aborted, NEW c \in Conn, Worker(c),
           UNCHANGED <<loop, result, menuVars, waitVars, flagVars>>
    PROVE  Orderly'
  <1> USE DEF Orderly
  <1>0. /\ TypeOK /\ UNCHANGED <<loop, result, inputs, fileMenu, wait, todo, toDelete>>
        /\ UNCHANGED <<item, searching>>
    BY DEF AppTypeOK, menuVars, waitVars, Worker, Started, OpenSucceeds, OpenFails,
           RegisterConnEvents, LeaveLoop
  <1>1. AppTypeOK'
    BY <1>0, TypeKept
  <1>2. thread[c] # "idle"
    BY DEF Worker, Started, OpenSucceeds, OpenFails, RegisterConnEvents, LeaveLoop
  <1>3. PICK sig \in StateSignal :
          /\ \/ queue' = queue
             \/ queue' = Append(queue, [to |-> c, sig |-> sig])
          /\ wait # "none" => thread' = [thread EXCEPT ![c] = "idle"] /\ sig = "finished"
    <2>1. CASE Started(c)
      BY <1>0, <2>1 DEF Started, Emit, StateSignal, WaitIsAlone
    <2>2. CASE OpenSucceeds(c)
      BY <1>0, <2>2 DEF OpenSucceeds, Emit, StateSignal, WaitIsAlone
    <2>3. CASE OpenFails(c)
      BY <1>0, <2>3 DEF OpenFails, Emit, StateSignal, WaitIsAlone
    <2>4. CASE RegisterConnEvents(c)
      BY <1>0, <2>4 DEF RegisterConnEvents, StateSignal, WaitIsAlone
    <2>5. CASE LeaveLoop(c)
      BY <1>0, <2>5 DEF LeaveLoop, Emit, StateSignal, WaitIsAlone
    <2> QED BY <2>1, <2>2, <2>3, <2>4, <2>5 DEF Worker
  <1>4. [to |-> c, sig |-> sig] \in Event
    BY DEF Event
  <1>5. ASSUME NEW d \in Conn, d # c PROVE HandleIsKept(d)'
    <2>1. /\ ptr'[d] = ptr[d] /\ keepAlive'[d] = keepAlive[d] /\ thread'[d] = thread[d]
          /\ item'[d] = item[d]
      BY <1>0, <1>5 DEF TypeOK, Worker, Started, OpenSucceeds, OpenFails, RegisterConnEvents,
                        LeaveLoop
    <2> QED BY <1>0, <1>3, <1>4, <1>5, <2>1, OthersKept DEF HandlesAreKept
  <1>6. HandleIsKept(c)'
    <2> USE <1>0 DEF TypeOK
    <2>0. HandleIsKept(c)
      BY DEF HandlesAreKept
    <2>1. CASE Started(c)
      BY <2>0, <2>1 DEF Started, HandleIsKept, Held
    <2>2. CASE OpenSucceeds(c)
      <3>1. queue' = Append(queue, [to |-> c, sig |-> "RUNNING"])
        BY <2>2 DEF OpenSucceeds, Emit
      <3>2. [to |-> c, sig |-> "RUNNING"] \in Event
        BY DEF Event, StateSignal
      <3>3. RunningIsLast(c)'
        BY <3>1, <3>2, RunningPosted
      <3> QED BY <2>2, <3>3 DEF OpenSucceeds, HandleIsKept, Held, ReadsRunning
    <2>3. CASE OpenFails(c)
      BY <2>3 DEF OpenFails, HandleIsKept, Held
    <2>4. CASE RegisterConnEvents(c)
      <3>1. queue' = queue /\ UNCHANGED <<ptr, keepAlive>> /\ thread'[c] = "loop"
        BY <2>4 DEF RegisterConnEvents
      <3>2. ReadsRunning(c) => ReadsRunning(c)'
        BY <3>1, ReadsKept
      <3> QED BY <2>0, <3>1, <3>2 DEF HandleIsKept, Held
    <2>5. CASE LeaveLoop(c)
      BY <2>0, <2>5 DEF LeaveLoop, HandleIsKept, Held
    <2> QED BY <2>1, <2>2, <2>3, <2>4, <2>5 DEF Worker
  <1>7. HandlesAreKept'
    BY <1>5, <1>6 DEF HandlesAreKept
  <1>8. WaitIsAlone'
    <2> SUFFICES ASSUME wait # "none"
                 PROVE  /\ \A d \in Conn : thread'[d] \in {"idle", "loop"}
                        /\ \A i \in DOMAIN queue' : queue'[i].sig # "RUNNING"
      BY <1>0 DEF WaitIsAlone
    <2>1. \A d \in Conn : thread'[d] \in {"idle", "loop"}
      BY <1>0, <1>3 DEF WaitIsAlone, TypeOK
    <2>2. \A i \in DOMAIN queue' : queue'[i].sig # "RUNNING"
      <3>1. sig # "RUNNING" /\ \A i \in DOMAIN queue : queue[i].sig # "RUNNING"
        BY <1>0, <1>3 DEF WaitIsAlone
      <3>2. CASE queue' = Append(queue, [to |-> c, sig |-> sig])
        BY <1>0, <1>4, <3>1, <3>2, PostedEvent DEF TypeOK
      <3> QED BY <1>3, <3>1, <3>2
    <2> QED BY <2>1, <2>2
  <1>9. DeletesNoneHeld'
    <2>1. wait = "visiting" => \A d \in Conn : Held(d)' => Held(d)
      <3>1. ASSUME wait = "visiting" PROVE LeaveLoop(c)
        BY <1>0, <3>1 DEF WaitIsAlone, Worker, Started, OpenSucceeds, OpenFails, RegisterConnEvents
      <3>2. LeaveLoop(c) => \A d \in Conn : Held(d)' => Held(d)
        BY <1>0 DEF LeaveLoop, Held, TypeOK
      <3> QED BY <3>1, <3>2
    <2> QED BY <1>0, <2>1 DEF DeletesNoneHeld, AppTypeOK
  <1>10. AbsentRests'
    <2>1. \A d \in Conn \ {c} : thread'[d] = thread[d]
      BY <1>0 DEF TypeOK, Worker, Started, OpenSucceeds, OpenFails, RegisterConnEvents, LeaveLoop
    <2> QED BY <1>0, <1>2, <2>1 DEF AbsentRests
  <1>11. AllRest' /\ LoopStopsLast'
    BY <1>0, <1>2 DEF AllRest, LoopStopsLast
  <1> QED BY <1>1, <1>7, <1>8, <1>9, <1>10, <1>11

LEMMA RemoteCloseOrderly ==
    ASSUME Orderly, ~aborted, NEW c \in Conn, RemoteClose(c),
           UNCHANGED <<loop, result, menuVars, waitVars, flagVars>>
    PROVE  Orderly'
  <1> USE DEF Orderly
  <1>0. /\ TypeOK /\ UNCHANGED <<loop, result, inputs, fileMenu, wait, todo, toDelete>>
        /\ UNCHANGED <<item, thread, searching>>
    BY DEF AppTypeOK, menuVars, waitVars, RemoteClose
  <1>1. AppTypeOK'
    BY <1>0, TypeKept
  <1>2. PICK sig \in CloseSignal :
          /\ ptr' = [ptr EXCEPT ![c] = "dead"]
          /\ \/ UNCHANGED <<keepAlive, queue>>
             \/ /\ keepAlive' = [keepAlive EXCEPT ![c] = FALSE]
                /\ queue' = Append(queue, [to |-> c, sig |-> sig])
    BY DEF RemoteClose, Emit, CloseSignal
  <1>3. [to |-> c, sig |-> sig] \in Event /\ sig # "RUNNING"
    BY DEF Event, CloseSignal
  <1>4. ptr[c] = "open"
    BY DEF RemoteClose
  <1>5. ASSUME NEW d \in Conn PROVE HandleIsKept(d)'
    <2>1. HandleIsKept(d)
      BY DEF HandlesAreKept
    <2>2. CASE d # c
      <3>1. ptr'[d] = ptr[d] /\ keepAlive'[d] = keepAlive[d]
        BY <1>0, <1>2, <2>2 DEF TypeOK
      <3> QED BY <1>0, <1>2, <1>3, <2>1, <2>2, <3>1, OthersKept
    <2>3. CASE d = c
      <3>1. ptr'[c] = "dead" /\ (Held(c)' => Held(c))
        BY <1>0, <1>2, <1>4 DEF TypeOK, Held
      <3>2. ReadsRunning(c) => ReadsRunning(c)'
        BY <1>0, <1>2, <1>3, ReadsKept
      <3> QED BY <1>0, <2>1, <2>3, <3>1, <3>2 DEF HandleIsKept
    <2> QED BY <2>2, <2>3
  <1>6. HandlesAreKept'
    BY <1>5 DEF HandlesAreKept
  <1>7. WaitIsAlone'
    <2>1. ASSUME wait # "none", NEW i \in DOMAIN queue' PROVE queue'[i].sig # "RUNNING"
      <3>1. \A j \in DOMAIN queue : queue[j].sig # "RUNNING"
        BY <2>1 DEF WaitIsAlone
      <3>2. CASE queue' = queue
        BY <2>1, <3>1, <3>2
      <3>3. CASE queue' = Append(queue, [to |-> c, sig |-> sig])
        <4>1. queue \in Seq(Event)
          BY <1>0 DEF TypeOK
        <4>2. /\ DOMAIN queue = 1 .. Len(queue)
              /\ i \in 1 .. Len(queue) + 1 /\ Len(queue) \in Nat
              /\ \A j \in 1 .. Len(queue) : queue'[j] = queue[j]
              /\ queue'[Len(queue) + 1] = [to |-> c, sig |-> sig]
          BY <1>3, <2>1, <3>3, <4>1, PostedEvent
        <4>3. CASE i \in 1 .. Len(queue)
          BY <3>1, <4>2, <4>3
        <4>4. CASE i = Len(queue) + 1
          BY <1>3, <4>2, <4>4
        <4> QED BY <4>2, <4>3, <4>4
      <3> QED BY <1>2, <3>2, <3>3
    <2> QED BY <1>0, <2>1 DEF WaitIsAlone
  <1>8. DeletesNoneHeld'
    <2>1. \A d \in Conn : Held(d)' => Held(d)
      BY <1>0, <1>2, <1>4 DEF TypeOK, Held
    <2> QED BY <1>0, <2>1 DEF DeletesNoneHeld, AppTypeOK
  <1>9. AbsentRests' /\ AllRest' /\ LoopStopsLast'
    BY <1>0 DEF AbsentRests, AllRest, LoopStopsLast
  <1> QED BY <1>1, <1>6, <1>7, <1>8, <1>9

LEMMA DeliveryOrderly == ASSUME Orderly, ~aborted, DeliverEvent PROVE Orderly'
  <1> USE DEF Orderly
  <1> DEFINE e == Head(queue)
  <1>0. /\ TypeOK /\ UNCHANGED <<loop, result, inputs, fileMenu, wait, todo, toDelete>>
        /\ queue # <<>> /\ queue' = Tail(queue)
        /\ UNCHANGED <<thread, keepAlive, ptr, searching>>
    BY DEF AppTypeOK, DeliverEvent, Deliver, menuVars, waitVars, threadVars
  <1>1. AppTypeOK'
    <2>1. CASE Deliver
      BY <1>0, <2>1, TypeKept
    <2>2. CASE ~Deliver
      <3>1. UNCHANGED <<item, busy, threadVars, viewVars, searching, aborted>>
        BY <2>2 DEF DeliverEvent
      <3>2. queue' \in Seq(Event)
        BY <1>0, DeliveredEvent DEF TypeOK
      <3> QED BY <1>0, <3>1, <3>2 DEF AppTypeOK, TypeOK, threadVars, viewVars
    <2> QED BY <2>1, <2>2
  <1>2. ASSUME NEW d \in Conn
        PROVE  \/ item'[d] = item[d] /\ (e.to # d \/ e.sig \in CloseSignal)
               \/ item'[d] = item[d] /\ item[d] = "absent" /\ e.to = d /\ e.sig \in StateSignal
               \/ /\ item'[d] = Shows(e.sig) /\ Shows(e.sig) # "absent"
                  /\ e.to = d /\ e.sig \in StateSignal
    <2>1. e \in Event
      BY <1>0, DeliveredEvent DEF TypeOK
    <2> HIDE DEF e
    <2>2. CASE /\ e.to # NoConn /\ e.sig \in StateSignal /\ e.to \notin Row
               /\ UNCHANGED item
      BY <2>1, <2>2 DEF Row, Event
    <2>3. CASE Deliver
      <3>1. CASE e.to = NoConn /\ UNCHANGED item
        BY <3>1, ConnAssumption
      <3>2. CASE e.sig \in StateSignal /\ item' = [item EXCEPT ![e.to] = Shows(e.sig)]
        <4>1. Shows(e.sig) # "absent"
          BY <3>2 DEF StateSignal, Shows
        <4> QED BY <1>0, <2>1, <3>2, <4>1 DEF TypeOK
      <3>3. CASE e.sig \in CloseSignal /\ UNCHANGED item
        BY <3>3
      <3> QED BY <2>3, <3>1, <3>2, <3>3 DEF Deliver, SetConnectionState, e
    <2> QED BY <2>2, <2>3 DEF DeliverEvent, e
  <1>3. ASSUME NEW d \in Conn PROVE HandleIsKept(d)'
    <2>1. HandleIsKept(d)
      BY DEF HandlesAreKept
    <2>2. SUFFICES ASSUME Held(d) PROVE ReadsRunning(d)'
      BY <1>0, <2>1 DEF HandleIsKept, Held
    <2>3. ReadsRunning(d) /\ thread[d] # "idle"
      BY <2>1, <2>2 DEF HandleIsKept
    <2>4. CASE item[d] = "RUNNING" /\ ~Pending(d, StateSignal)
      <3>1. ~Pending(d, StateSignal)'
        BY <1>0, <2>4, PendingDelivered DEF TypeOK
      <3>2. ~(e.to = d /\ e.sig \in StateSignal)
        BY <1>0, <2>4, PendingHead DEF TypeOK
      <3>3. item'[d] = "RUNNING"
        BY <1>2, <2>4, <3>2
      <3> QED BY <3>1, <3>3 DEF ReadsRunning
    <2>5. CASE RunningIsLast(d)
      <3>1. wait = "none"
        BY <2>5 DEF WaitIsAlone, RunningIsLast
      <3>2. item[d] # "absent"
        BY <2>3, <3>1 DEF AbsentRests
      <3>3. \/ RunningIsLast(d)'
            \/ e.to = d /\ e.sig = "RUNNING" /\ ~Pending(d, StateSignal)'
        BY <1>0, <2>5, RunningDelivered DEF TypeOK
      <3>4. ASSUME e.to = d, e.sig = "RUNNING" PROVE item'[d] = "RUNNING"
        BY <1>2, <3>2, <3>4 DEF Shows, CloseSignal
      <3> QED BY <3>3, <3>4 DEF ReadsRunning
    <2> QED BY <2>3, <2>4, <2>5 DEF ReadsRunning
  <1>4. HandlesAreKept'
    BY <1>3 DEF HandlesAreKept
  <1>5. WaitIsAlone'
    <2>1. wait # "none" => \A i \in DOMAIN queue' : queue'[i].sig # "RUNNING"
      BY <1>0, DeliveredEvent DEF WaitIsAlone, TypeOK
    <2> QED BY <1>0, <2>1 DEF WaitIsAlone
  <1>6. DeletesNoneHeld'
    BY <1>0 DEF DeletesNoneHeld, Held
  <1>7. AbsentRests'
    BY <1>0, <1>2 DEF AbsentRests
  <1>8. AllRest' /\ LoopStopsLast'
    BY <1>0 DEF AllRest, LoopStopsLast
  <1> QED BY <1>1, <1>4, <1>5, <1>6, <1>7, <1>8

\* The six controls, the toolbar and the search for local hypervisors, which touch
\* no connection.
LEMMA AsideOrderly ==
    ASSUME Orderly, ~aborted,
           \/ /\ EntityControlsUpdated
              /\ UNCHANGED <<loop, result, menuVars, waitVars, flagVars>>
           \/ CloseOverviewStep \/ SearchStarts \/ SearchEnds
    PROVE  Orderly'
  <1> USE DEF Orderly
  <1>0. /\ AppTypeOK /\ UNCHANGED <<loop, result, wait, todo, toDelete>>
        /\ UNCHANGED <<item, thread, keepAlive, ptr, queue>>
    BY DEF menuVars, waitVars, threadVars, EntityControlsUpdated, CloseOverviewStep,
           SearchStarts, RefreshLocalhost, SearchEnds, SearchComplete
  <1>1. AppTypeOK'
    <2>1. CASE CloseOverviewStep
      <3>1. onView' \in [Conn -> BOOLEAN] /\ onViewExist' \in BOOLEAN /\ docks' \in Conn \cup {NoConn}
        BY <2>1 DEF CloseOverviewStep
      <3>2. UNCHANGED <<busy, closeCb, listEnabled, searching, aborted>>
        BY <2>1 DEF CloseOverviewStep, threadVars
      <3> QED BY <1>0, <3>1, <3>2 DEF AppTypeOK, TypeOK
    <2>2. CASE ~CloseOverviewStep
      BY <1>0, <2>2, TypeKept DEF SearchStarts, SearchEnds
    <2> QED BY <2>1, <2>2
  <1>2. HandlesAreKept'
    BY <1>0 DEF HandlesAreKept, HandleIsKept, Held, ReadsRunning, Pending, RunningIsLast
  <1>3. WaitIsAlone'
    <2>1. CASE EntityControlsUpdated /\ UNCHANGED menuVars
      BY <1>0, <2>1 DEF WaitIsAlone, EntityControlsUpdated, menuVars
    <2>2. CASE wait = "none"
      BY <1>0, <2>2 DEF WaitIsAlone
    <2>3. wait # "none" => EntityControlsUpdated /\ UNCHANGED menuVars
      BY DEF WaitIsAlone, CloseOverviewStep, SearchStarts, SearchEnds, SearchComplete
    <2> QED BY <2>1, <2>2, <2>3
  <1>4. DeletesNoneHeld' /\ AbsentRests' /\ AllRest' /\ LoopStopsLast'
    BY <1>0 DEF DeletesNoneHeld, Held, AbsentRests, AllRest, LoopStopsLast
  <1> QED BY <1>1, <1>2, <1>3, <1>4

----------------------------------------------------------------------------
(* The user.                                                               *)

\* A row is shown, renamed, reset or dropped, and no handle is touched.
RowStep(c) == OverviewRow(c) \/ RenameRow(c) \/ ClickRenamed(c) \/ DeleteRenamed(c)

LEMMA RowStepKeeps ==
    ASSUME TypeOK, NEW c \in Conn, RowStep(c)
    PROVE  /\ TypeOK'
           /\ UNCHANGED <<keepAlive, ptr, queue, searching>>
           /\ \A d \in Conn \ {c} : thread'[d] = thread[d] /\ item'[d] = item[d]
           /\ \/ thread'[c] = thread[c] /\ item'[c] = item[c]
              \/ item'[c] = "CLOSED" /\ (thread[c] # "idle" => hasty')
              \/ item'[c] = "absent" /\ thread'[c] = thread[c] /\ (thread[c] # "idle" => hasty')
  <1> USE DEF TypeOK
  <1>1. CASE OverviewRow(c)
    <2> DEFINE rest == [d \in Conn |-> onView[d] /\ (d = c \/ ~Found(d))]
    <2>a. rest \in [Conn -> BOOLEAN]
      OBVIOUS
    <2>b. \/ onView' = [rest EXCEPT ![c] = TRUE] /\ ShowInDocks(c)
          \/ onView' = rest /\ UNCHANGED <<docks, listEnabled, onViewExist>>
      BY <1>1 DEF OverviewRow
    <2> HIDE DEF rest
    <2>1. /\ onView' \in [Conn -> BOOLEAN] /\ onViewExist' \in BOOLEAN
          /\ docks' \in Conn \cup {NoConn} /\ listEnabled' \in BOOLEAN
      BY <2>a, <2>b DEF ShowInDocks
    <2>2. UNCHANGED <<item, busy, thread, keepAlive, ptr, closeCb, searching, queue, aborted>>
      BY <1>1 DEF OverviewRow, threadVars
    <2> QED BY <2>1, <2>2
  <1>2. CASE RenameRow(c)
    BY <1>2 DEF RenameRow, vars, threadVars, viewVars
  <1>3. CASE ClickRenamed(c)
    <2>1. /\ UNCHANGED <<keepAlive, ptr, closeCb, onViewExist, docks, listEnabled, searching,
                         queue, aborted>>
          /\ item' = [item EXCEPT ![c] = "CLOSED"]
          /\ thread' \in {thread, [thread EXCEPT ![c] = "starting"]}
          /\ busy' \in {[busy EXCEPT ![c] = FALSE], [busy EXCEPT ![c] = TRUE]}
          /\ thread[c] # "idle" => hasty'
      BY <1>3 DEF ClickRenamed
    <2>2. onView' \in [Conn -> BOOLEAN]
      BY <1>3 DEF ClickRenamed
    <2>3. item' \in [Conn -> CONN_STATE \cup {"absent"}]
      BY <2>1 DEF CONN_STATE
    <2>4. thread' \in [Conn -> {"idle", "starting", "opening", "opened", "loop"}]
      BY <2>1
    <2>5. busy' \in [Conn -> BOOLEAN]
      BY <2>1
    <2>6. TypeOK'
      BY <2>1, <2>2, <2>3, <2>4, <2>5
    <2> QED BY <2>1, <2>6
  <1>4. CASE DeleteRenamed(c)
    <2>1. /\ item' = [item EXCEPT ![c] = "absent"]
          /\ UNCHANGED <<busy, thread, keepAlive, ptr, closeCb, onView, onViewExist, docks,
                         listEnabled, searching, queue, aborted>>
          /\ thread[c] # "idle" => hasty'
      BY <1>4 DEF DeleteRenamed, threadVars, viewVars
    <2> QED BY <2>1
  <1> QED BY <1>1, <1>2, <1>3, <1>4 DEF RowStep

LEMMA UserOrderly ==
    ASSUME Orderly, ~aborted, NEW c \in Conn, UserStep(c), ~hasty'
    PROVE  Orderly'
  <1> USE DEF Orderly
  <1>0. /\ TypeOK /\ UNCHANGED <<loop, result, inputs, fileMenu, wait, todo, toDelete>>
        /\ UNCHANGED searching
    <2>1. UNCHANGED searching
      BY RowStepKeeps DEF UserStep, RowStep, CreateConnection, OpenItem, CloseItem,
         DeleteConnection, AppTypeOK
    <2> QED BY <2>1 DEF AppTypeOK, UserStep, menuVars, waitVars
  <1>a. \/ Free(c) /\ CreateConnection(c)
        \/ OpenItem(c) \/ CloseItem(c) \/ DeleteConnection(c)
        \/ RowStep(c)
    BY DEF UserStep, RowStep
  <1>1. wait = "none"
    BY DEF UserStep, WaitIsAlone
  <1>2. AppTypeOK'
    <2>1. CASE RowStep(c)
      BY <1>0, <2>1, RowStepKeeps DEF AppTypeOK
    <2>2. CASE ~RowStep(c)
      BY <1>0, <1>a, <2>2, TypeKept DEF User
    <2> QED BY <2>1, <2>2
  <1>3. /\ HandleIsKept(c)'
        /\ item'[c] = "absent" => thread'[c] = "idle"
        /\ \A d \in Conn \ {c} : /\ ptr'[d] = ptr[d] /\ keepAlive'[d] = keepAlive[d]
                                 /\ thread'[d] = thread[d] /\ item'[d] = item[d]
        /\ \/ queue' = queue
           \/ queue' = [i \in DOMAIN queue |->
                          IF queue[i].to # c THEN queue[i]
                          ELSE [to |-> NoConn, sig |-> queue[i].sig]]
    <2> USE <1>0 DEF TypeOK
    <2>0. HandleIsKept(c) /\ (item[c] = "absent" => thread[c] = "idle")
      BY <1>1 DEF HandlesAreKept, AbsentRests
    <2>1. CASE Free(c) /\ CreateConnection(c)
      BY <2>1 DEF Free, CreateConnection, HandleIsKept, Held
    <2>2. CASE OpenItem(c)
      <3>1. UNCHANGED <<item, keepAlive, ptr, queue>>
        BY <2>2 DEF OpenItem
      <3>2. item[c] # "absent"
        BY <2>2 DEF OpenItem, CONN_STATE
      <3>3. /\ thread[c] # "idle" => thread'[c] = thread[c]
            /\ \A d \in Conn \ {c} : thread'[d] = thread[d]
        BY <2>2 DEF OpenItem
      <3>4. ReadsRunning(c) => ReadsRunning(c)'
        BY <3>1, ReadsKept
      <3> QED BY <2>0, <3>1, <3>2, <3>3, <3>4 DEF HandleIsKept, Held
    <2>3. CASE CloseItem(c)
      <3>1. UNCHANGED <<thread, keepAlive, queue>>
        BY <2>3 DEF CloseItem
      <3>2. ptr'[c] = "null" /\ \A d \in Conn \ {c} : ptr'[d] = ptr[d]
        BY <2>3 DEF CloseItem, CloseConnection
      <3>3. item'[c] \in {"CLOSED", "FAILED"} /\ \A d \in Conn \ {c} : item'[d] = item[d]
        BY <2>3 DEF CloseItem, CloseConnection, SetConnectionState
      <3> QED BY <3>1, <3>2, <3>3 DEF HandleIsKept, Held
    <2>4. CASE RowStep(c)
      <3>1. /\ UNCHANGED <<keepAlive, ptr, queue>>
            /\ \A d \in Conn \ {c} : thread'[d] = thread[d] /\ item'[d] = item[d]
            /\ \/ thread'[c] = thread[c] /\ item'[c] = item[c]
               \/ item'[c] = "CLOSED" /\ thread[c] = "idle"
               \/ item'[c] = "absent" /\ thread'[c] = thread[c] /\ thread[c] = "idle"
        BY <2>4, RowStepKeeps
      <3>2. CASE thread'[c] = thread[c] /\ item'[c] = item[c]
        <4>1. ReadsRunning(c) => ReadsRunning(c)'
          BY <3>1, <3>2, ReadsKept
        <4> QED BY <2>0, <3>1, <3>2, <4>1 DEF HandleIsKept, Held
      <3>3. CASE thread[c] = "idle"
        <4>1. ~Held(c) /\ ~Held(c)'
          BY <2>0, <3>1, <3>3 DEF HandleIsKept, Held
        <4>2. HandleIsKept(c)'
          BY <2>0, <3>1, <4>1 DEF HandleIsKept
        <4>3. item'[c] = "absent" => thread'[c] = "idle"
          BY <2>0, <3>1, <3>3
        <4> QED BY <3>1, <4>2, <4>3
      <3> QED BY <3>1, <3>2, <3>3
    <2>5. CASE DeleteConnection(c)
      <3>1. CASE thread[c] # "idle"
        <4>1. UNCHANGED <<item, thread, keepAlive, ptr, queue>>
          BY <2>5, <3>1 DEF DeleteConnection, threadVars
        <4>2. ReadsRunning(c) => ReadsRunning(c)'
          BY <4>1, ReadsKept
        <4> QED BY <2>0, <4>1, <4>2 DEF HandleIsKept, Held
      <3>2. CASE thread[c] = "idle"
        BY <2>5, <3>2 DEF DeleteConnection, HandleIsKept, Held
      <3> QED BY <3>1, <3>2
    <2> QED BY <1>a, <2>1, <2>2, <2>3, <2>4, <2>5
  <1>4. ASSUME NEW d \in Conn, d # c PROVE HandleIsKept(d)'
    <2>0. HandleIsKept(d)
      BY DEF HandlesAreKept
    <2>1. CASE queue' = queue
      BY <1>0, <1>3, <1>4, <2>0, <2>1, OthersKept
    <2>2. CASE queue' = [i \in DOMAIN queue |->
                           IF queue[i].to # c THEN queue[i]
                           ELSE [to |-> NoConn, sig |-> queue[i].sig]]
      <3>1. queue \in Seq(Event)
        BY <1>0 DEF TypeOK
      <3>2. Pending(d, StateSignal)' <=> Pending(d, StateSignal)
        BY <1>4, <2>2, <3>1, PendingDropped
      <3>3. RunningIsLast(d) => RunningIsLast(d)'
        BY <1>4, <2>2, <3>1, RunningDropped
      <3> QED BY <1>3, <1>4, <2>0, <3>2, <3>3 DEF HandleIsKept, Held, ReadsRunning
    <2> QED BY <1>3, <2>1, <2>2
  <1>5. HandlesAreKept'
    BY <1>3, <1>4 DEF HandlesAreKept
  <1>6. WaitIsAlone' /\ DeletesNoneHeld' /\ AllRest' /\ LoopStopsLast'
    BY <1>0, <1>1 DEF WaitIsAlone, DeletesNoneHeld, AllRest, LoopStopsLast
  <1>7. AbsentRests'
    BY <1>0, <1>1, <1>3 DEF AbsentRests
  <1> QED BY <1>2, <1>5, <1>6, <1>7

----------------------------------------------------------------------------
(* The event loop's thread.                                                *)

LEMMA LoopOrderly == ASSUME Orderly, LoopStep PROVE Orderly'
  <1> USE DEF Orderly
  <1>0. /\ UNCHANGED <<vars, menuVars, waitVars>>
        /\ \/ loop = "starting" /\ loop' \in {"running", "failed"}
           \/ UNCHANGED result /\ loop \in {"stopping", "freed"} /\ loop' \in {"freed", "ended"}
    BY DEF LoopStep, LoopStarts, LoopFails, FreeCallback, LoopEnds
  <1>1. AppTypeOK'
    BY <1>0 DEF AppTypeOK, TypeOK, vars, threadVars, viewVars, waitVars
  <1>2. HandlesAreKept'
    BY <1>0, AllKept
  <1>3. UNCHANGED <<item, thread, keepAlive, ptr, searching, queue, inputs, fileMenu, wait, toDelete>>
    BY <1>0 DEF vars, threadVars, menuVars, waitVars
  <1>4. WaitIsAlone'
    BY <1>0, <1>3 DEF WaitIsAlone
  <1>5. DeletesNoneHeld' /\ AbsentRests' /\ AllRest' /\ LoopStopsLast'
    BY <1>0, <1>3 DEF DeletesNoneHeld, Held, AbsentRests, AllRest, LoopStopsLast
  <1> QED BY <1>1, <1>2, <1>4, <1>5

----------------------------------------------------------------------------
(* Wait.                                                                   *)

\* A pass begins, a pass has ended, or no row is left: the connections are
\* not touched, and a thread whose row is gone has ended by then.
LEMMA PassOrderly == ASSUME Orderly, WaitPass \/ WaitSleeps \/ WaitEnds PROVE Orderly'
  <1> USE DEF Orderly
  <1>0. UNCHANGED <<vars, loop, result, menuVars>> /\ wait # "none"
    BY DEF WaitPass, WaitSleeps, WaitEnds, Awake
  <1>1. AppTypeOK'
    BY <1>0 DEF AppTypeOK, TypeOK, vars, threadVars, viewVars, WaitPass, WaitSleeps, WaitEnds, Row
  <1>2. HandlesAreKept'
    BY <1>0, AllKept
  <1>3. UNCHANGED <<item, thread, keepAlive, ptr, searching, queue, inputs, fileMenu>>
    BY <1>0 DEF vars, threadVars, menuVars
  <1>4. WaitIsAlone'
    BY <1>0, <1>3 DEF WaitIsAlone
  <1>5. DeletesNoneHeld' /\ LoopStopsLast' /\ AbsentRests'
    BY <1>0, <1>3 DEF WaitPass, WaitSleeps, WaitEnds, Awake, DeletesNoneHeld, LoopStopsLast,
                      AbsentRests
  <1>6. AllRest'
    <2>1. CASE WaitPass \/ WaitSleeps
      BY <2>1 DEF WaitPass, WaitSleeps, AllRest
    <2>2. CASE WaitEnds
      <3>1. ASSUME NEW c \in Conn PROVE thread[c] = "idle"
        <4>1. item[c] = "absent"
          BY <2>2 DEF WaitEnds, Row
        <4>2. CASE wait = "started"
          BY <4>1, <4>2 DEF AbsentRests
        <4>3. CASE wait # "started"
          <5>1. thread[c] \in {"idle", "loop"} /\ ~Due(c)
            BY <1>0, <2>2, <4>3 DEF WaitEnds, Awake, WaitIsAlone
          <5>2. ~Held(c)
            BY <1>0, <4>1, HeldReadsRunning
          <5> QED BY <5>1, <5>2 DEF Due, Held
        <4> QED BY <4>2, <4>3
      <3> QED BY <1>3, <3>1 DEF AllRest
    <2> QED BY <2>1, <2>2
  <1> QED BY <1>1, <1>2, <1>4, <1>5, <1>6

\* The two events of a close by Wait concern nobody else and announce no run.
LEMMA CloseEvents ==
    ASSUME TypeOK, NEW c \in Conn, NEW s \in CloseSignal,
           queue' = queue \o << [to |-> c, sig |-> s], [to |-> c, sig |-> "finished"] >>
    PROVE  /\ queue' \in Seq(Event)
           /\ \A i \in DOMAIN queue' :
                  \/ i \in DOMAIN queue /\ queue'[i] = queue[i]
                  \/ queue'[i].to = c /\ queue'[i].sig # "RUNNING"
  <1>1. queue \in Seq(Event)
    BY DEF TypeOK
  <1>2. PICK a \in Event : a = [to |-> c, sig |-> s]
    BY DEF Event
  <1>3. PICK b \in Event : b = [to |-> c, sig |-> "finished"]
    BY DEF Event, StateSignal
  <1>4. queue' = Append(Append(queue, a), b)
    BY <1>1, <1>2, <1>3
  <1>5. /\ a.to = c /\ a.sig # "RUNNING"
        /\ b.to = c /\ b.sig # "RUNNING"
    BY <1>2, <1>3 DEF CloseSignal
  <1>6. /\ queue' \in Seq(Event)
        /\ DOMAIN queue' = 1 .. Len(queue) + 2
        /\ DOMAIN queue = 1 .. Len(queue)
        /\ Len(queue) \in Nat
        /\ \A i \in 1 .. Len(queue) : queue'[i] = queue[i]
        /\ queue'[Len(queue) + 1] = a /\ queue'[Len(queue) + 2] = b
    BY <1>1, <1>4
  <1>7. \A i \in 1 .. Len(queue) + 2 : i \in 1 .. Len(queue) \/ i = Len(queue) + 1 \/ i = Len(queue) + 2
    BY <1>6
  <1> QED BY <1>5, <1>6, <1>7

LEMMA VisitOrderly == ASSUME Orderly, NEW c \in Conn, WaitVisit(c) PROVE Orderly'
  <1> USE DEF Orderly
  <1>0. /\ TypeOK /\ UNCHANGED <<item, busy, thread, keepAlive, viewVars, searching, aborted>>
        /\ UNCHANGED <<loop, result, menuVars, wait>>
        /\ wait = "visiting"
    BY DEF AppTypeOK, WaitVisit
  <1>1. \/ UNCHANGED <<ptr, closeCb, queue>>
        \/ /\ ptr' = [ptr EXCEPT ![c] = "null"]
           /\ closeCb' \in [Conn -> BOOLEAN]
           /\ queue' \in Seq(Event)
           /\ \A i \in DOMAIN queue' :
                  \/ i \in DOMAIN queue /\ queue'[i] = queue[i]
                  \/ queue'[i].to = c /\ queue'[i].sig # "RUNNING"
    <2>1. CASE UNCHANGED <<ptr, closeCb, queue>>
      BY <2>1
    <2>2. CASE CloseFromWait(c)
      <3> USE DEF TypeOK
      <3>1. ptr' = [ptr EXCEPT ![c] = "null"] /\ closeCb' \in [Conn -> BOOLEAN]
        BY <1>0, <2>2 DEF CloseFromWait
      <3>2. \/ queue' = Append(queue, [to |-> c, sig |-> "FAILED"])
            \/ \E s \in CloseSignal :
                  queue' = queue \o << [to |-> c, sig |-> s], [to |-> c, sig |-> "finished"] >>
        BY <2>2 DEF CloseFromWait, Emit, CloseSignal
      <3>3. CASE queue' = Append(queue, [to |-> c, sig |-> "FAILED"])
        <4>1. PICK e \in Event : e = [to |-> c, sig |-> "FAILED"]
          BY DEF Event, StateSignal
        <4>2. e.to = c /\ e.sig # "RUNNING"
          BY <4>1
        <4>3. queue \in Seq(Event) /\ queue' = Append(queue, e)
          BY <1>0, <3>3, <4>1
        <4>4. /\ queue' \in Seq(Event)
              /\ \A i \in DOMAIN queue' : \/ i \in DOMAIN queue /\ queue'[i] = queue[i]
                                          \/ queue'[i] = e
          BY <4>3
        <4> QED BY <3>1, <4>2, <4>4
      <3>4. CASE \E s \in CloseSignal :
                  queue' = queue \o << [to |-> c, sig |-> s], [to |-> c, sig |-> "finished"] >>
        <4>1. PICK s \in CloseSignal :
                  queue' = queue \o << [to |-> c, sig |-> s], [to |-> c, sig |-> "finished"] >>
          BY <3>4
        <4> QED BY <1>0, <3>1, <4>1, CloseEvents
      <3> QED BY <3>2, <3>3, <3>4
    <2> QED BY <2>1, <2>2 DEF WaitVisit
  <1>2. AppTypeOK'
    <2>1. /\ ptr' \in [Conn -> {"null", "open", "dead"}]
          /\ closeCb' \in [Conn -> BOOLEAN]
          /\ queue' \in Seq(Event)
      BY <1>0, <1>1 DEF TypeOK
    <2>2. TypeOK'
      BY <1>0, <2>1 DEF TypeOK, viewVars
    <2>3. todo' \subseteq Conn /\ toDelete' \subseteq Conn
      BY DEF AppTypeOK, WaitVisit
    <2> QED BY <2>2, <2>3 DEF AppTypeOK
  <1>3. ASSUME NEW d \in Conn, Held(d)' PROVE Held(d) /\ ptr'[d] = ptr[d] /\ ReadsRunning(d)'
    <2>1. Held(d) /\ ptr'[d] = ptr[d] /\ (queue' = queue \/ d # c)
      BY <1>0, <1>1, <1>3 DEF Held, TypeOK
    <2>2. item[d] = "RUNNING" /\ ~Pending(d, StateSignal)
      BY <1>0, <2>1, HeldReadsRunning
    <2>3. ~Pending(d, StateSignal)'
      BY <1>1, <2>1, <2>2 DEF Pending
    <2> QED BY <1>0, <2>1, <2>2, <2>3 DEF ReadsRunning
  <1>4. HandlesAreKept'
    <2> SUFFICES ASSUME NEW d \in Conn PROVE HandleIsKept(d)'
      BY DEF HandlesAreKept
    <2>1. HandleIsKept(d)
      BY DEF HandlesAreKept
    <2>2. ptr'[d] = "open" => keepAlive'[d]
      BY <1>0, <1>1, <2>1 DEF HandleIsKept, TypeOK
    <2> QED BY <1>0, <1>3, <2>1, <2>2 DEF HandleIsKept
  <1>5. WaitIsAlone'
    <2>1. \A i \in DOMAIN queue' : queue'[i].sig # "RUNNING"
      BY <1>0, <1>1 DEF WaitIsAlone
    <2> QED BY <1>0, <2>1 DEF WaitIsAlone, menuVars
  <1>6. DeletesNoneHeld'
    <2>1. CASE UNCHANGED toDelete
      BY <1>0, <1>3, <2>1 DEF DeletesNoneHeld, AppTypeOK
    <2>2. CASE item[c] \in {"FAILED", "CLOSED"} /\ toDelete' = toDelete \cup {c}
      <3>1. ~Held(c)
        BY <1>0, <2>2, HeldReadsRunning
      <3> QED BY <1>0, <1>3, <2>2, <3>1 DEF DeletesNoneHeld, AppTypeOK
    <2> QED BY <2>1, <2>2 DEF WaitVisit
  <1>7. AbsentRests' /\ AllRest' /\ LoopStopsLast'
    BY <1>0 DEF AbsentRests, AllRest, LoopStopsLast
  <1> QED BY <1>2, <1>4, <1>5, <1>6, <1>7

LEMMA RemoveOrderly == ASSUME Orderly, NEW c \in Conn, WaitRemove(c) PROVE Orderly'
  <1> USE DEF Orderly
  <1>0. /\ TypeOK /\ UNCHANGED <<thread, keepAlive, ptr, closeCb, viewVars, searching, queue, aborted>>
        /\ UNCHANGED <<loop, result, menuVars, wait, todo>>
        /\ wait = "visiting" /\ c \in toDelete
        /\ item' = [item EXCEPT ![c] = "absent"] /\ busy' = [busy EXCEPT ![c] = FALSE]
        /\ toDelete' = toDelete \ {c}
    BY DEF AppTypeOK, WaitRemove, threadVars
  <1>1. AppTypeOK'
    BY <1>0 DEF AppTypeOK, TypeOK, viewVars
  <1>2. ~Held(c)
    BY <1>0 DEF DeletesNoneHeld
  <1>3. HandlesAreKept'
    <2> SUFFICES ASSUME NEW d \in Conn PROVE HandleIsKept(d)'
      BY DEF HandlesAreKept
    <2>1. HandleIsKept(d)
      BY DEF HandlesAreKept
    <2>2. CASE d # c
      <3>1. item'[d] = item[d]
        BY <1>0, <2>2 DEF TypeOK
      <3> QED BY <1>0, <2>1, <3>1, OthersKept
    <2>3. CASE d = c
      BY <1>0, <1>2, <2>1, <2>3 DEF HandleIsKept, Held
    <2> QED BY <2>2, <2>3
  <1>4. WaitIsAlone'
    BY <1>0 DEF WaitIsAlone, menuVars
  <1>5. DeletesNoneHeld' /\ AbsentRests' /\ AllRest' /\ LoopStopsLast'
    BY <1>0 DEF DeletesNoneHeld, Held, AbsentRests, AllRest, LoopStopsLast
  <1> QED BY <1>1, <1>3, <1>4, <1>5

----------------------------------------------------------------------------
(* The main window: start, restart, exit.                                  *)

LEMMA InitOrderly == ASSUME Orderly, InitConnections PROVE Orderly'
  <1> USE DEF Orderly
  <1>0. /\ TypeOK /\ UNCHANGED <<loop, wait, todo, toDelete>>
        /\ UNCHANGED <<keepAlive, ptr, closeCb, viewVars, queue, aborted>>
        /\ wait = "none"
    BY DEF AppTypeOK, InitConnections, WaitIsAlone, waitVars, vars, threadVars
  <1>1. CASE result = "bad"
    <2>1. UNCHANGED <<vars, todo, toDelete>>
      BY <1>0, <1>1 DEF InitConnections
    <2>2. AppTypeOK'
      BY <2>1 DEF AppTypeOK, TypeOK, vars, threadVars, viewVars
    <2>3. UNCHANGED item /\ UNCHANGED thread
      BY <2>1 DEF vars, threadVars
    <2> QED BY <1>0, <2>1, <2>2, <2>3, AllKept
            DEF WaitIsAlone, DeletesNoneHeld, AbsentRests, AllRest, LoopStopsLast
  <1>2. CASE result = "ok"
    <2>a. PICK saved \in SUBSET {c \in Conn : Free(c)} : \E atStart \in SUBSET saved :
            /\ item' = [c \in Conn |-> IF c \in saved THEN "CLOSED" ELSE item[c]]
            /\ busy' = [c \in Conn |-> c \in atStart \/ busy[c]]
            /\ thread' = [c \in Conn |-> IF c \in atStart THEN "starting" ELSE thread[c]]
            /\ searching' = TRUE
      BY <1>2 DEF InitConnections
    <2>1. PICK atStart \in SUBSET saved :
            /\ item' = [c \in Conn |-> IF c \in saved THEN "CLOSED" ELSE item[c]]
            /\ busy' = [c \in Conn |-> c \in atStart \/ busy[c]]
            /\ thread' = [c \in Conn |-> IF c \in atStart THEN "starting" ELSE thread[c]]
            /\ searching' = TRUE
      BY <2>a
    <2>2. AppTypeOK'
      <3>1. item' \in [Conn -> CONN_STATE \cup {"absent"}]
        BY <1>0, <2>1 DEF TypeOK, CONN_STATE
      <3>2. busy' \in [Conn -> BOOLEAN]
        BY <2>1
      <3>3. thread' \in [Conn -> {"idle", "starting", "opening", "opened", "loop"}]
        BY <1>0, <2>1 DEF TypeOK
      <3> QED BY <1>0, <2>1, <3>1, <3>2, <3>3 DEF AppTypeOK, TypeOK, viewVars
    <2>3. ASSUME NEW d \in Conn PROVE HandleIsKept(d)'
      <3>1. HandleIsKept(d)
        BY DEF HandlesAreKept
      <3>2. CASE d \in saved
        BY <1>0, <2>1, <3>2 DEF Free, HandleIsKept, Held
      <3>3. CASE d \notin saved
        <4>1. item'[d] = item[d] /\ thread'[d] = thread[d]
          BY <2>1, <3>3
        <4> QED BY <1>0, <3>1, <4>1, OthersKept
      <3> QED BY <3>2, <3>3
    <2>4. HandlesAreKept'
      BY <2>3 DEF HandlesAreKept
    <2>5. AbsentRests'
      BY <1>0, <2>1 DEF AbsentRests
    <2> QED BY <1>0, <2>2, <2>4, <2>5 DEF WaitIsAlone, DeletesNoneHeld, AllRest, LoopStopsLast
  <1> QED BY <1>1, <1>2 DEF InitConnections

LEMMA StopOrderly == ASSUME Orderly, Stop PROVE Orderly'
  <1> USE DEF Orderly
  <1>0. /\ UNCHANGED <<vars, result, menuVars, todo, toDelete>>
        /\ wait = "over" /\ wait' = "done"
        /\ loop' = loop \/ loop' = "stopping"
    BY DEF Stop
  <1>1. UNCHANGED <<item, thread, keepAlive, ptr, searching, queue, inputs, fileMenu>>
    BY <1>0 DEF vars, threadVars, menuVars
  <1>2. AppTypeOK'
    BY <1>0 DEF AppTypeOK, TypeOK, vars, threadVars, viewVars
  <1>3. HandlesAreKept'
    BY <1>0, AllKept
  <1> QED BY <1>0, <1>1, <1>2, <1>3
          DEF WaitIsAlone, DeletesNoneHeld, AbsentRests, AllRest, LoopStopsLast

LEMMA LoopRemadeOrderly == ASSUME Orderly, VirtEventLoopFinished PROVE Orderly'
  <1> USE DEF Orderly
  <1>0. /\ UNCHANGED <<item, busy, threadVars, viewVars, searching, queue, menuVars, todo, toDelete>>
        /\ wait = "over" /\ aborted' \in {aborted, TRUE}
        /\ \/ UNCHANGED <<loop, result, wait>>
           \/ wait' = "none" /\ loop' = "starting"
    BY DEF VirtEventLoopFinished
  <1>1. UNCHANGED <<thread, keepAlive, ptr, inputs, fileMenu>>
    BY <1>0 DEF threadVars, menuVars
  <1>2. AppTypeOK'
    BY <1>0 DEF AppTypeOK, TypeOK, threadVars, viewVars
  <1>3. HandlesAreKept'
    BY <1>0, <1>1 DEF HandlesAreKept, HandleIsKept, Held, ReadsRunning, Pending, RunningIsLast
  <1>4. AbsentRests'
    BY <1>0, <1>1 DEF AllRest, AbsentRests
  <1> QED BY <1>0, <1>1, <1>2, <1>3, <1>4 DEF WaitIsAlone, DeletesNoneHeld, AllRest, LoopStopsLast

\* The end that waited for everything: no thread runs, so that no handle is open.
LEMMA TimerOrderly ==
    ASSUME Orderly, TimerStopped
    PROVE  Orderly' /\ ~aborted' /\ \A c \in Conn : ptr'[c] # "open"
  <1> USE DEF Orderly
  <1>0. /\ UNCHANGED <<item, busy, threadVars, viewVars, searching, queue, loop, result,
                       menuVars, waitVars>>
        /\ loop \in {"freed", "ended"}
        /\ wait = "done"
    BY DEF TimerStopped, AcceptClose, LoopStopsLast
  <1>1. /\ UNCHANGED <<thread, keepAlive, ptr, inputs, fileMenu, wait, todo, toDelete>>
        /\ \A c \in Conn : thread[c] = "idle"
    BY <1>0 DEF threadVars, menuVars, waitVars, AllRest
  <1>2. aborted' = FALSE
    BY <1>0, <1>1 DEF TimerStopped, AcceptClose
  <1>3. AppTypeOK'
    BY <1>0, <1>1, <1>2 DEF AppTypeOK, TypeOK, threadVars, viewVars
  <1>4. HandlesAreKept'
    BY <1>0, <1>1 DEF HandlesAreKept, HandleIsKept, Held, ReadsRunning, Pending, RunningIsLast
  <1>5. \A c \in Conn : ptr'[c] # "open"
    BY <1>1 DEF HandlesAreKept, HandleIsKept, Held
  <1> QED BY <1>0, <1>1, <1>2, <1>3, <1>4, <1>5
          DEF WaitIsAlone, DeletesNoneHeld, AbsentRests, AllRest, LoopStopsLast

\* What closeAllConnections leaves of a connection: it is closed, or as it was, or
\* its row reads FAILED with no handle behind, or is reset with no thread behind.
LEMMA AllClosed ==
    ASSUME TypeOK, CloseAllConnections, NEW c \in Conn
    PROVE  /\ \/ ptr'[c] = "null"
              \/ ptr'[c] = ptr[c] /\ item'[c] = item[c]
              \/ ptr'[c] = ptr[c] /\ thread[c] = "idle"
           /\ item'[c] = "absent" => item[c] = "absent"
  <1> DEFINE Runs == {d \in Row : item[d] = "RUNNING" /\ ~busy[d]}
             S == {d \in Runs : thread[d] # "idle"}
             Live == {d \in S : ptr[d] # "null"}
  <1>1. PICK ended \in SUBSET Live :
          /\ item'[c] = IF c \in ended \/ (c \in Runs \ S /\ label[c] = "new") THEN "CLOSED"
                       ELSE IF c \in S THEN "FAILED" ELSE item[c]
          /\ ptr'[c] = IF c \in Live THEN "null" ELSE ptr[c]
    BY DEF CloseAllConnections
  <1>2. c \in S /\ c \notin Live => ptr[c] = "null"
    OBVIOUS
  <1>3. c \in Runs \ S => thread[c] = "idle" /\ c \notin Live
    OBVIOUS
  <1> HIDE DEF Runs, S, Live
  <1> QED BY <1>1, <1>2, <1>3

LEMMA AllClosedType ==
    ASSUME TypeOK, CloseAllConnections,
           UNCHANGED <<busy, thread, keepAlive, listEnabled, searching, queue, aborted>>
    PROVE  TypeOK'
  <1> USE DEF TypeOK
  <1>1. item' \in [Conn -> CONN_STATE \cup {"absent"}]
    BY DEF CloseAllConnections, CONN_STATE
  <1>2. ptr' \in [Conn -> {"null", "open", "dead"}]
    BY DEF CloseAllConnections
  <1>3. closeCb' \in [Conn -> BOOLEAN] /\ onView' \in [Conn -> BOOLEAN]
    BY DEF CloseAllConnections
  <1>4. onViewExist' \in BOOLEAN /\ docks' \in Conn \cup {NoConn}
    BY DEF CloseAllConnections
  <1> QED BY <1>1, <1>2, <1>3, <1>4

\* A restart or an exit that begins with nothing in process finds every connection
\* open or closed, and nothing posted.
LEMMA RestartOrderly == ASSUME Orderly, ~hasty, RestartApplication, ~hasty' PROVE Orderly'
  <1> USE DEF Orderly
  <1>0. /\ TypeOK /\ CloseAllConnections
        /\ UNCHANGED <<busy, thread, keepAlive, listEnabled, searching, queue, aborted>>
        /\ UNCHANGED <<loop, result, todo, toDelete>>
        /\ wait = "none" /\ wait' = "started" /\ StartIsOver /\ ~inputs' /\ ~fileMenu'
        /\ Settled
    BY DEF AppTypeOK, RestartApplication
  <1>1. AppTypeOK'
    BY <1>0, AllClosedType DEF AppTypeOK
  <1>2. ASSUME NEW d \in Conn PROVE HandleIsKept(d)'
    <2>1. HandleIsKept(d)
      BY DEF HandlesAreKept
    <2>2. CASE ptr'[d] = "null"
      BY <2>2 DEF HandleIsKept, Held
    <2>3. CASE ptr'[d] = ptr[d] /\ item'[d] = item[d]
      BY <1>0, <2>1, <2>3, OthersKept
    <2>4. CASE ptr'[d] = ptr[d] /\ thread[d] = "idle"
      BY <1>0, <2>1, <2>4 DEF HandleIsKept, Held
    <2> QED BY <1>0, <2>2, <2>3, <2>4, AllClosed
  <1>3. HandlesAreKept'
    BY <1>2 DEF HandlesAreKept
  <1>4. WaitIsAlone'
    <2>1. queue' = <<>> /\ DOMAIN queue' = {}
      BY <1>0 DEF Settled
    <2> QED BY <1>0, <2>1 DEF WaitIsAlone, StartIsOver, Settled
  <1>5. AbsentRests'
    BY <1>0, AllClosed DEF AbsentRests
  <1> QED BY <1>0, <1>1, <1>3, <1>4, <1>5 DEF DeletesNoneHeld, AllRest, LoopStopsLast

LEMMA CloseOrderly == ASSUME Orderly, ~hasty, CloseEvent, ~hasty' PROVE Orderly'
  <1> USE DEF Orderly
  <1>0. /\ UNCHANGED <<vars, loop, result, todo, toDelete>>
        /\ wait = "none" /\ wait' = "started" /\ StartIsOver /\ ~inputs' /\ ~fileMenu'
        /\ Settled
    BY DEF CloseEvent
  <1>1. AppTypeOK'
    BY <1>0 DEF AppTypeOK, TypeOK, vars, threadVars, viewVars
  <1>2. HandlesAreKept'
    BY <1>0, AllKept
  <1>3. UNCHANGED <<item, thread, searching, queue>>
    BY <1>0 DEF vars, threadVars
  <1>4. WaitIsAlone'
    <2>1. queue' = <<>> /\ DOMAIN queue' = {}
      BY <1>0, <1>3 DEF Settled
    <2> QED BY <1>0, <1>3, <2>1 DEF WaitIsAlone, StartIsOver, Settled
  <1> QED BY <1>0, <1>1, <1>2, <1>3, <1>4
          DEF DeletesNoneHeld, AbsentRests, AllRest, LoopStopsLast

----------------------------------------------------------------------------
(* The theorems.                                                           *)

\* The exit that nobody hurried is the one that timerStopped() accepts.
OrderlyExit == ~hasty => Orderly /\ CleanExit

LEMMA OrderlyInitially == AppInit => OrderlyExit
  <1> SUFFICES ASSUME AppInit PROVE Orderly /\ CleanExit
    BY DEF OrderlyExit
  <1>1. AppTypeOK
    <2>1. queue \in Seq(Event)
      BY DEF AppInit
    <2>2. item \in [Conn -> CONN_STATE \cup {"absent"}]
      BY DEF AppInit
    <2>3. onView \in [Conn -> BOOLEAN] /\ busy \in [Conn -> BOOLEAN]
          /\ keepAlive \in [Conn -> BOOLEAN] /\ closeCb \in [Conn -> BOOLEAN]
      BY DEF AppInit
    <2>4. /\ thread \in [Conn -> {"idle", "starting", "opening", "opened", "loop"}]
          /\ ptr \in [Conn -> {"null", "open", "dead"}]
      BY DEF AppInit
    <2> QED BY <2>1, <2>2, <2>3, <2>4 DEF AppInit, AppTypeOK, TypeOK
  <1>2. HandlesAreKept
    BY DEF AppInit, HandlesAreKept, HandleIsKept, Held
  <1> QED BY <1>1, <1>2 DEF AppInit, Orderly, WaitIsAlone, DeletesNoneHeld, AbsentRests, AllRest,
                            LoopStopsLast, CleanExit

LEMMA OrderlyStep == OrderlyExit /\ [AppNext]_appVars => OrderlyExit'
  <1> SUFFICES ASSUME OrderlyExit, AppNext, ~hasty' PROVE Orderly' /\ CleanExit'
    <2>1. ASSUME UNCHANGED appVars, OrderlyExit PROVE OrderlyExit'
      <3>1. UNCHANGED <<vars, menuVars, waitVars>>
        BY <2>1 DEF appVars
      <3>2. AppTypeOK => AppTypeOK'
        BY <3>1 DEF AppTypeOK, TypeOK, vars, threadVars, viewVars, waitVars
      <3>3. HandlesAreKept => HandlesAreKept'
        BY <3>1, AllKept
      <3> QED BY <2>1, <3>2, <3>3
              DEF OrderlyExit, Orderly, appVars, vars, threadVars, menuVars, waitVars, flagVars,
                  exitVars, WaitIsAlone, DeletesNoneHeld, Held, AbsentRests, AllRest, LoopStopsLast,
                  CleanExit
    <2> QED BY <2>1 DEF OrderlyExit
  <1>0. ~aborted /\ ~quit
    BY DEF AppNext
  <1>1. ~hasty /\ Orderly
    <2>1. CASE hasty' = hasty
      BY <2>1 DEF OrderlyExit
    <2>2. RestartApplication \/ CloseEvent \/ CloseAgain \/ (\E c \in Conn : UserStep(c))
          => (hasty => hasty')
      BY DEF RestartApplication, CloseEvent, CloseAgain, UserStep, OverviewRow, RenameRow,
             ClickRenamed, DeleteRenamed
    <2>3. AppNext => \/ hasty' = hasty \/ RestartApplication \/ CloseEvent \/ CloseAgain
                     \/ \E c \in Conn : UserStep(c)
      <3>1. ConnStep \/ DeliverEvent \/ LoopStep => hasty' = hasty
        BY DEF ConnStep, DeliverEvent, LoopStep, LoopStarts, LoopFails, FreeCallback, LoopEnds,
               flagVars
      <3>2. WaitStep \/ GuiStep => hasty' = hasty
        BY DEF WaitStep, WaitPass, WaitSleeps, WaitEnds, WaitVisit, WaitRemove, GuiStep,
               InitConnections, Stop, VirtEventLoopFinished, TimerStopped, flagVars, exitVars
      <3>3. CloseOverviewStep \/ SearchStarts \/ SearchEnds => hasty' = hasty
        BY DEF CloseOverviewStep, SearchStarts, SearchEnds, flagVars
      <3> QED BY <3>1, <3>2, <3>3 DEF AppNext
    <2> QED BY <2>1, <2>2, <2>3 DEF OrderlyExit
  <1>2. CASE TimerStopped
    BY <1>1, <1>2, TimerOrderly DEF CleanExit
  <1>3. CASE ~TimerStopped
    <2>1. ~quit'
      BY <1>0, <1>3 DEF AppNext, ConnStep, DeliverEvent, LoopStep, LoopStarts, LoopFails,
           FreeCallback, LoopEnds, WaitStep, WaitPass, WaitSleeps, WaitEnds, WaitVisit,
           WaitRemove, GuiStep, InitConnections, Stop, VirtEventLoopFinished,
           UserStep, CloseOverviewStep, SearchStarts, SearchEnds, RestartApplication,
           CloseEvent, CloseAgain, flagVars, exitVars
    <2>2. ASSUME ConnStep PROVE Orderly'
      BY <1>0, <1>1, <2>2, WorkerOrderly, RemoteCloseOrderly, AsideOrderly DEF ConnStep
    <2>3. ASSUME LoopStep \/ WaitStep PROVE Orderly'
      BY <1>1, <2>3, LoopOrderly, PassOrderly, VisitOrderly, RemoveOrderly DEF WaitStep
    <2>4. ASSUME GuiStep PROVE Orderly'
      BY <1>1, <1>3, <2>4, InitOrderly, StopOrderly, LoopRemadeOrderly DEF GuiStep
    <2>5. ASSUME RestartApplication \/ CloseEvent PROVE Orderly'
      BY <1>1, <2>5, RestartOrderly, CloseOrderly
    <2>6. ~CloseAgain
      BY DEF CloseAgain
    <2> QED BY <1>0, <1>1, <2>1, <2>2, <2>3, <2>4, <2>5, <2>6, DeliveryOrderly, UserOrderly, AsideOrderly
            DEF AppNext, CleanExit
  <1> QED BY <1>2, <1>3

LEMMA OrderlyIsListed == OrderlyExit => LiveHandleIsListed
  <1> SUFFICES ASSUME Orderly, NEW c \in Conn, ptr[c] = "open" PROVE item[c] # "absent"
    BY DEF OrderlyExit, LiveHandleIsListed
  <1>1. Held(c) /\ thread[c] # "idle"
    BY DEF Orderly, HandlesAreKept, HandleIsKept, Held
  <1>2. CASE wait = "none"
    BY <1>1, <1>2 DEF Orderly, AbsentRests
  <1>3. CASE wait # "none"
    BY <1>1, <1>3, HeldReadsRunning
  <1> QED BY <1>2, <1>3

\* An exit that begins when nothing is in process and is waited for (MainWindow and its
\* Wait and VirtEventLoop threads) ends with every handle closed and no thread running.
THEOREM ExitLeavesNothing == AppSpec => []CleanExit
  <1>1. OrderlyExit => CleanExit
    BY DEF OrderlyExit, CleanExit
  <1> QED BY <1>1, OrderlyInitially, OrderlyStep, PTL DEF AppSpec

\* Wait::run removes no row whose connection is alive, and nobody else loses its handle.
THEOREM NoHandleIsLost == AppSpec => []LiveHandleIsListed
  <1> QED BY OrderlyIsListed, OrderlyInitially, OrderlyStep, PTL DEF AppSpec
=============================================================================
