-------------------------- MODULE ConnWindows_proofs --------------------------
(***************************************************************************)
(* Proofs about ConnWindows: what becomes of windows, references and       *)
(* helper threads when a connection closes.  WInv is the inductive         *)
(* invariant the four results rest on.                                     *)
(***************************************************************************)
EXTENDS ConnWindows, TLAPS

Viewer == [kind : {"none", "net", "lxc"}, of : Conn \cup {NoConn}, seen : BOOLEAN,
           wdg : {"none", "live", "freed"}, reinit : Int, kill : BOOLEAN,
           back : {"none", "starting", "tunnel", "asking", "pty", "opening", "console"},
           refs : Nat]
Editor == [of : Conn \cup {NoConn}, reading : BOOLEAN]
Monitor == [on : BOOLEAN, first : BOOLEAN, polling : BOOLEAN, refs : Nat]

\* The types of the variables that the invariants below speak of.
Shape ==
    /\ link \in [Conn -> {"down", "up", "dead"}]
    /\ notice \in [Conn -> {"none", "onView", "offView"}]
    /\ viewed \subseteq Conn /\ astray \subseteq Conn /\ untold \subseteq Conn
    /\ ctl \in [ptr : Conn \cup {NoConn}, name : Conn \cup {NoConn}]
    /\ active \in BOOLEAN
    /\ answers \subseteq [of : Conn \cup {NoConn}, opens : {"viewer", "editor"}]
    /\ viewer \in [Conn -> Viewer]
    /\ editor \in [Conn -> Editor]
    /\ pool \in [Conn -> Conn \cup {NoConn}]
    /\ monitor \in [Conn -> Monitor]
    /\ held \in [Conn -> Nat]
    /\ stolen \in [Conn -> BOOLEAN]
    /\ rash \in [Conn -> BOOLEAN]
    /\ late \in BOOLEAN

\* No window has nothing behind it and no reference.
NoneIsEmpty ==
    \A c \in Conn : viewer[c].kind = "none" => viewer[c].back = "none" /\ viewer[c].refs = 0

\* The controls name the connection whose slot they use, and have done so since
\* they were first used.
ControlsAreNamed ==
    /\ ctl.name = ctl.ptr
    /\ active \/ answers # {} => ctl.ptr \in Conn

\* A connection has a notice on its way only after its peer has left.
NoticeIsOfLost == \A c \in Conn : notice[c] # "none" => link[c] = "dead"

\* Until the docks change with an answer or a notice due: the connection in the
\* docks is up, or its notice is on the way, or nobody told the docks that it was
\* closed; what is asked is asked of it.
Expected(c) == link[c] = "up" \/ notice[c] # "none" \/ c \in untold
ViewIsCurrent ==
    ~late =>
        /\ active => Expected(ctl.ptr)
        /\ \A ans \in answers : active /\ ans.of = ctl.ptr

\* No window has references of a handle that is closed; of an open one there are
\* at least as many as viewer and monitor have taken, unless one who had none
\* has dropped one.
RefsAreHeld ==
    \A c \in Conn :
        /\ link[c] = "down" => viewer[c].refs = 0 /\ monitor[c].refs = 0
        /\ ~rash[c] => held[c] >= viewer[c].refs + monitor[c].refs

WInv == /\ Shape /\ NoneIsEmpty /\ ControlsAreNamed /\ NoticeIsOfLost /\ ViewIsCurrent
        /\ RefsAreHeld

\* NothingOutlivesConnection, window by window.
Bare(c) == viewer[c].kind = "none" /\ editor[c].of = NoConn /\ pool[c] = NoConn
NothingIsLeft == ~late => \A c \in Conn : Expected(c) \/ Bare(c)

Whole == WInv /\ OwnerKeepsHandle /\ NothingIsLeft /\ WindowIsOfItsConnection

LEMMA ShapeInitially == Init => WInv
  <1> SUFFICES ASSUME Init PROVE WInv
    OBVIOUS
  <1>1. NoViewer \in Viewer /\ NoEditor \in Editor /\ NoMonitor \in Monitor
    BY DEF NoViewer, NoEditor, NoMonitor, Viewer, Editor, Monitor, NoTimer
  <1>2. Shape
    BY <1>1 DEF Init, Shape
  <1>3. NoneIsEmpty /\ RefsAreHeld
    BY DEF Init, NoneIsEmpty, RefsAreHeld, NoViewer, NoMonitor
  <1> QED BY <1>2, <1>3 DEF WInv, Init, ControlsAreNamed, NoticeIsOfLost, ViewIsCurrent

----------------------------------------------------------------------------
(* What closing leaves behind.                                             *)

\* Who closes is gone, who does not is as before; a monitor loses what it has
\* of a handle that is no more.
LEMMA Closed ==
    ASSUME Shape, NEW V, NEW E, NEW P, NEW M, NEW slots, NEW shown,
           Close(V, E, P, M, slots, shown),
           NEW c \in Conn
    PROVE  /\ viewer'[c] \in Viewer
           /\ c \in V => viewer'[c] = NoViewer
           /\ c \notin V => /\ viewer'[c].kind = viewer[c].kind
                           /\ viewer'[c].of = viewer[c].of
                           /\ viewer'[c].back = viewer[c].back
           /\ c \in V \/ c \notin slots => viewer'[c].refs = 0
           /\ c \notin V /\ c \in slots => viewer'[c].refs = viewer[c].refs
           /\ editor'[c] = IF c \in E THEN NoEditor ELSE editor[c]
           /\ pool'[c] = IF c \in P THEN NoConn ELSE pool[c]
           /\ monitor'[c] \in Monitor
           /\ c \in M \/ c \notin slots => monitor'[c].refs = 0
           /\ c \notin M /\ c \in slots => monitor'[c].refs = monitor[c].refs
  <1> DEFINE v0 == [viewer[c] EXCEPT !.refs = 0]
             m0 == [monitor[c] EXCEPT !.refs = 0]
  <1>1. m0 \in Monitor /\ m0.refs = 0
    BY DEF Shape, Monitor
  <1>2. /\ v0 \in Viewer /\ v0.refs = 0 /\ v0.kind = viewer[c].kind
        /\ v0.of = viewer[c].of /\ v0.back = viewer[c].back
    <2>1. viewer[c] \in Viewer
      BY DEF Shape
    <2>2. v0 \in Viewer
      BY <2>1 DEF Viewer
    <2> QED BY <2>1, <2>2 DEF Viewer
  <1>3. /\ viewer'[c] = IF c \in V THEN NoViewer ELSE IF c \in slots THEN viewer[c] ELSE v0
        /\ editor'[c] = IF c \in E THEN NoEditor ELSE editor[c]
        /\ pool'[c] = IF c \in P THEN NoConn ELSE pool[c]
        /\ monitor'[c] = IF c \in M THEN NoMonitor ELSE IF c \in slots THEN monitor[c] ELSE m0
    BY DEF Close
  <1>4. /\ NoMonitor \in Monitor /\ NoMonitor.refs = 0 /\ monitor[c] \in Monitor
        /\ NoViewer \in Viewer /\ NoViewer.refs = 0 /\ viewer[c] \in Viewer
    BY DEF Shape, NoMonitor, Monitor, NoViewer, Viewer, NoTimer
  <1> HIDE DEF v0, m0
  <1> QED BY <1>1, <1>2, <1>3, <1>4

LEMMA ClosingKeepsTypes ==
    ASSUME Shape, NoneIsEmpty, NEW V, NEW E, NEW P, NEW M, NEW slots, NEW shown,
           Close(V, E, P, M, slots, shown)
    PROVE  /\ viewer' \in [Conn -> Viewer] /\ editor' \in [Conn -> Editor]
           /\ pool' \in [Conn -> Conn \cup {NoConn}] /\ monitor' \in [Conn -> Monitor]
           /\ held' \in [Conn -> Nat] /\ stolen' \in [Conn -> BOOLEAN]
           /\ rash' \in [Conn -> BOOLEAN]
           /\ NoneIsEmpty'
  <1>1. NoViewer \in Viewer /\ NoEditor \in Editor
    BY DEF NoViewer, NoEditor, Viewer, Editor, NoTimer
  <1>2. \A c \in Conn : /\ viewer'[c] \in Viewer /\ editor'[c] \in Editor
                        /\ pool'[c] \in Conn \cup {NoConn} /\ monitor'[c] \in Monitor
    BY <1>1, Closed DEF Shape
  <1>3. /\ viewer' = [c \in Conn |-> viewer'[c]] /\ editor' = [c \in Conn |-> editor'[c]]
        /\ pool' = [c \in Conn |-> pool'[c]] /\ monitor' = [c \in Conn |-> monitor'[c]]
    BY DEF Close
  <1>4. /\ viewer' \in [Conn -> Viewer] /\ editor' \in [Conn -> Editor]
        /\ pool' \in [Conn -> Conn \cup {NoConn}] /\ monitor' \in [Conn -> Monitor]
    BY <1>2, <1>3
  <1>5. \A c \in Conn : Drops(c, V, M) \in 0 .. 2
    BY DEF Drops
  <1>6. held' \in [Conn -> Nat]
    BY <1>5 DEF Close, Shape
  <1>7. stolen' \in [Conn -> BOOLEAN] /\ rash' \in [Conn -> BOOLEAN]
    BY DEF Close, Shape, Rash
  <1>8. NoneIsEmpty'
    <2> SUFFICES ASSUME NEW c \in Conn, viewer'[c].kind = "none"
                 PROVE  viewer'[c].back = "none" /\ viewer'[c].refs = 0
      BY DEF NoneIsEmpty
    <2>1. NoViewer.back = "none" /\ NoViewer.refs = 0
      BY DEF NoViewer
    <2> QED BY <2>1, Closed DEF NoneIsEmpty
  <1> QED BY <1>4, <1>6, <1>7, <1>8

\* The references stay counted: who goes drops one of his own, or is rash.
LEMMA ClosingKeepsCount ==
    ASSUME Shape, NoneIsEmpty, RefsAreHeld, OwnerKeepsHandle,
           NEW V \in SUBSET Conn, NEW E \in SUBSET Conn, NEW P \in SUBSET Conn,
           NEW M \in SUBSET Conn, NEW shown, NEW slots,
           slots = {c \in Conn : link'[c] # "down"},
           Close(V, E, P, M, slots, shown)
    PROVE  RefsAreHeld' /\ OwnerKeepsHandle'
  <1> SUFFICES ASSUME NEW c \in Conn
               PROVE  /\ link'[c] = "down" => viewer'[c].refs = 0 /\ monitor'[c].refs = 0
                      /\ ~rash'[c] => held'[c] >= viewer'[c].refs + monitor'[c].refs
                      /\ stolen'[c] => rash'[c]
    BY DEF RefsAreHeld, OwnerKeepsHandle
  <1> DEFINE n == Drops(c, V, M)
  <1>1. /\ c \in V \/ c \notin slots => viewer'[c].refs = 0
        /\ c \notin V /\ c \in slots => viewer'[c].refs = viewer[c].refs
        /\ c \in M \/ c \notin slots => monitor'[c].refs = 0
        /\ c \notin M /\ c \in slots => monitor'[c].refs = monitor[c].refs
        /\ viewer'[c].refs \in Nat /\ viewer[c].refs \in Nat /\ monitor[c].refs \in Nat
        /\ held[c] \in Nat
    <2>1. viewer' \in [Conn -> Viewer] /\ viewer \in [Conn -> Viewer]
      BY ClosingKeepsTypes DEF Shape
    <2>2. monitor[c].refs \in Nat /\ held[c] \in Nat
      BY DEF Shape, Monitor
    <2>3. /\ c \in V \/ c \notin slots => viewer'[c].refs = 0
          /\ c \notin V /\ c \in slots => viewer'[c].refs = viewer[c].refs
          /\ c \in M \/ c \notin slots => monitor'[c].refs = 0
          /\ c \notin M /\ c \in slots => monitor'[c].refs = monitor[c].refs
      BY Closed
    <2> QED BY <2>1, <2>2, <2>3 DEF Viewer
  <1>2. /\ held'[c] = IF c \in slots /\ held[c] > n THEN held[c] - n ELSE 0
        /\ stolen'[c] <=> (stolen[c] \/ (c \in slots /\ held[c] < n))
        /\ rash'[c] <=> (rash[c] \/ (c \in slots /\ Rash(c, V, M)))
    BY DEF Close
  <1>3. /\ n = (IF ConsoleGoes(c, V) THEN 1 ELSE 0) + (IF c \in M THEN 1 ELSE 0)
        /\ n \in Nat
    BY DEF Drops
  <1> HIDE DEF n
  <1>5. CASE c \notin slots
    <2>1. viewer'[c].refs = 0 /\ monitor'[c].refs = 0
      BY <1>1, <1>5
    <2> QED BY <1>2, <1>5, <2>1 DEF OwnerKeepsHandle
  <1>6. CASE c \in slots /\ rash'[c]
    BY <1>6
  <1>7. CASE c \in slots /\ ~rash'[c]
    <2>1. ~rash[c] /\ ~Rash(c, V, M) /\ ~stolen[c]
      BY <1>2, <1>7 DEF OwnerKeepsHandle
    <2>2. held[c] >= viewer[c].refs + monitor[c].refs
      BY <2>1 DEF RefsAreHeld
    <2>3. /\ ConsoleGoes(c, V) => viewer[c].refs >= 1 /\ c \in V
          /\ c \in M => monitor[c].refs >= 1
      BY <1>1, <2>1 DEF Rash, ConsoleGoes
    <2> DEFINE console == IF ConsoleGoes(c, V) THEN 1 ELSE 0
               other   == IF c \in M THEN 1 ELSE 0
    <2>4. viewer'[c].refs + console <= viewer[c].refs
      BY <1>1, <1>7, <2>3
    <2>5. monitor'[c].refs + other <= monitor[c].refs /\ monitor'[c].refs \in Nat
      BY <1>1, <1>7, <2>3
    <2>6. n = console + other /\ console \in Nat /\ other \in Nat
      BY <1>3
    <2>7. held[c] >= viewer'[c].refs + monitor'[c].refs + n
      <3> DEFINE v == viewer[c].refs   m == monitor[c].refs
                 w == viewer'[c].refs  k == monitor'[c].refs
      <3>1. /\ v \in Nat /\ m \in Nat /\ w \in Nat /\ k \in Nat /\ held[c] \in Nat
            /\ held[c] >= v + m /\ w + console <= v /\ k + other <= m
        BY <1>1, <2>2, <2>4, <2>5
      <3> HIDE DEF console, other, v, m, w, k
      <3>2. held[c] >= w + k + n
        BY <2>6, <3>1
      <3> QED BY <3>2 DEF w, k
    <2>8. held'[c] >= viewer'[c].refs + monitor'[c].refs /\ ~(held[c] < n)
      BY <1>1, <1>2, <1>3, <1>7, <2>5, <2>7
    <2> QED BY <1>2, <1>7, <2>1, <2>8
  <1> QED BY <1>5, <1>6, <1>7

\* All that the invariants say of windows, when some of them close: the docks and
\* the connections are as the hypotheses say, and a connection of which nothing
\* is expected any more was such before or loses its windows.
LEMMA ClosingStep ==
    ASSUME Whole,
           NEW V \in SUBSET Conn, NEW E \in SUBSET Conn, NEW P \in SUBSET Conn,
           NEW M \in SUBSET Conn, NEW shown, NEW slots,
           Close(V, E, P, M, slots, shown),
           slots = {c \in Conn : link'[c] # "down"},
           link' \in [Conn -> {"down", "up", "dead"}],
           notice' \in [Conn -> {"none", "onView", "offView"}],
           viewed' \subseteq Conn, astray' \subseteq Conn, untold' \subseteq Conn,
           UNCHANGED ctl, active' \in BOOLEAN, answers' \subseteq answers, active' => active,
           late' \in BOOLEAN, late => late',
           NoticeIsOfLost', ViewIsCurrent',
           \A c \in Conn : \/ Expected(c) => Expected(c)'
                          \/ /\ c \in V \/ viewer[c].kind = "none"
                             /\ c \in E \/ editor[c].of = NoConn
                             /\ c \in P \/ pool[c] = NoConn
    PROVE  Whole'
  <1> USE DEF Whole, WInv
  <1>1. Shape' /\ NoneIsEmpty'
    BY ClosingKeepsTypes DEF Shape
  <1>2. RefsAreHeld' /\ OwnerKeepsHandle'
    BY ClosingKeepsCount
  <1>3. ControlsAreNamed'
    BY DEF ControlsAreNamed
  <1>4. \A c \in Conn : /\ c \in V => viewer'[c] = NoViewer
                        /\ c \notin V => /\ viewer'[c].kind = viewer[c].kind
                                        /\ viewer'[c].of = viewer[c].of
                        /\ editor'[c] = IF c \in E THEN NoEditor ELSE editor[c]
                        /\ pool'[c] = IF c \in P THEN NoConn ELSE pool[c]
    BY Closed
  <1>5. NoViewer.kind = "none" /\ NoViewer.of = NoConn /\ NoEditor.of = NoConn
    BY DEF NoViewer, NoEditor
  <1>6. NothingIsLeft'
    BY <1>4, <1>5 DEF NothingIsLeft, Bare
  <1>7. WindowIsOfItsConnection'
    BY <1>4, <1>5 DEF WindowIsOfItsConnection
  <1> QED BY <1>1, <1>2, <1>3, <1>6, <1>7

\* A close that leaves connections and docks alone.
LEMMA CloseWindowStep ==
    ASSUME Whole, NEW V \in SUBSET Conn, NEW E \in SUBSET Conn, NEW P \in SUBSET Conn,
           NEW M \in SUBSET Conn, NEW shown, Close(V, E, P, M, Slots, shown),
           UNCHANGED <<link, notice, nameVars, dockVars>>,
           late' = late \/ late' = (late \/ answers # {})
    PROVE  Whole'
  <1> USE DEF Whole, WInv
  <1>1. late' \in BOOLEAN /\ (late => late')
    BY DEF Shape
  <1>2. Slots = {c \in Conn : link'[c] # "down"}
    BY DEF Slots
  <1>3. NoticeIsOfLost' /\ ViewIsCurrent'
    BY <1>1 DEF NoticeIsOfLost, ViewIsCurrent, Expected, dockVars, nameVars
  <1>4. \A c \in Conn : Expected(c) => Expected(c)'
    BY DEF Expected, nameVars
  <1>5. /\ link' \in [Conn -> {"down", "up", "dead"}]
        /\ notice' \in [Conn -> {"none", "onView", "offView"}]
        /\ viewed' \subseteq Conn /\ astray' \subseteq Conn /\ untold' \subseteq Conn
        /\ UNCHANGED ctl /\ active' \in BOOLEAN /\ answers' \subseteq answers
        /\ active' => active
    BY DEF dockVars, nameVars, Shape
  <1> QED BY <1>1, <1>2, <1>3, <1>4, <1>5, ClosingStep

\* What the main window does when it is told, or not: all that the connection has
\* is closed, or it is one of those untold.
LEMMA StopStep ==
    ASSUME Whole, NEW c \in Conn, CloseConnection(c) \/ DeliverNotice(c)
    PROVE  Whole'
  <1> USE DEF Whole, WInv
  <1> DEFINE slots == {d \in Conn : link'[d] # "down"}
             Goes(V, E, P) == /\ c \in V \/ viewer[c].kind = "none"
                              /\ c \in E \/ editor[c].of = NoConn
                              /\ c \in P \/ pool[c] = NoConn
  <1>1. /\ link' \in [Conn -> {"down", "up", "dead"}]
        /\ notice' \in [Conn -> {"none", "onView", "offView"}]
        /\ \A d \in Conn \ {c} : link'[d] = link[d] /\ notice'[d] = notice[d]
        /\ astray' \subseteq Conn
        /\ UNCHANGED <<ctl, answers>>
        /\ NoticeIsOfLost'
    <2>1. CASE CloseConnection(c)
      BY <2>1 DEF CloseConnection, NoticeIsOfLost, Shape
    <2>2. CASE DeliverNotice(c)
      BY <2>2 DEF DeliverNotice, NoticeIsOfLost, Shape
    <2> QED BY <2>1, <2>2
  <1>2. ASSUME NEW wasOnView \in BOOLEAN, StopConnProcessing(c, wasOnView, slots)
        PROVE  /\ active' \in BOOLEAN /\ (active' => active) /\ (active' => ~wasOnView)
               /\ late' \in BOOLEAN /\ (late => late') /\ (wasOnView /\ answers # {} => late')
               /\ viewed' \subseteq Conn /\ untold' \subseteq Conn /\ untold \subseteq untold'
               /\ active' /\ ctl.ptr = c => c \in untold'
               /\ c \in astray' => c \in untold'
    BY <1>2 DEF StopConnProcessing, Shape
  <1>3. CASE CloseConnection(c) /\ CloseFails(c)
    <2>1. /\ untold' = untold \cup {c} /\ UNCHANGED <<active, late, viewed>>
          /\ Close({}, {}, {}, {}, Slots \ {c}, main)
      BY <1>3 DEF CloseFails
    <2>2. slots = Slots \ {c}
      BY <1>3 DEF CloseConnection, Slots, Shape
    <2>3. \A d \in Conn : Expected(d) => Expected(d)'
      BY <1>1, <2>1 DEF Expected
    <2>4. ViewIsCurrent'
      BY <1>1, <2>1, <2>3 DEF ViewIsCurrent, ControlsAreNamed
    <2>5. /\ {} \in SUBSET Conn /\ untold' \subseteq Conn
          /\ viewed' \subseteq Conn /\ active' \in BOOLEAN /\ late' \in BOOLEAN
      BY <2>1 DEF Shape
    <2>6. Close({}, {}, {}, {}, slots, main)
      BY <2>1, <2>2
    <2> QED BY <1>1, <2>1, <2>3, <2>4, <2>5, <2>6, ClosingStep
  <1>4. ASSUME NEW wasOnView \in BOOLEAN, StopConnProcessing(c, wasOnView, slots)
        PROVE  Whole'
    <2>1. PICK V \in SUBSET Conn, E \in SUBSET Conn, P \in SUBSET Conn :
            /\ Close(V, E, P, {}, slots, main)
            /\ c \in astray' \/ Goes(V, E, P)
      <3> DEFINE V == Viewers(Prefixed(c))
                 E == Editors(Prefixed(c))
                 P == Pools(Prefixed(c))
      <3>1. V \in SUBSET Conn /\ E \in SUBSET Conn /\ P \in SUBSET Conn
        BY DEF Viewers, Editors, Pools, Prefixed
      <3>2. Goes(V, E, P)
        BY DEF Viewers, Editors, Pools, Prefixed
      <3>3. \/ c \in astray' /\ Close({}, {}, {}, {}, slots, main)
            \/ Close(V, E, P, {}, slots, main)
        BY <1>4 DEF StopConnProcessing, CloseConnGenerations
      <3>4. {} \in SUBSET Conn
        OBVIOUS
      <3> HIDE DEF V, E, P, Goes, slots
      <3> QED BY <3>1, <3>2, <3>3, <3>4
    <2>2. \A d \in Conn : (Expected(d) => Expected(d)') \/ (d = c /\ Goes(V, E, P))
      BY <1>1, <1>2, <1>4, <2>1 DEF Expected
    <2>3. ViewIsCurrent'
      <3> HIDE DEF Goes, slots
      <3> SUFFICES ASSUME ~late' PROVE /\ active' => Expected(ctl.ptr)'
                                       /\ \A ans \in answers : active' /\ ans.of = ctl.ptr
        BY <1>1 DEF ViewIsCurrent
      <3>1. /\ active => Expected(ctl.ptr)
            /\ \A ans \in answers : active /\ ans.of = ctl.ptr
        BY <1>2, <1>4 DEF ViewIsCurrent
      <3>2. ASSUME active' PROVE Expected(ctl.ptr)'
        <4>1. CASE ctl.ptr = c
          BY <1>1, <1>2, <1>4, <3>2, <4>1 DEF Expected
        <4>2. CASE ctl.ptr # c
          <5>1. ctl.ptr \in Conn /\ Expected(ctl.ptr)
            BY <1>2, <1>4, <3>1, <3>2 DEF ControlsAreNamed
          <5> QED BY <1>1, <2>2, <4>2, <5>1 DEF Expected
        <4> QED BY <4>1, <4>2
      <3>3. answers # {} => active'
        BY <1>2, <1>4, <3>1 DEF StopConnProcessing
      <3> QED BY <3>1, <3>2, <3>3
    <2>4. {} \in SUBSET Conn /\ answers' \subseteq answers
      BY <1>1
    <2>5. \A d \in Conn : \/ Expected(d) => Expected(d)'
                          \/ /\ d \in V \/ viewer[d].kind = "none"
                             /\ d \in E \/ editor[d].of = NoConn
                             /\ d \in P \/ pool[d] = NoConn
      BY <2>2
    <2> HIDE DEF slots, Goes
    <2>6. slots = {d \in Conn : link'[d] # "down"}
      BY DEF slots
    <2> QED BY <1>1, <1>2, <1>4, <2>1, <2>3, <2>4, <2>5, <2>6, ClosingStep
  <1>5. CASE CloseConnection(c) /\ ~CloseFails(c)
    <2>1. slots = Slots \ {c}
      BY <1>5 DEF CloseConnection, Slots, Shape
    <2>2. (c \in viewed) \in BOOLEAN
      OBVIOUS
    <2> HIDE DEF slots
    <2> QED BY <1>4, <1>5, <2>1, <2>2 DEF CloseConnection
  <1>6. CASE DeliverNotice(c)
    <2>1. slots = Slots
      BY <1>6 DEF DeliverNotice, Slots
    <2>2. (notice[c] = "onView") \in BOOLEAN
      OBVIOUS
    <2> HIDE DEF slots
    <2> QED BY <1>4, <1>6, <2>1, <2>2 DEF DeliverNotice
  <1> QED BY <1>3, <1>5, <1>6

----------------------------------------------------------------------------
(* The steps that close nothing.                                           *)

\* A viewer that is tended stays what it is, and takes or drops no reference.
Tended ==
    /\ UNCHANGED <<connVars, dockVars, editor, pool, monitor, late, rash>>
    /\ viewer' \in [Conn -> Viewer]
    /\ \A c \in Conn :
         /\ viewer'[c].kind = viewer[c].kind
         /\ viewer'[c].of = viewer[c].of
         /\ viewer'[c].refs = viewer[c].refs
         /\ viewer[c].back = "none" => viewer'[c].back = "none"

TendedStep(c) ==
    \/ Established(c) \/ TunnelEnds(c) \/ ReinitTick(c) \/ DisplayUp(c)
    \/ UseViewer(c) \/ LxcInit(c) \/ ConsoleOpens(c)

LEMMA Tending == ASSUME Shape, NEW c \in Conn, TendedStep(c) PROVE Tended
  <1> DEFINE Same(v) == /\ v \in Viewer
                        /\ v.kind = viewer[c].kind /\ v.of = viewer[c].of
                        /\ v.refs = viewer[c].refs
                        /\ viewer[c].back = "none" => v.back = "none"
  <1>0. viewer[c] \in Viewer
    BY DEF Shape
  <1>1. ASSUME NEW v, Same(v), viewer' = [viewer EXCEPT ![c] = v],
               UNCHANGED <<connVars, dockVars, editor, pool, monitor, late, rash>>
        PROVE  Tended
    BY <1>1 DEF Tended, Shape
  <1>2. ASSUME NEW v, Same(v), Change(c, v) PROVE Tended
    <2> HIDE DEF Same
    <2> QED BY <1>1, <1>2 DEF Change, history
  <1> DEFINE t == Tell(viewer[c])
  <1>3. /\ t \in Viewer /\ t.kind = viewer[c].kind /\ t.of = viewer[c].of
        /\ t.refs = viewer[c].refs /\ t.back = viewer[c].back
    BY <1>0 DEF Tell, Viewer
  <1>field. ASSUME NEW v, Same(v), NEW i \in Int
         PROVE  /\ Same([v EXCEPT !.reinit = i]) /\ Same([v EXCEPT !.kill = TRUE])
                /\ Same([v EXCEPT !.back = "none"])
    BY <1>field DEF Viewer
  <1> HIDE DEF t
  <1>4. /\ Same([t EXCEPT !.back = "none"])
        /\ Same([t EXCEPT !.reinit = NoTimer, !.kill = TRUE])
        /\ Same([t EXCEPT !.back = "none", !.kill = TRUE])
    <2>1. Same(t) /\ NoTimer \in Int
      BY <1>3 DEF NoTimer
    <2>2. /\ [t EXCEPT !.reinit = NoTimer, !.kill = TRUE]
               = [[t EXCEPT !.reinit = NoTimer] EXCEPT !.kill = TRUE]
          /\ [t EXCEPT !.back = "none", !.kill = TRUE]
               = [[t EXCEPT !.back = "none"] EXCEPT !.kill = TRUE]
      OBVIOUS
    <2> HIDE DEF Same
    <2> QED BY <1>field, <2>1, <2>2
  <1>5. CASE Established(c)
    <2>1. viewer[c].back = "starting"
      BY <1>5 DEF Established
    <2>2. Same([viewer[c] EXCEPT !.back = "tunnel", !.reinit = 0])
      <3>1. Same([viewer[c] EXCEPT !.back = "tunnel"]) /\ 0 \in Int
        BY <1>0, <2>1 DEF Viewer
      <3>2. [viewer[c] EXCEPT !.back = "tunnel", !.reinit = 0]
              = [[viewer[c] EXCEPT !.back = "tunnel"] EXCEPT !.reinit = 0]
        OBVIOUS
      <3> HIDE DEF Same
      <3> QED BY <1>field, <3>1, <3>2
    <2> QED BY <1>2, <1>5, <2>2 DEF Established
  <1>6. CASE TunnelEnds(c)
    BY <1>2, <1>4, <1>6 DEF TunnelEnds, t
  <1>7. CASE ReinitTick(c)
    <2>1. viewer[c].reinit + 1 \in Int
      BY <1>0 DEF Viewer
    <2>2. /\ Same([viewer[c] EXCEPT !.wdg = "live", !.reinit = viewer[c].reinit + 1])
          /\ Same([viewer[c] EXCEPT !.reinit = NoTimer])
      <3>1. Same([viewer[c] EXCEPT !.wdg = "live"]) /\ Same(viewer[c]) /\ NoTimer \in Int
        BY <1>0 DEF Viewer, NoTimer
      <3>2. [viewer[c] EXCEPT !.wdg = "live", !.reinit = viewer[c].reinit + 1]
              = [[viewer[c] EXCEPT !.wdg = "live"] EXCEPT !.reinit = viewer[c].reinit + 1]
        OBVIOUS
      <3> HIDE DEF Same
      <3> QED BY <1>field, <2>1, <3>1, <3>2
    <2> HIDE DEF Same
    <2> QED BY <1>2, <1>4, <1>7, <2>2 DEF ReinitTick, t
  <1>8. CASE DisplayUp(c)
    <2>1. Same([viewer[c] EXCEPT !.seen = TRUE])
      BY <1>0 DEF Viewer
    <2> QED BY <1>2, <1>8, <2>1 DEF DisplayUp
  <1>9. CASE UseViewer(c)
    <2>1. Same(viewer[c]) /\ Same([viewer[c] EXCEPT !.wdg = "live"])
      BY <1>0 DEF Viewer
    <2>2. /\ UNCHANGED <<connVars, dockVars, editor, pool, monitor, late, rash>>
          /\ \/ UNCHANGED viewer
             \/ viewer' = [viewer EXCEPT ![c].wdg = "live"]
      BY <1>9 DEF UseViewer, history
    <2>3. \/ UNCHANGED viewer
          \/ viewer' = [viewer EXCEPT ![c] = [viewer[c] EXCEPT !.wdg = "live"]]
      BY <2>2
    <2>4. CASE UNCHANGED viewer
      BY <2>2, <2>4 DEF Tended, Shape
    <2> QED BY <1>1, <2>1, <2>2, <2>3, <2>4
  <1>10. CASE LxcInit(c)
    <2>1. viewer[c].back = "asking"
      BY <1>10 DEF LxcInit
    <2>2. Same([viewer[c] EXCEPT !.back = "pty"])
      BY <1>0, <2>1 DEF Viewer
    <2> QED BY <1>2, <1>4, <1>10, <2>2 DEF LxcInit, t
  <1>11. CASE ConsoleOpens(c)
    <2>1. viewer[c].back = "opening"
      BY <1>11 DEF ConsoleOpens
    <2>2. Same([viewer[c] EXCEPT !.back = "console"])
      BY <1>0, <2>1 DEF Viewer
    <2> QED BY <1>2, <1>11, <2>2 DEF ConsoleOpens
  <1> QED BY <1>5, <1>6, <1>7, <1>8, <1>9, <1>10, <1>11 DEF TendedStep

LEMMA TendedKeeps == ASSUME Whole, Tended PROVE Whole'
  <1> USE DEF Whole, WInv
  <1>1. UNCHANGED <<link, notice, viewed, astray, untold, held, stolen, ctl, active, answers,
                    editor, pool, monitor, late, rash>>
    BY DEF Tended, connVars, nameVars, dockVars
  <1>2. \A c \in Conn :
          /\ viewer'[c].kind = viewer[c].kind
          /\ viewer'[c].of = viewer[c].of
          /\ viewer'[c].refs = viewer[c].refs
          /\ viewer[c].back = "none" => viewer'[c].back = "none"
    BY DEF Tended
  <1>3. Shape'
    BY <1>1 DEF Shape, Tended
  <1>4. NoneIsEmpty' /\ RefsAreHeld' /\ OwnerKeepsHandle'
    BY <1>1, <1>2 DEF NoneIsEmpty, RefsAreHeld, OwnerKeepsHandle
  <1>5. ControlsAreNamed' /\ NoticeIsOfLost' /\ ViewIsCurrent'
    BY <1>1 DEF ControlsAreNamed, NoticeIsOfLost, ViewIsCurrent, Expected
  <1>6. NothingIsLeft' /\ WindowIsOfItsConnection'
    BY <1>1, <1>2 DEF NothingIsLeft, Expected, Bare, WindowIsOfItsConnection
  <1> QED BY <1>3, <1>4, <1>5, <1>6

\* ConnAliveThread opens: another handle, of which windows have nothing.
LEMMA OpenStep == ASSUME Whole, NEW c \in Conn, OpenConnection(c) PROVE Whole'
  <1> USE DEF Whole, WInv
  <1>0. viewed' \subseteq Conn /\ astray' \subseteq Conn /\ untold' = untold \ {c}
    BY DEF OpenConnection, Shape
  <1>1. /\ link[c] # "up" /\ notice[c] = "none"
        /\ link' = [link EXCEPT ![c] = "up"]
        /\ held' = [held EXCEPT ![c] = 0]
        /\ stolen' = [stolen EXCEPT ![c] = FALSE]
        /\ rash' = [rash EXCEPT ![c] = FALSE]
        /\ monitor' = [monitor EXCEPT ![c].refs = 0]
        /\ viewer' = [viewer EXCEPT ![c].refs = 0]
        /\ UNCHANGED <<notice, answers, editor, pool, late>>
        /\ \/ active /\ UNCHANGED <<ctl, active>>
           \/ ~active /\ ctl' = [ptr |-> c, name |-> c] /\ active' = TRUE
    BY DEF OpenConnection, Shape
  <1>2. /\ viewer' \in [Conn -> Viewer] /\ monitor' \in [Conn -> Monitor]
        /\ viewer'[c].refs = 0 /\ monitor'[c].refs = 0
        /\ \A d \in Conn : /\ viewer'[d].kind = viewer[d].kind
                           /\ viewer'[d].of = viewer[d].of
                           /\ viewer'[d].back = viewer[d].back
        /\ \A d \in Conn \ {c} : viewer'[d] = viewer[d] /\ monitor'[d] = monitor[d]
    <2>1. /\ [viewer[c] EXCEPT !.refs = 0] \in Viewer
          /\ [viewer[c] EXCEPT !.refs = 0].kind = viewer[c].kind
          /\ [viewer[c] EXCEPT !.refs = 0].of = viewer[c].of
          /\ [viewer[c] EXCEPT !.refs = 0].back = viewer[c].back
          /\ [viewer[c] EXCEPT !.refs = 0].refs = 0
      <3>1. viewer[c] \in Viewer
        BY DEF Shape
      <3>2. [viewer[c] EXCEPT !.refs = 0] \in Viewer
        BY <3>1 DEF Viewer
      <3> QED BY <3>1, <3>2 DEF Viewer
    <2>2. /\ [monitor[c] EXCEPT !.refs = 0] \in Monitor
          /\ [monitor[c] EXCEPT !.refs = 0].refs = 0
      BY DEF Shape, Monitor
    <2>3. /\ viewer' = [viewer EXCEPT ![c] = [viewer[c] EXCEPT !.refs = 0]]
          /\ monitor' = [monitor EXCEPT ![c] = [monitor[c] EXCEPT !.refs = 0]]
      BY <1>1
    <2> QED BY <2>1, <2>2, <2>3 DEF Shape
  <1>3. Shape'
    <2>1. /\ ctl' \in [ptr : Conn \cup {NoConn}, name : Conn \cup {NoConn}]
          /\ active' \in BOOLEAN
      <3>1. [ptr |-> c, name |-> c] \in [ptr : Conn \cup {NoConn}, name : Conn \cup {NoConn}]
        OBVIOUS
      <3>2. CASE active /\ UNCHANGED <<ctl, active>>
        BY <3>2 DEF Shape
      <3>3. CASE ctl' = [ptr |-> c, name |-> c] /\ active' = TRUE
        BY <3>1, <3>3
      <3> QED BY <1>1, <3>2, <3>3
    <2>2. /\ link' \in [Conn -> {"down", "up", "dead"}] /\ held' \in [Conn -> Nat]
          /\ stolen' \in [Conn -> BOOLEAN] /\ rash' \in [Conn -> BOOLEAN]
      BY <1>1 DEF Shape
    <2> QED BY <1>0, <1>1, <1>2, <2>1, <2>2 DEF Shape
  <1>4. NoneIsEmpty' /\ RefsAreHeld' /\ OwnerKeepsHandle'
    BY <1>1, <1>2 DEF NoneIsEmpty, RefsAreHeld, OwnerKeepsHandle, Shape
  <1>5. ControlsAreNamed' /\ NoticeIsOfLost'
    BY <1>1 DEF ControlsAreNamed, NoticeIsOfLost, Shape
  <1>6. ViewIsCurrent'
    BY <1>0, <1>1 DEF ViewIsCurrent, Expected, ControlsAreNamed, Shape
  <1>7. NothingIsLeft' /\ WindowIsOfItsConnection'
    BY <1>0, <1>1, <1>2 DEF NothingIsLeft, Expected, Bare, WindowIsOfItsConnection, Shape
  <1> QED BY <1>3, <1>4, <1>5, <1>6, <1>7

LEMMA LoseStep ==
    ASSUME Whole, NEW c \in Conn, LoseConnection(c) PROVE Whole'
  <1> USE DEF Whole, WInv
  <1>1. /\ link[c] = "up" /\ link' = [link EXCEPT ![c] = "dead"]
        /\ notice' = [notice EXCEPT ![c] = IF c \in viewed THEN "onView" ELSE "offView"]
        /\ UNCHANGED <<viewed, astray, untold, held, stolen, ctl, active, answers, viewer, editor, pool, monitor,
                       late, rash>>
    BY DEF LoseConnection, nameVars, dockVars, windowVars, history
  <1>2. Shape'
    BY <1>1 DEF Shape
  <1>3. NoneIsEmpty' /\ RefsAreHeld' /\ OwnerKeepsHandle' /\ ControlsAreNamed'
    BY <1>1 DEF NoneIsEmpty, RefsAreHeld, OwnerKeepsHandle, ControlsAreNamed, Shape
  <1>4. NoticeIsOfLost' /\ ViewIsCurrent'
    BY <1>1 DEF NoticeIsOfLost, ViewIsCurrent, Expected, ControlsAreNamed, Shape
  <1>5. NothingIsLeft' /\ WindowIsOfItsConnection'
    BY <1>1 DEF NothingIsLeft, Expected, Bare, WindowIsOfItsConnection, Shape
  <1> QED BY <1>2, <1>3, <1>4, <1>5

\* The docks take another connection or none, another question is asked of it, or
\* threads and rows change that the docks do not know of.
LEMMA DocksStep ==
    ASSUME Whole, \/ \E c \in Conn : Overview(c) \/ OverviewOfOther(c) \/ RenameRow(c)
                  \/ CloseOverview
                  \/ \E opens \in {"viewer", "editor"} : Ask(opens)
    PROVE  Whole'
  <1> USE DEF Whole, WInv
  <1>1. UNCHANGED <<link, notice, untold, held, stolen, viewer, editor, pool, monitor, rash>>
    BY DEF Overview, OverviewOfOther, RenameRow, CloseOverview, Ask, connVars, nameVars,
           windowVars, history
  <1>2. NoneIsEmpty' /\ RefsAreHeld' /\ OwnerKeepsHandle' /\ NoticeIsOfLost'
    BY <1>1 DEF NoneIsEmpty, RefsAreHeld, OwnerKeepsHandle, NoticeIsOfLost
  <1>3. ASSUME NEW c \in Conn, Overview(c)
        PROVE  Shape' /\ ControlsAreNamed' /\ ViewIsCurrent' /\ (late => late')
    <2>1. /\ ctl' = [ptr |-> c, name |-> c] /\ active' = TRUE /\ UNCHANGED answers
          /\ late' = (late \/ answers # {} \/ notice[c] # "none")
          /\ link[c] = "up" \/ notice[c] # "none"
          /\ viewed' \subseteq Conn /\ UNCHANGED astray
      BY <1>3 DEF Overview, RowRuns
    <2>2. Shape'
      BY <1>1, <2>1 DEF Shape
    <2> QED BY <1>1, <2>1, <2>2 DEF ControlsAreNamed, ViewIsCurrent, Expected, Shape
  <1>4. ASSUME NEW opens \in {"viewer", "editor"}, Ask(opens)
        PROVE  Shape' /\ ControlsAreNamed' /\ ViewIsCurrent' /\ (late => late')
    <2>1. /\ active /\ answers' = answers \cup {[of |-> ctl.ptr, opens |-> opens]}
          /\ UNCHANGED <<viewed, astray, ctl, active, late>>
      BY <1>4 DEF Ask, connVars, nameVars, history
    <2>2. Shape'
      BY <1>1, <2>1 DEF Shape
    <2> QED BY <1>1, <2>1, <2>2 DEF ControlsAreNamed, ViewIsCurrent, Expected, Shape
  <1>5. ASSUME NEW c \in Conn, OverviewOfOther(c) \/ RenameRow(c)
        PROVE  Shape' /\ ControlsAreNamed' /\ ViewIsCurrent' /\ (late => late')
    <2>1. /\ UNCHANGED <<ctl, active, answers, late>>
          /\ viewed' \subseteq Conn /\ astray' \subseteq Conn
      BY <1>5 DEF OverviewOfOther, RenameRow, dockVars, history, Shape
    <2>2. Shape'
      BY <1>1, <2>1 DEF Shape
    <2> QED BY <1>1, <2>1, <2>2 DEF ControlsAreNamed, ViewIsCurrent, Expected
  <1>6. ASSUME CloseOverview
        PROVE  Shape' /\ ControlsAreNamed' /\ ViewIsCurrent' /\ (late => late')
    <2>1. /\ UNCHANGED <<astray, ctl, answers>> /\ active /\ active' = FALSE /\ viewed' = {}
          /\ late' = (late \/ answers # {})
      BY <1>6 DEF CloseOverview
    <2>2. Shape'
      BY <1>1, <2>1 DEF Shape
    <2> QED BY <1>1, <2>1, <2>2 DEF ControlsAreNamed, ViewIsCurrent
  <1>7. Shape' /\ ControlsAreNamed' /\ ViewIsCurrent' /\ (late => late')
    BY <1>3, <1>4, <1>5, <1>6
  <1>8. NothingIsLeft' /\ WindowIsOfItsConnection'
    BY <1>1, <1>7 DEF NothingIsLeft, Expected, Bare, WindowIsOfItsConnection, Shape
  <1> QED BY <1>2, <1>7, <1>8

\* A window of a connection opens, or one that is there changes: the docks are
\* as before, and it is the connection on view unless they have changed.
LEMMA WindowOpens ==
    ASSUME Whole, NEW on \in Conn, NEW v \in Viewer, NEW e \in Editor,
           NEW p \in Conn \cup {NoConn},
           viewer' = [viewer EXCEPT ![on] = v],
           editor' = [editor EXCEPT ![on] = e],
           pool' = [pool EXCEPT ![on] = p],
           UNCHANGED <<link, notice, nameVars, held, stolen, monitor, ctl, active, late, rash>>,
           answers' \subseteq answers,
           v.refs = viewer[on].refs, v.kind = "none" => v = viewer[on],
           ~late => /\ Expected(on)
                    /\ {v.of, e.of, p} \subseteq {on, viewer[on].of, editor[on].of, pool[on]}
    PROVE  Whole'
  <1> USE DEF Whole, WInv
  <1>1. Shape'
    BY DEF Shape, nameVars
  <1>2. NoneIsEmpty' /\ RefsAreHeld' /\ OwnerKeepsHandle'
    BY DEF NoneIsEmpty, RefsAreHeld, OwnerKeepsHandle, Shape
  <1>3. ControlsAreNamed' /\ NoticeIsOfLost' /\ ViewIsCurrent'
    BY DEF ControlsAreNamed, NoticeIsOfLost, ViewIsCurrent, Expected, nameVars
  <1>4. NothingIsLeft'
    BY DEF NothingIsLeft, Expected, Bare, Shape, nameVars
  <1>5. WindowIsOfItsConnection'
    BY DEF WindowIsOfItsConnection, Shape
  <1> QED BY <1>1, <1>2, <1>3, <1>4, <1>5

\* What it takes to be a window that one may open or change at its place.
LEMMA ThereAlready ==
    ASSUME Shape, NEW c \in Conn
    PROVE  /\ viewer[c] \in Viewer /\ editor[c] \in Editor /\ pool[c] \in Conn \cup {NoConn}
           /\ viewer = [viewer EXCEPT ![c] = viewer[c]]
           /\ editor = [editor EXCEPT ![c] = editor[c]]
           /\ pool = [pool EXCEPT ![c] = pool[c]]
           /\ [viewer[c] EXCEPT !.seen = TRUE] \in Viewer
           /\ [viewer[c] EXCEPT !.seen = TRUE].of = viewer[c].of
           /\ [viewer[c] EXCEPT !.seen = TRUE].refs = viewer[c].refs
           /\ [viewer[c] EXCEPT !.seen = TRUE].kind = viewer[c].kind
  <1>1. /\ viewer[c] \in Viewer /\ editor[c] \in Editor /\ pool[c] \in Conn \cup {NoConn}
        /\ viewer = [viewer EXCEPT ![c] = viewer[c]]
        /\ editor = [editor EXCEPT ![c] = editor[c]]
        /\ pool = [pool EXCEPT ![c] = pool[c]]
    BY DEF Shape
  <1>2. [viewer[c] EXCEPT !.seen = TRUE] \in Viewer
    BY <1>1 DEF Viewer
  <1>3. /\ [viewer[c] EXCEPT !.seen = TRUE].of = viewer[c].of
        /\ [viewer[c] EXCEPT !.seen = TRUE].refs = viewer[c].refs
        /\ [viewer[c] EXCEPT !.seen = TRUE].kind = viewer[c].kind
    BY <1>1 DEF Viewer
  <1> QED BY <1>1, <1>2, <1>3

LEMMA Fresh ==
    ASSUME NEW of \in Conn \cup {NoConn}, NEW v \in FreshViewers(of)
    PROVE  v \in Viewer /\ v.of = of /\ v.refs = 0 /\ v.kind # "none"
  <1>1. ASSUME NEW kind \in {"lxc", "net"}, NEW seen \in BOOLEAN, NEW wdg \in {"none", "live"},
               NEW kill \in BOOLEAN, NEW back \in {"none", "starting", "asking"}
        PROVE  LET w == NewViewer(of, kind, seen, wdg, kill, back)
               IN  w \in Viewer /\ w.of = of /\ w.refs = 0 /\ w.kind # "none"
    BY <1>1 DEF NewViewer, Viewer, NoTimer
  <1> QED BY <1>1 DEF FreshViewers

\* An answer, or a click on a pool, opens a window of the connection on view.
LEMMA PoolOpens == ASSUME Whole, OverviewStoragePool PROVE Whole'
  <1>1. /\ active /\ ctl.ptr \in Conn /\ ctl.name = ctl.ptr
        /\ ~late => Expected(ctl.ptr)
    BY DEF OverviewStoragePool, Whole, WInv, ControlsAreNamed, ViewIsCurrent
  <1>2. /\ pool' = [pool EXCEPT ![ctl.name] = ctl.ptr]
        /\ UNCHANGED <<link, notice, nameVars, held, stolen, monitor, ctl, active, answers, late,
                       rash, viewer, editor>>
    BY DEF OverviewStoragePool, connVars, dockVars, history
  <1>3. Shape
    BY DEF Whole, WInv
  <1> DEFINE c == ctl.ptr
  <1>4. /\ viewer[c] \in Viewer /\ editor[c] \in Editor
        /\ viewer' = [viewer EXCEPT ![c] = viewer[c]] /\ editor' = [editor EXCEPT ![c] = editor[c]]
    BY <1>1, <1>2, <1>3, ThereAlready
  <1> QED BY <1>1, <1>2, <1>4, WindowOpens

LEMMA AnswerOpens ==
    ASSUME Whole, NEW ans \in answers, DeliverAnswer(ans) PROVE Whole'
  <1> DEFINE c == ctl.ptr
  <1>1. /\ c \in Conn /\ ctl.name = c /\ ans.of \in Conn \cup {NoConn}
        /\ ~late => /\ Expected(c)
                    /\ ans.of = c
    BY DEF Whole, WInv, Shape, ControlsAreNamed, ViewIsCurrent
  <1>2. /\ UNCHANGED <<link, notice, nameVars, held, stolen, monitor, ctl, active, late, rash, pool>>
        /\ answers' \subseteq answers
    BY DEF DeliverAnswer, connVars, history
  <1>3. Shape
    BY DEF Whole, WInv
  <1>4. /\ viewer[c] \in Viewer /\ editor[c] \in Editor /\ pool[c] \in Conn \cup {NoConn}
        /\ pool' = [pool EXCEPT ![c] = pool[c]]
    BY <1>1, <1>2, <1>3, ThereAlready
  <1>5. ASSUME NEW v \in Viewer, NEW e \in Editor,
               viewer' = [viewer EXCEPT ![c] = v], editor' = [editor EXCEPT ![c] = e],
               v.refs = viewer[c].refs, v.kind = "none" => v = viewer[c],
               v.of \in {ans.of, viewer[c].of}, e.of \in {ans.of, editor[c].of}
        PROVE  Whole'
    <2>1. ~late => {v.of, e.of, pool[c]} \subseteq {c, viewer[c].of, editor[c].of, pool[c]}
      BY <1>1, <1>5
    <2>2. ~late => Expected(c)
      BY <1>1
    <2> HIDE DEF c
    <2> QED BY <1>1, <1>2, <1>4, <1>5, <2>1, <2>2, WindowOpens
  <1>6. CASE UNCHANGED <<viewer, editor>>
    <2>1. viewer' = [viewer EXCEPT ![c] = viewer[c]] /\ editor' = [editor EXCEPT ![c] = editor[c]]
      BY <1>1, <1>3, <1>6, ThereAlready
    <2> HIDE DEF c
    <2> QED BY <1>4, <1>5, <2>1
  <1>7. CASE InvokeVMDisplay(ctl.name, ans.of)
    <2>1. editor' = [editor EXCEPT ![c] = editor[c]]
      BY <1>1, <1>3, <1>7, ThereAlready DEF InvokeVMDisplay
    <2>2. CASE viewer[c].kind # "none"
      <3>1. viewer' = [viewer EXCEPT ![c] = [viewer[c] EXCEPT !.seen = TRUE]]
        BY <1>1, <1>7, <2>2 DEF InvokeVMDisplay
      <3> QED BY <1>1, <1>3, <1>4, <1>5, <2>1, <2>2, <3>1, ThereAlready
    <2>3. CASE viewer[c].kind = "none"
      <3>1. PICK v \in FreshViewers(ans.of) : viewer' = [viewer EXCEPT ![c] = v]
        BY <1>1, <1>7, <2>3 DEF InvokeVMDisplay
      <3>2. v \in Viewer /\ v.of = ans.of /\ v.refs = 0 /\ v.kind # "none"
        BY <1>1, Fresh
      <3>3. viewer[c].refs = 0
        BY <1>1, <2>3 DEF Whole, WInv, NoneIsEmpty
      <3> QED BY <1>4, <1>5, <2>1, <3>1, <3>2, <3>3
    <2> QED BY <2>2, <2>3
  <1>8. CASE InvokeEditor(ctl.name, ans.of)
    <2>1. viewer' = [viewer EXCEPT ![c] = viewer[c]]
      BY <1>1, <1>3, <1>8, ThereAlready DEF InvokeEditor
    <2>2. CASE editor[c].of # NoConn
      BY <1>1, <1>3, <1>4, <1>5, <1>8, <2>1, <2>2, ThereAlready DEF InvokeEditor
    <2>3. CASE editor[c].of = NoConn
      <3> DEFINE e == [of |-> ans.of, reading |-> TRUE]
      <3>1. editor' = [editor EXCEPT ![c] = e]
        BY <1>1, <1>8, <2>3 DEF InvokeEditor
      <3>2. e \in Editor /\ e.of = ans.of
        BY <1>1 DEF Editor
      <3> HIDE DEF e
      <3> QED BY <1>4, <1>5, <2>1, <3>1, <3>2
    <2> QED BY <2>2, <2>3
  <1> QED BY <1>6, <1>7, <1>8 DEF DeliverAnswer

\* LXC_Viewer::timerEvent takes two references at once.
LEMMA LxcStep == ASSUME Whole, NEW c \in Conn, LxcTimer(c) PROVE Whole'
  <1> USE DEF Whole, WInv
  <1>1. /\ viewer[c].back = "pty"
        /\ UNCHANGED <<link, notice, viewed, astray, untold, stolen, ctl, active, answers, editor,
                       pool, monitor, late, rash>>
    BY DEF LxcTimer, nameVars, dockVars, history
  <1>2. PICK v \in Viewer :
          /\ viewer' = [viewer EXCEPT ![c] = v]
          /\ v.kind = viewer[c].kind /\ v.of = viewer[c].of
          /\ \/ v.refs = 2 /\ link[c] # "down" /\ held' = [held EXCEPT ![c] = @ + 2]
             \/ v.refs = viewer[c].refs /\ held' = held
    <2> DEFINE a1 == [viewer[c] EXCEPT !.back = "opening"]
               a2 == [a1 EXCEPT !.seen = TRUE]
               a3 == [a2 EXCEPT !.refs = 2]
               b1 == [viewer[c] EXCEPT !.back = "none"]
               b2 == [b1 EXCEPT !.kill = TRUE]
               Same(v) == v \in Viewer /\ v.kind = viewer[c].kind /\ v.of = viewer[c].of
    <2>1. Same(viewer[c])
      BY DEF Shape
    <2>2. /\ \A v : Same(v) => Same([v EXCEPT !.seen = TRUE]) /\ Same([v EXCEPT !.kill = TRUE])
          /\ \A v : Same(v) => Same([v EXCEPT !.back = "opening"])
          /\ \A v : Same(v) => Same([v EXCEPT !.back = "none"])
          /\ \A v : Same(v) => Same([v EXCEPT !.refs = 2]) /\ [v EXCEPT !.refs = 2].refs = 2
      BY DEF Viewer
    <2>3. b1.refs = viewer[c].refs /\ b2.refs = viewer[c].refs
      BY <2>1 DEF Viewer
    <2> HIDE DEF Same
    <2>4. Same(a3) /\ a3.refs = 2 /\ Same(b1) /\ Same(b2)
      BY <2>1, <2>2
    <2>5. \/ /\ link[c] # "down"
             /\ viewer' = [viewer EXCEPT ![c] = a3]
             /\ held' = [held EXCEPT ![c] = @ + 2]
          \/ viewer' = [viewer EXCEPT ![c] = b2] /\ held' = held
          \/ viewer' = [viewer EXCEPT ![c] = b1] /\ held' = held
      BY <1>1 DEF LxcTimer, Shape
    <2> HIDE DEF a3, b1, b2
    <2> QED BY <2>3, <2>4, <2>5 DEF Same
  <1>3. viewer[c].kind # "none" /\ viewer[c].refs \in Nat /\ held[c] \in Nat
    BY <1>1 DEF NoneIsEmpty, Shape, Viewer
  <1>4. Shape'
    <2>1. held' \in [Conn -> Nat]
      BY <1>2 DEF Shape
    <2> QED BY <1>1, <1>2, <2>1 DEF Shape
  <1>5. NoneIsEmpty' /\ OwnerKeepsHandle'
    BY <1>1, <1>2, <1>3 DEF NoneIsEmpty, OwnerKeepsHandle, Shape
  <1>6. RefsAreHeld'
    <2> SUFFICES ASSUME NEW d \in Conn
                 PROVE  /\ link'[d] = "down" => viewer'[d].refs = 0 /\ monitor'[d].refs = 0
                        /\ ~rash'[d] => held'[d] >= viewer'[d].refs + monitor'[d].refs
      BY DEF RefsAreHeld
    <2>1. CASE d # c
      BY <1>1, <1>2, <2>1 DEF RefsAreHeld, Shape
    <2>2. CASE d = c
      <3>1. \/ viewer'[c].refs = viewer[c].refs /\ held'[c] = held[c]
            \/ viewer'[c].refs = 2 /\ held'[c] = held[c] + 2 /\ link[c] # "down"
        <4>1. viewer'[c] = v /\ viewer'[c].refs = v.refs
          BY <1>2 DEF Shape
        <4>2. \/ v.refs = 2 /\ link[c] # "down" /\ held'[c] = held[c] + 2
              \/ v.refs = viewer[c].refs /\ held'[c] = held[c]
          BY <1>2 DEF Shape
        <4>3. v.refs \in Nat /\ viewer[c].refs \in Nat
          BY DEF Viewer, Shape
        <4> QED BY <4>1, <4>2, <4>3
      <3>2. monitor[c].refs \in Nat
        BY DEF Shape, Monitor
      <3> QED BY <1>1, <1>3, <2>2, <3>1, <3>2 DEF RefsAreHeld
    <2> QED BY <2>1, <2>2
  <1>7. ControlsAreNamed' /\ NoticeIsOfLost' /\ ViewIsCurrent'
    BY <1>1 DEF ControlsAreNamed, NoticeIsOfLost, ViewIsCurrent, Expected
  <1>8. NothingIsLeft' /\ WindowIsOfItsConnection'
    BY <1>1, <1>2 DEF NothingIsLeft, Expected, Bare, WindowIsOfItsConnection, Shape
  <1> QED BY <1>4, <1>5, <1>6, <1>7, <1>8

\* The thread of an editor or of a monitor is started, or has run: it may have
\* taken a reference.
LEMMA ThreadStep ==
    ASSUME Whole, \/ AddToStateMonitor
                  \/ \E c \in Conn : EditorRead(c) \/ MonitorTick(c) \/ MonitorPolled(c)
    PROVE  Whole'
  <1> USE DEF Whole, WInv
  <1>1. UNCHANGED <<link, notice, viewed, astray, untold, stolen, ctl, active, answers, viewer,
                    pool, late, rash>>
    BY DEF AddToStateMonitor, EditorRead, MonitorTick, MonitorPolled, connVars, nameVars,
           dockVars, windowVars, history
  <1>2. /\ editor' \in [Conn -> Editor]
        /\ \A c \in Conn : editor'[c].of = editor[c].of
    <2>1. ASSUME NEW c \in Conn, EditorRead(c) PROVE <1>2
      <3>1. /\ [editor[c] EXCEPT !.reading = FALSE] \in Editor
            /\ [editor[c] EXCEPT !.reading = FALSE].of = editor[c].of
        <4>1. editor[c] \in Editor
          BY DEF Shape
        <4> QED BY <4>1 DEF Editor
      <3>2. editor' = [editor EXCEPT ![c] = [editor[c] EXCEPT !.reading = FALSE]]
        BY <2>1 DEF EditorRead
      <3> QED BY <3>1, <3>2 DEF Shape
    <2>2. CASE UNCHANGED editor
      BY <2>2 DEF Shape
    <2> QED BY <2>1, <2>2 DEF AddToStateMonitor, MonitorTick, MonitorPolled, windowVars
  <1>3. /\ monitor' \in [Conn -> Monitor] /\ held' \in [Conn -> Nat]
        /\ \A c \in Conn :
             \/ monitor'[c].refs = monitor[c].refs /\ held'[c] = held[c]
             \/ /\ link[c] # "down" /\ held'[c] = held[c] + 1
                /\ monitor'[c].refs <= monitor[c].refs + 1
             \/ monitor'[c].refs = 0 /\ held'[c] = held[c]
    <2>0. \A c \in Conn : monitor[c].refs \in Nat /\ held[c] \in Nat
      BY DEF Shape, Monitor
    <2>1. CASE AddToStateMonitor
      <3>1. ctl.name \in Conn /\ UNCHANGED held
        BY <2>1 DEF AddToStateMonitor, connVars, ControlsAreNamed
      <3>2. /\ [NoMonitor EXCEPT !.on = TRUE] \in Monitor
            /\ [NoMonitor EXCEPT !.on = TRUE].refs = 0
        BY DEF NoMonitor, Monitor
      <3> QED BY <2>1, <3>1, <3>2 DEF AddToStateMonitor, Shape
    <2>2. ASSUME NEW c \in Conn, EditorRead(c) PROVE <1>3
      BY <2>0, <2>2 DEF EditorRead, Shape
    <2>3. ASSUME NEW c \in Conn, MonitorTick(c) PROVE <1>3
      <3>1. /\ [monitor[c] EXCEPT !.polling = TRUE] \in Monitor
            /\ [monitor[c] EXCEPT !.polling = TRUE].refs = monitor[c].refs
        BY DEF Shape, Monitor
      <3>2. /\ monitor' = [monitor EXCEPT ![c] = [monitor[c] EXCEPT !.polling = TRUE]]
            /\ UNCHANGED held
        BY <2>3 DEF MonitorTick, connVars
      <3> QED BY <3>1, <3>2 DEF Shape
    <2>4. ASSUME NEW c \in Conn, MonitorPolled(c) PROVE <1>3
      <3> DEFINE m == monitor[c]
                 takes == m.first /\ link[c] # "down"
      <3>1. PICK found \in BOOLEAN :
              monitor' = [monitor EXCEPT ![c].polling = FALSE,
                                         ![c].first = @ /\ ~found,
                                         ![c].refs = IF takes THEN @ + 1 ELSE @]
        BY <2>4 DEF MonitorPolled
      <3> DEFINE m1 == [m EXCEPT !.polling = FALSE]
                 m2 == [m1 EXCEPT !.first = m1.first /\ ~found]
                 n  == IF takes THEN m.refs + 1 ELSE m.refs
                 m3 == [m2 EXCEPT !.refs = n]
      <3>2. m1 \in Monitor /\ m1.refs = m.refs
        BY DEF Shape, Monitor
      <3>3. m2 \in Monitor /\ m2.refs = m.refs
        <4> HIDE DEF m1
        <4> QED BY <3>2 DEF Monitor
      <3>4. m.refs \in Nat /\ n \in Nat
        BY DEF Shape, Monitor
      <3>5. m3 \in Monitor /\ m3.refs = n
        <4> HIDE DEF m2, n
        <4> QED BY <3>3, <3>4 DEF Monitor
      <3>6. monitor' = [monitor EXCEPT ![c] = m3]
        <4>1. /\ monitor' = [[[monitor EXCEPT ![c] = m1] EXCEPT ![c] = m2] EXCEPT ![c] =
                               [m2 EXCEPT !.refs = IF takes THEN m2.refs + 1 ELSE m2.refs]]
          BY <3>1 DEF Shape
        <4> HIDE DEF m2, takes
        <4> QED BY <3>3, <4>1 DEF n, m3, Shape
      <3>7. held' = IF takes THEN [held EXCEPT ![c] = @ + 1] ELSE held
        BY <2>4 DEF MonitorPolled
      <3>8. \A d \in Conn \ {c} : monitor'[d] = monitor[d] /\ held'[d] = held[d]
        BY <3>6, <3>7 DEF Shape
      <3>9. monitor'[c] = m3 /\ held'[c] = (IF takes THEN held[c] + 1 ELSE held[c])
        BY <3>6, <3>7 DEF Shape
      <3>10. monitor' \in [Conn -> Monitor] /\ held' \in [Conn -> Nat]
        <4> HIDE DEF m3
        <4> QED BY <2>0, <3>5, <3>6, <3>7 DEF Shape
      <3>11. CASE takes
        <4>1. link[c] # "down" /\ monitor'[c].refs = monitor[c].refs + 1 /\ held'[c] = held[c] + 1
          BY <3>5, <3>9, <3>11
        <4> QED BY <2>0, <3>8, <3>10, <4>1
      <3>12. CASE ~takes
        <4>1. monitor'[c].refs = monitor[c].refs /\ held'[c] = held[c]
          BY <3>5, <3>9, <3>12
        <4> QED BY <3>8, <3>10, <4>1
      <3> QED BY <3>11, <3>12
    <2> QED BY <2>1, <2>2, <2>3, <2>4
  <1>4. Shape'
    BY <1>1, <1>2, <1>3 DEF Shape
  <1>5. RefsAreHeld'
    <2>1. \A c \in Conn : monitor[c].refs \in Nat /\ held[c] \in Nat /\ viewer[c].refs \in Nat
                          /\ monitor'[c].refs \in Nat
      BY <1>3 DEF Shape, Monitor, Viewer
    <2> QED BY <1>1, <1>3, <2>1 DEF RefsAreHeld
  <1>6. NoneIsEmpty' /\ OwnerKeepsHandle' /\ ControlsAreNamed' /\ NoticeIsOfLost' /\ ViewIsCurrent'
    BY <1>1 DEF NoneIsEmpty, OwnerKeepsHandle, ControlsAreNamed, NoticeIsOfLost, ViewIsCurrent,
                Expected
  <1>7. NothingIsLeft' /\ WindowIsOfItsConnection'
    BY <1>1, <1>2 DEF NothingIsLeft, Expected, Bare, WindowIsOfItsConnection
  <1> QED BY <1>4, <1>5, <1>6, <1>7

----------------------------------------------------------------------------
(* Every step.                                                             *)

LEMMA WholeStep == ASSUME Whole, [Next]_vars PROVE Whole'
  <1>1. ASSUME NEW c \in Conn, Step(c) PROVE Whole'
    <2>1. CASE OpenConnection(c)
      BY <2>1, OpenStep
    <2>2. CASE CloseConnection(c) \/ DeliverNotice(c)
      BY <2>2, StopStep
    <2>3. CASE LoseConnection(c)
      BY <2>3, LoseStep
    <2>4. CASE Overview(c) \/ OverviewOfOther(c) \/ RenameRow(c)
      BY <2>4, DocksStep
    <2>5. CASE TendedStep(c)
      BY <2>5, Tending, TendedKeeps DEF Whole, WInv
    <2>6. CASE LxcTimer(c)
      BY <2>6, LxcStep
    <2>7. CASE EditorRead(c) \/ MonitorTick(c) \/ MonitorPolled(c)
      BY <2>7, ThreadStep
    <2>8. CASE UserCloses(c) \/ KillTimer(c) \/ RemoveClosedViewer(c)
      <3>1. PICK V \in SUBSET Conn, E \in SUBSET Conn, P \in SUBSET Conn, M \in SUBSET Conn :
              CloseWindow(V, E, P, M)
        BY <2>8 DEF UserCloses, KillTimer, RemoveClosedViewer
      <3> QED BY <3>1, CloseWindowStep DEF CloseWindow
    <2> QED
      BY <1>1, <2>1, <2>2, <2>3, <2>4, <2>5, <2>6, <2>7, <2>8 DEF Step, Timer, TendedStep
  <1>2. CASE CloseEvent
    <2>1. /\ Viewers(Conn) \in SUBSET Conn /\ Editors(Conn) \in SUBSET Conn
          /\ Pools(Conn) \in SUBSET Conn /\ Monitors(Conn) \in SUBSET Conn
      BY DEF Viewers, Editors, Pools, Monitors
    <2>2. /\ Close(Viewers(Conn), Editors(Conn), Pools(Conn), Monitors(Conn), Slots, TRUE)
          /\ UNCHANGED <<link, notice, nameVars, dockVars>> /\ late' = (late \/ answers # {})
      BY <1>2 DEF CloseEvent
    <2> QED BY <2>1, <2>2, CloseWindowStep
  <1>3. CASE ChangeVisibility \/ UNCHANGED vars
    <2>1. UNCHANGED <<connVars, dockVars, viewer, editor, pool, monitor, late, rash>>
      BY <1>3 DEF ChangeVisibility, vars, windowVars, history
    <2> QED BY <2>1, TendedKeeps DEF Tended, Whole, WInv, Shape
  <1>4. CASE (\E opens \in {"viewer", "editor"} : Ask(opens))
             \/ (\E ans \in answers : DeliverAnswer(ans)) \/ OverviewStoragePool
             \/ CloseOverview
    BY <1>4, DocksStep, AnswerOpens, PoolOpens
  <1>5. CASE AddToStateMonitor
    BY <1>5, ThreadStep
  <1> QED BY <1>1, <1>2, <1>3, <1>4, <1>5 DEF Next

LEMMA WholeInitially == Init => Whole
  <1> SUFFICES ASSUME Init PROVE Whole
    OBVIOUS
  <1>1. OwnerKeepsHandle /\ NothingIsLeft /\ WindowIsOfItsConnection
    BY DEF Init, OwnerKeepsHandle, NothingIsLeft, Bare, WindowIsOfItsConnection, NoViewer, NoEditor
  <1> QED BY <1>1, ShapeInitially DEF Whole

LEMMA WholeAlways == Spec => []Whole
  BY WholeInitially, WholeStep, PTL DEF Spec

\* A closed connection has no viewer, no editor and no overview once the main
\* window knows, whatever other connections, names and windows there are: what
\* closeConnGenerations promises (mainwindow.cpp).  Left out are those of whose
\* close it is not told, or under a name it does not know.
THEOREM NothingOutlives == Spec => []NothingOutlivesConnection
  <1>1. Whole => NothingOutlivesConnection
    BY DEF Whole, NothingIsLeft, NothingOutlivesConnection, Expected, Bare, Viewers, Editors,
           Pools
  <1> QED BY <1>1, WholeAlways, PTL

\* A window shows an entity of the connection it is named after.
THEOREM WindowsAreNamed == Spec => []WindowIsOfItsConnection
  <1>1. Whole => WindowIsOfItsConnection
    BY DEF Whole
  <1> QED BY <1>1, WholeAlways, PTL

\* A window or a monitor that drops references of its own alone never takes the
\* owner's (virConnectRef and virConnectClose of viewers, consoles, monitors).
THEOREM HandlesAreKept == Spec => []OwnerKeepsHandle
  <1>1. Whole => OwnerKeepsHandle
    BY DEF Whole
  <1> QED BY <1>1, WholeAlways, PTL

\* The process is aborted by a close only with a helper in a call, a monitor
\* without a reference of the session, or a picture whose tunnel is gone.
THEOREM AbortIsHasty == Spec => AbortNeedsHaste
  <1> DEFINE Hasty == \E c \in Conn : \/ viewer[c].back \in {"asking", "opening"}
                                      \/ viewer[c].wdg = "freed"
                                      \/ editor[c].reading
                                      \/ monitor[c].polling
                                      \/ monitor[c].on /\ monitor[c].refs = 0
  <1>1. ASSUME Whole, Next, ended' = "aborted" PROVE Hasty
    <2>1. ended = "no"
      BY <1>1 DEF Next
    <2>2. ASSUME NEW V \in SUBSET Conn, NEW E \in SUBSET Conn, NEW P \in SUBSET Conn,
                 NEW M \in SUBSET Monitors(Conn), NEW slots, NEW shown,
                 Close(V, E, P, M, slots, shown)
          PROVE  Hasty
      <3>1. MayAbort(V, E, M)
        BY <1>1, <2>1, <2>2 DEF Close
      <3> QED BY <3>1 DEF MayAbort, ViewerBusy, Monitors
    <2>3. ASSUME UNCHANGED ended PROVE FALSE
      BY <1>1, <2>1, <2>3
    <2>4. ASSUME NEW c \in Conn, Step(c) PROVE Hasty
      <3>1. CASE CloseConnection(c) \/ DeliverNotice(c)
        <4>1. PICK slots : \/ CloseConnGenerations(c, slots)
                           \/ Close({}, {}, {}, {}, slots, main)
          BY <3>1 DEF CloseConnection, CloseFails, DeliverNotice, StopConnProcessing
        <4>2. /\ Viewers(Prefixed(c)) \in SUBSET Conn /\ Editors(Prefixed(c)) \in SUBSET Conn
              /\ Pools(Prefixed(c)) \in SUBSET Conn
              /\ {} \in SUBSET Monitors(Conn) /\ {} \in SUBSET Conn
          BY DEF Viewers, Editors, Pools, Prefixed
        <4> QED BY <2>2, <4>1, <4>2 DEF CloseConnGenerations
      <3>2. CASE UserCloses(c) \/ KillTimer(c) \/ RemoveClosedViewer(c)
        <4>1. PICK V \in SUBSET Conn, E \in SUBSET Conn, P \in SUBSET Conn,
                   M \in SUBSET Monitors(Conn) : CloseWindow(V, E, P, M)
          BY <3>2 DEF UserCloses, KillTimer, RemoveClosedViewer, Monitors
        <4> QED BY <2>2, <4>1 DEF CloseWindow
      <3>3. CASE UseViewer(c)
        BY <2>3, <3>3 DEF UseViewer
      <3>4. CASE MonitorPolled(c)
        BY <3>4 DEF MonitorPolled
      <3>5. CASE \/ OpenConnection(c) \/ LoseConnection(c) \/ Overview(c) \/ Established(c)
                 \/ OverviewOfOther(c) \/ RenameRow(c) \/ TunnelEnds(c) \/ DisplayUp(c) \/ LxcInit(c) \/ ConsoleOpens(c)
                 \/ ReinitTick(c) \/ LxcTimer(c) \/ EditorRead(c) \/ MonitorTick(c)
        <4>1. UNCHANGED ended
          BY <3>5 DEF OpenConnection, LoseConnection, Overview, OverviewOfOther, RenameRow,
             Established, TunnelEnds, DisplayUp, LxcInit, ConsoleOpens, ReinitTick, LxcTimer, EditorRead, MonitorTick,
             Change, windowVars
        <4> QED BY <2>3, <4>1
      <3> QED BY <2>4, <3>1, <3>2, <3>3, <3>4, <3>5 DEF Step, Timer
    <2>5. CASE CloseEvent
      <3>1. /\ Viewers(Conn) \in SUBSET Conn /\ Editors(Conn) \in SUBSET Conn
            /\ Pools(Conn) \in SUBSET Conn
        BY DEF Viewers, Editors, Pools
      <3> QED BY <2>2, <2>5, <3>1 DEF CloseEvent
    <2>6. ASSUME \/ \E opens \in {"viewer", "editor"} : Ask(opens)
                 \/ \E ans \in answers : DeliverAnswer(ans)
                 \/ OverviewStoragePool \/ AddToStateMonitor \/ CloseOverview
                 \/ ChangeVisibility
          PROVE  FALSE
      <3>1. UNCHANGED ended
        BY <2>6 DEF Ask, DeliverAnswer, OverviewStoragePool, AddToStateMonitor, CloseOverview,
           ChangeVisibility, windowVars
      <3> QED BY <2>3, <3>1
    <2> QED BY <1>1, <2>4, <2>5, <2>6 DEF Next
  <1> DEFINE Haste == ended' = "aborted" => Hasty
  <1>2. Whole /\ [Next]_vars => [Haste]_vars
    BY <1>1
  <1>3. AbortNeedsHaste <=> [][Haste]_vars
    BY DEF AbortNeedsHaste
  <1> QED BY <1>2, <1>3, WholeAlways, PTL DEF Spec
=============================================================================
