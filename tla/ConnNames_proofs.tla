--------------------------- MODULE ConnNames_proofs ---------------------------
(***************************************************************************)
(* Proofs about ConnNames: as long as no name is changed or taken while it *)
(* is in use, the four names of a connection agree wherever something      *)
(* depends on it.  Fine is the inductive invariant; nothing of it is said  *)
(* of the states after that.                                               *)
(***************************************************************************)
EXTENDS ConnNames, TLAPS

\* How a row or an element may read.
State == {"CLOSED", "CONNECT", "RUNNING", "FAILED"}

RowType == [name : Name \cup {None, Unnamed}, state : State, busy : BOOLEAN,
            init : Name \cup {None}]
ElemType == [name : Name \cup {None}, says : State, row : Elem \cup {None},
             thread : {"idle", "opening", "open", "leaving"}, news : Seq(State)]
DialogType == [row : Elem, previous : Name \cup {Unnamed}, name : Name \cup {Unnamed, Empty},
               fresh : BOOLEAN, newbe : BOOLEAN]

TypeOK ==
    /\ connections \in [Name -> Elem \cup {None}]
    /\ rows \in [Elem -> RowType]
    /\ els \in [Elem -> ElemType]
    /\ groups \subseteq Name
    /\ dialog \in DialogType \cup {None}
    /\ search \in {"off", "waiting", "removing", "searching"}
    /\ toDelete \subseteq Name
    /\ found \subseteq Local
    /\ forgotten \subseteq Name
    /\ rash \in BOOLEAN

Live(e) == els[e].thread \in {"opening", "open"}
Busy(e) == els[e].thread # "idle" \/ els[e].news # <<>>
Listed(r) == rows[r] # NoRow

\* The key of an element is its name, and an element that has one stands for
\* the row of its own identity.
KeyIsName == \A n \in Name : connections[n] # None => els[connections[n]].name = n
RowIsOwn == \A e \in Elem : els[e] = NoElem \/ (els[e].name \in Name /\ els[e].row = e)

\* The initName of a row finds the row's element.
InitFinds ==
    \A r \in Elem : rows[r].init # None => connections[rows[r].init] = r

\* Names of rows: each listed row has one, no two the same; a row renamed and not
\* clicked since finds nothing under its new name; local names are not taken.
RowIsNamed == \A r \in Elem : Listed(r) <=> rows[r].name # None
UnlistedHasNoInit == \A r \in Elem : rows[r].name \in {None, Unnamed} => rows[r].init = None
NamesDiffer ==
    \A r, q \in Elem : r # q /\ Listed(r) => rows[r].name # rows[q].name
NewNameIsFree ==
    \A r \in Elem : rows[r].name \in Name /\ Renamed(r) => connections[rows[r].name] = None
LocalIsGiven == \A r \in Elem : rows[r].name \in Local => rows[r].init = rows[r].name

\* A name that the user gave has a group, or lost it to the dialog of another row.
Known == groups \cup forgotten
NamesAreSaved == \A r \in Elem : rows[r].name \in Names => rows[r].name \in Known

\* A row whose element has a thread, or news, is called as the element; a live
\* connection has a row; what it says last is that it runs.
BusyAgrees ==
    \A e \in Elem :
        /\ Busy(e) /\ Listed(e) => rows[e].name = els[e].name /\ rows[e].init = els[e].name
        /\ Live(e) => Listed(e)
        /\ els[e].thread = "open" =>
             IF els[e].news = <<>> THEN rows[e].state = "RUNNING"
                                   ELSE els[e].news[Len(els[e].news)] = "RUNNING"

\* The dialog is that of a listed row, whose name it has read.
DialogIsCurrent ==
    dialog # None =>
        /\ search = "off"
        /\ Listed(dialog.row) /\ rows[dialog.row].name = dialog.previous
        /\ dialog.newbe => dialog.previous \notin groups
        /\ dialog.fresh =>
             /\ dialog.previous = Unnamed
             /\ els[dialog.row] = NoElem
             /\ dialog.row \notin Range(connections)

\* What is to be removed is listed under its key; a local name that the search
\* has not given is free.
SearchIsCurrent ==
    /\ search = "removing" =>
         \A n \in toDelete : connections[n] # None /\ rows[connections[n]].name = n
    /\ search = "searching" => \A n \in Local \ found : connections[n] = None

Named == /\ KeyIsName /\ RowIsOwn /\ InitFinds
         /\ RowIsNamed /\ UnlistedHasNoInit /\ NamesDiffer /\ NewNameIsFree /\ LocalIsGiven
         /\ NamesAreSaved
Fine == TypeOK /\ Named /\ BusyAgrees /\ DialogIsCurrent /\ SearchIsCurrent

NamesInv == ~rash => Fine

----------------------------------------------------------------------------
(* Records.                                                                *)

LEMMA RowFields ==
    ASSUME TypeOK, NEW r \in Elem
    PROVE  /\ rows[r].name \in Name \cup {None, Unnamed}
           /\ rows[r].init \in Name \cup {None}
           /\ rows[r].state \in State
  BY DEF TypeOK, RowType

LEMMA ElemFields ==
    ASSUME TypeOK, NEW e \in Elem
    PROVE  /\ els[e].name \in Name \cup {None}
           /\ els[e].says \in State
           /\ els[e].row \in Elem \cup {None}
           /\ els[e].thread \in {"idle", "opening", "open", "leaving"}
           /\ els[e].news \in Seq(State)
  BY DEF TypeOK, ElemType

LEMMA Nothing ==
    /\ NoRow \in RowType /\ NoElem \in ElemType
    /\ NoRow.name = None /\ NoRow.init = None
    /\ NoElem.name = None /\ NoElem.row = None /\ NoElem.thread = "idle" /\ NoElem.news = <<>>
  BY NamesAssumption DEF NoRow, NoElem, RowType, ElemType, State

\* What setItemReference makes of an element.
LEMMA ReferredIs ==
    ASSUME NEW el \in ElemType, NEW r \in Elem, NEW n \in Name, NEW atStart \in BOOLEAN
    PROVE  LET ref == Referred(el, r, n, atStart) IN
           /\ ref \in ElemType
           /\ ref.name = n /\ ref.row = r
           /\ ref.thread = IF atStart THEN Opens(el) ELSE el.thread
           /\ ref.news = IF atStart THEN Opening(el) ELSE el.news
  <1> DEFINE a == [el EXCEPT !.name = n]
             b == [a EXCEPT !.row = r]
             c == [b EXCEPT !.says = "CLOSED"]
             d == [c EXCEPT !.thread = IF atStart THEN Opens(el) ELSE el.thread]
             f == [d EXCEPT !.news = IF atStart THEN Opening(el) ELSE el.news]
  <1>1. Opens(el) \in {"idle", "opening", "open", "leaving"} /\ Opening(el) \in Seq(State)
    <2>1. <<"CONNECT">> \in Seq(State) /\ el.news \in Seq(State)
      BY DEF State, ElemType
    <2> QED BY <2>1 DEF Opens, Opening, ElemType
  <1>2. a \in ElemType /\ a.name = n /\ a.thread = el.thread /\ a.news = el.news
    BY DEF ElemType
  <1>3. b \in ElemType /\ b.name = n /\ b.row = r /\ b.thread = el.thread /\ b.news = el.news
    <2> HIDE DEF a
    <2> QED BY <1>2 DEF ElemType
  <1>4. c \in ElemType /\ c.name = n /\ c.row = r /\ c.thread = el.thread /\ c.news = el.news
    <2> HIDE DEF b
    <2> QED BY <1>3 DEF ElemType, State
  <1>5. /\ d \in ElemType /\ d.name = n /\ d.row = r /\ d.news = el.news
        /\ d.thread = IF atStart THEN Opens(el) ELSE el.thread
    <2> DEFINE th == IF atStart THEN Opens(el) ELSE el.thread
    <2>1. th \in {"idle", "opening", "open", "leaving"}
      BY <1>1 DEF ElemType
    <2> HIDE DEF c, th
    <2>2. [c EXCEPT !.thread = th] \in ElemType
      BY <1>4, <2>1 DEF ElemType
    <2>3. /\ [c EXCEPT !.thread = th].thread = th
          /\ [c EXCEPT !.thread = th].name = c.name
          /\ [c EXCEPT !.thread = th].row = c.row
          /\ [c EXCEPT !.thread = th].news = c.news
      BY <1>4, <2>1 DEF ElemType
    <2> QED BY <1>4, <2>2, <2>3 DEF th
  <1>6. /\ f \in ElemType /\ f.name = n /\ f.row = r
        /\ f.thread = IF atStart THEN Opens(el) ELSE el.thread
        /\ f.news = IF atStart THEN Opening(el) ELSE el.news
    <2> DEFINE nw == IF atStart THEN Opening(el) ELSE el.news
    <2>1. nw \in Seq(State)
      BY <1>1 DEF ElemType
    <2> HIDE DEF d, nw
    <2>2. [d EXCEPT !.news = nw] \in ElemType
      BY <1>5, <2>1 DEF ElemType
    <2>3. /\ [d EXCEPT !.news = nw].thread = d.thread
          /\ [d EXCEPT !.news = nw].name = d.name
          /\ [d EXCEPT !.news = nw].row = d.row
          /\ [d EXCEPT !.news = nw].news = nw
      BY <1>5, <2>1 DEF ElemType
    <2> QED BY <1>5, <2>2, <2>3 DEF nw
  <1>7. Referred(el, r, n, atStart) = f
    BY <1>2, <1>3, <1>4, <1>5 DEF Referred
  <1> QED BY <1>6, <1>7

\* What setItemReference makes of a row.
LEMMA ReferredRowIs ==
    ASSUME NEW n \in Name, NEW atStart \in BOOLEAN
    PROVE  LET row == ReferredRow(n, atStart) IN
           row \in RowType /\ row.name = n /\ row.init = n /\ row # NoRow
  BY NamesAssumption DEF ReferredRow, RowType, State, NoRow

\* An element that rests, and that nobody finds, is forgotten.
LEMMA KeptIs ==
    ASSUME NEW E \in [Elem -> ElemType], NEW C
    PROVE  /\ Kept(E, C) \in [Elem -> ElemType]
           /\ \A e \in Elem :
                \/ Kept(E, C)[e] = E[e]
                \/ /\ Kept(E, C)[e] = NoElem
                   /\ E[e].thread = "idle" /\ E[e].news = <<>> /\ e \notin Range(C)
  BY Nothing DEF Kept

----------------------------------------------------------------------------
(* Steps that give nobody a name.                                          *)

LEMMA SameNames ==
    ASSUME Fine, UNCHANGED connections, Known \subseteq Known',
           rows' \in [Elem -> RowType],
           \A r \in Elem : /\ rows'[r].name = rows[r].name
                           /\ rows'[r].init = rows[r].init
                           /\ rows'[r] = NoRow <=> rows[r] = NoRow,
           \A e \in Elem : \/ els'[e] = els[e]
                           \/ /\ els[e] # NoElem
                              /\ els'[e].name = els[e].name /\ els'[e].row = els[e].row
                           \/ els'[e] = NoElem /\ e \notin Range(connections)
    PROVE  Named'
  <1> USE DEF Fine, Named
  <1>1. KeyIsName'
    <2> SUFFICES ASSUME NEW n \in Name, connections[n] # None
                 PROVE  els'[connections[n]].name = n
      BY DEF KeyIsName
    <2>1. connections[n] \in Elem /\ connections[n] \in Range(connections)
      BY DEF TypeOK, Range
    <2>2. els[connections[n]].name = n
      BY DEF KeyIsName
    <2> QED BY <2>1, <2>2
  <1>2. RowIsOwn'
    BY DEF RowIsOwn
  <1>3. InitFinds' /\ UnlistedHasNoInit' /\ LocalIsGiven'
    BY DEF InitFinds, UnlistedHasNoInit, LocalIsGiven
  <1>4. RowIsNamed' /\ NamesDiffer'
    BY DEF RowIsNamed, NamesDiffer, Listed
  <1>5. NewNameIsFree'
    BY DEF NewNameIsFree, Renamed
  <1>6. NamesAreSaved'
    BY DEF NamesAreSaved
  <1> HIDE DEF Known
  <1> QED BY <1>1, <1>2, <1>3, <1>4, <1>5, <1>6

\* The last event stays the last.
LEMMA LastOfTail ==
    ASSUME NEW q \in Seq(State), q # <<>>
    PROVE  /\ Tail(q) = <<>> => Head(q) = q[Len(q)]
           /\ Tail(q) # <<>> => Tail(q)[Len(Tail(q))] = q[Len(q)]
  <1>1. /\ Len(q) \in Nat \ {0} /\ Head(q) = q[1]
        /\ Tail(q) \in Seq(State) /\ Len(Tail(q)) = Len(q) - 1
        /\ \A i \in 1 .. Len(q) - 1 : Tail(q)[i] = q[i + 1]
    OBVIOUS
  <1>2. CASE Tail(q) = <<>>
    BY <1>1, <1>2
  <1>3. CASE Tail(q) # <<>>
    <2>1. Len(Tail(q)) # 0
      BY <1>1, <1>3
    <2>2. Len(Tail(q)) \in 1 .. Len(q) - 1
      BY <1>1, <2>1
    <2> QED BY <1>1, <1>3, <2>2
  <1> QED BY <1>2, <1>3

\* What a thread posts, and where it goes.
LEMMA PostIs ==
    ASSUME TypeOK, NEW e \in Elem, NEW s \in State,
           NEW to \in {"idle", "opening", "open", "leaving"}
    PROVE  LET w == [Post(e, s) EXCEPT !.thread = to] IN
           /\ w \in ElemType /\ w.name = els[e].name /\ w.row = els[e].row
           /\ w.thread = to /\ w.news = Append(els[e].news, s)
  <1>1. els[e] \in ElemType
    BY DEF TypeOK
  <1>2. /\ Post(e, s) \in ElemType /\ Post(e, s).name = els[e].name
        /\ Post(e, s).row = els[e].row /\ Post(e, s).news = Append(els[e].news, s)
    <2>1. Append(els[e].news, s) \in Seq(State)
      BY ElemFields
    <2> QED BY <1>1, <2>1 DEF Post, ElemType
  <1>3. ASSUME NEW v \in ElemType
        PROVE  LET w == [v EXCEPT !.thread = to] IN
               /\ w \in ElemType /\ w.name = v.name /\ w.row = v.row
               /\ w.thread = to /\ w.news = v.news
    BY DEF ElemType
  <1> HIDE DEF Post
  <1> QED BY <1>1, <1>2, <1>3

\* Where only elements act, and none is busy that was not: dialog and search see
\* what they saw.
LEMMA QuietKeeps ==
    ASSUME Fine, UNCHANGED <<connections, rows, groups, dialog, search, toDelete, found>>,
           \A e \in Elem : els[e] = NoElem => els'[e] = NoElem
    PROVE  DialogIsCurrent' /\ SearchIsCurrent'
  <1>1. DialogIsCurrent'
    <2>1. dialog # None => dialog.row \in Elem
      BY DEF Fine, TypeOK, DialogType
    <2> QED BY <2>1 DEF Fine, DialogIsCurrent, Listed
  <1>2. SearchIsCurrent'
    BY DEF Fine, SearchIsCurrent
  <1> QED BY <1>1, <1>2

LEMMA ThreadKeeps ==
    ASSUME Fine, NEW e \in Elem, Thread(e) \/ RemoteClose(e) PROVE Fine'
  <1>1. PICK w \in ElemType :
          /\ els' = [els EXCEPT ![e] = w]
          /\ els[e].thread # "idle"
          /\ w.name = els[e].name /\ w.row = els[e].row
          /\ \/ /\ els[e].thread = "opening" /\ w.thread = "open"
                /\ w.news = Append(els[e].news, "RUNNING")
             \/ w.thread \in {"leaving", "idle"}
    <2>1. /\ "RUNNING" \in State /\ "FAILED" \in State /\ "CLOSED" \in State
          /\ \A to \in {"open", "leaving", "idle"} : to \in {"idle", "opening", "open", "leaving"}
          /\ TypeOK
      BY DEF State, Fine
    <2>2. CASE OpenSucceeds(e)
      <3> DEFINE w == [Post(e, "RUNNING") EXCEPT !.thread = "open"]
      <3>1. els[e].thread = "opening" /\ els' = [els EXCEPT ![e] = w]
        BY <2>2 DEF OpenSucceeds, Go
      <3>2. /\ w \in ElemType /\ w.name = els[e].name /\ w.row = els[e].row
            /\ w.thread = "open" /\ w.news = Append(els[e].news, "RUNNING")
        BY <2>1, PostIs
      <3> HIDE DEF w
      <3> QED BY <3>1, <3>2
    <2>3. CASE OpenFails(e)
      <3> DEFINE w == [Post(e, "FAILED") EXCEPT !.thread = "leaving"]
      <3>1. els[e].thread = "opening" /\ els' = [els EXCEPT ![e] = w]
        BY <2>3 DEF OpenFails, Go
      <3>2. w \in ElemType /\ w.name = els[e].name /\ w.row = els[e].row /\ w.thread = "leaving"
        BY <2>1, PostIs
      <3> HIDE DEF w
      <3> QED BY <3>1, <3>2
    <2>4. CASE LeaveLoop(e)
      <3> DEFINE w == [Post(e, "CLOSED") EXCEPT !.thread = "idle"]
      <3>1. els[e].thread = "leaving" /\ els' = [els EXCEPT ![e] = w]
        BY <2>4 DEF LeaveLoop, Go
      <3>2. w \in ElemType /\ w.name = els[e].name /\ w.row = els[e].row /\ w.thread = "idle"
        BY <2>1, PostIs
      <3> HIDE DEF w
      <3> QED BY <3>1, <3>2
    <2>5. CASE RemoteClose(e)
      <3> DEFINE w == [els[e] EXCEPT !.thread = "leaving"]
      <3>1. els[e].thread = "open" /\ els' = [els EXCEPT ![e] = w]
        BY <2>5 DEF RemoteClose, Go
      <3>2. w \in ElemType /\ w.name = els[e].name /\ w.row = els[e].row /\ w.thread = "leaving"
        <4>1. els[e] \in ElemType
          BY <2>1 DEF TypeOK
        <4> QED BY <4>1 DEF ElemType
      <3> HIDE DEF w
      <3> QED BY <3>1, <3>2
    <2> QED BY <2>2, <2>3, <2>4, <2>5 DEF Thread
  <1>2. UNCHANGED <<connections, rows, groups, dialog, search, toDelete, found, forgotten, rash>>
    BY DEF Thread, RemoteClose, OpenSucceeds, OpenFails, LeaveLoop, Go
  <1>3. els[e] # NoElem
    BY <1>1, Nothing
  <1>4. els'[e] = w /\ \A d \in Elem \ {e} : els'[d] = els[d]
    BY <1>1 DEF Fine, TypeOK
  <1>5. TypeOK'
    BY <1>1, <1>2 DEF Fine, TypeOK
  <1>6. Named'
    BY <1>1, <1>2, <1>3, <1>4, SameNames DEF Fine, TypeOK, Known
  <1>7. DialogIsCurrent' /\ SearchIsCurrent'
    BY <1>2, <1>3, <1>4, QuietKeeps
  <1>8. BusyAgrees'
    <2> SUFFICES ASSUME NEW d \in Elem
                 PROVE  /\ Busy(d)' /\ Listed(d)' =>
                             rows'[d].name = els'[d].name /\ rows'[d].init = els'[d].name
                        /\ Live(d)' => Listed(d)'
                        /\ els'[d].thread = "open" =>
                             IF els'[d].news = <<>> THEN rows'[d].state = "RUNNING"
                             ELSE els'[d].news[Len(els'[d].news)] = "RUNNING"
      BY DEF BusyAgrees
    <2>1. CASE d # e
      BY <1>2, <1>4, <2>1 DEF Fine, BusyAgrees, Busy, Live, Listed
    <2>2. CASE d = e
      <3>1. Busy(e) /\ (Live(e)' => Live(e))
        BY <1>1, <1>4 DEF Busy, Live
      <3>2. w.thread = "open" => w.news # <<>> /\ w.news[Len(w.news)] = "RUNNING"
        BY <1>1, ElemFields DEF Fine
      <3> QED BY <1>1, <1>2, <1>4, <2>2, <3>1, <3>2 DEF Fine, BusyAgrees, Listed
    <2> QED BY <2>1, <2>2
  <1> QED BY <1>5, <1>6, <1>7, <1>8 DEF Fine

\* One event is delivered: the row of the element reads so, and is called so.
LEMMA DeliverKeeps == ASSUME Fine, NEW e \in Elem, Deliver(e) PROVE Fine'
  <1> DEFINE s == Head(els[e].news)
             w1 == [els[e] EXCEPT !.news = Tail(els[e].news)]
             w == [w1 EXCEPT !.says = s]
             row == [name |-> els[e].name, state |-> s, busy |-> FALSE, init |-> els[e].name]
  <1>1. /\ els[e].news # <<>> /\ els' = Kept([els EXCEPT ![e] = w], connections)
        /\ rows' = SetConnectionState(els[e], rows, s)
        /\ UNCHANGED <<connections, groups, dialog, search, toDelete, found, forgotten, rash>>
    BY DEF Deliver, Fine, TypeOK
  <1>2. s \in State /\ Tail(els[e].news) \in Seq(State)
    BY <1>1, ElemFields DEF Fine
  <1>3. /\ w \in ElemType /\ w.name = els[e].name /\ w.row = els[e].row
        /\ w.thread = els[e].thread /\ w.news = Tail(els[e].news)
    <2>0. els[e] \in ElemType
      BY DEF Fine, TypeOK
    <2>1. /\ w1 \in ElemType /\ w1.name = els[e].name /\ w1.row = els[e].row
          /\ w1.thread = els[e].thread /\ w1.news = Tail(els[e].news)
      BY <1>2, <2>0 DEF ElemType
    <2> HIDE DEF w1, s
    <2> QED BY <1>2, <2>1 DEF ElemType
  <1>4. els[e] # NoElem /\ els[e].name \in Name /\ els[e].row = e
    BY <1>1, Nothing DEF Fine, Named, RowIsOwn
  <1>5. row \in RowType /\ row # NoRow
    BY <1>2, <1>4, NamesAssumption DEF RowType, NoRow
  <1>6. /\ rows' \in [Elem -> RowType]
        /\ \A r \in Elem : /\ rows'[r].name = rows[r].name /\ rows'[r].init = rows[r].init
                           /\ rows'[r] = NoRow <=> rows[r] = NoRow
        /\ \A r \in Elem \ {e} : rows'[r] = rows[r]
        /\ Listed(e) => rows'[e].state = s
    <2>1. CASE Listed(e)
      <3>1. rows[e].name = els[e].name /\ rows[e].init = els[e].name
        BY <1>1, <2>1 DEF Fine, BusyAgrees, Busy
      <3>2. rows' = [rows EXCEPT ![e] = row]
        BY <1>1, <1>4, <2>1, NamesAssumption DEF SetConnectionState, Listed
      <3>3. row.name = els[e].name /\ row.init = els[e].name /\ row.state = s
        OBVIOUS
      <3> HIDE DEF row, s
      <3> QED BY <1>5, <2>1, <3>1, <3>2, <3>3 DEF Fine, TypeOK, Listed
    <2>2. CASE ~Listed(e)
      <3>1. rows' = rows
        BY <1>1, <1>4, <2>2 DEF SetConnectionState, Listed
      <3> QED BY <2>2, <3>1 DEF Fine, TypeOK
    <2> QED BY <2>1, <2>2
  <1> HIDE DEF w, s, row
  <1> DEFINE E == [els EXCEPT ![e] = w]
  <1>7. E \in [Elem -> ElemType] /\ E[e] = w /\ \A d \in Elem \ {e} : E[d] = els[d]
    BY <1>3 DEF Fine, TypeOK
  <1>8. /\ els' \in [Elem -> ElemType]
        /\ \A d \in Elem : \/ els'[d] = E[d]
                           \/ els'[d] = NoElem /\ d \notin Range(connections)
    <2> HIDE DEF E
    <2> QED BY <1>1, <1>7, KeptIs DEF E
  <1> HIDE DEF E
  <1>9. TypeOK'
    BY <1>1, <1>6, <1>8 DEF Fine, TypeOK
  <1>10. Named'
    BY <1>1, <1>3, <1>4, <1>6, <1>7, <1>8, SameNames DEF Known
  <1>11. BusyAgrees'
    <2> SUFFICES ASSUME NEW d \in Elem
                 PROVE  /\ Busy(d)' /\ Listed(d)' =>
                             rows'[d].name = els'[d].name /\ rows'[d].init = els'[d].name
                        /\ Live(d)' => Listed(d)'
                        /\ els'[d].thread = "open" =>
                             IF els'[d].news = <<>> THEN rows'[d].state = "RUNNING"
                             ELSE els'[d].news[Len(els'[d].news)] = "RUNNING"
      BY DEF BusyAgrees
    <2>1. CASE els'[d] = NoElem
      BY <2>1, Nothing DEF Busy, Live
    <2>2. CASE els'[d] = els[d] /\ d # e
      BY <1>6, <2>2 DEF Fine, BusyAgrees, Busy, Live, Listed
    <2>3. CASE d = e /\ els'[e] = w
      <3>1. Busy(e)
        BY <1>1 DEF Busy
      <3>2. Listed(e)' <=> Listed(e)
        BY <1>6 DEF Listed
      <3>3. Live(e)' <=> Live(e)
        BY <1>3, <2>3 DEF Live
      <3>4. ASSUME w.thread = "open"
            PROVE  IF w.news = <<>> THEN s = "RUNNING" ELSE w.news[Len(w.news)] = "RUNNING"
        <4>1. els[e].news[Len(els[e].news)] = "RUNNING" /\ els[e].news \in Seq(State)
          BY <1>1, <1>3, <3>4, ElemFields DEF Fine, BusyAgrees
        <4>2. w.news = Tail(els[e].news) /\ s = Head(els[e].news)
          BY <1>3 DEF s
        <4> QED BY <1>1, <4>1, <4>2, LastOfTail
      <3> QED BY <1>3, <1>6, <2>3, <3>1, <3>2, <3>3, <3>4 DEF Fine, BusyAgrees, Listed, Live
    <2> QED BY <1>7, <1>8, <2>1, <2>2, <2>3
  <1>12. SearchIsCurrent'
    BY <1>1, <1>6 DEF Fine, SearchIsCurrent, TypeOK
  <1>13. DialogIsCurrent'
    <2>1. dialog # None => dialog.row \in Elem
      BY DEF Fine, TypeOK, DialogType
    <2> DEFINE r == dialog.row
    <2>2. ASSUME dialog # None
          PROVE  /\ Listed(r)' /\ rows'[r].name = rows[r].name
                 /\ els[r] = NoElem => els'[r] = NoElem
      <3>1. r \in Elem /\ Listed(r)
        BY <2>1, <2>2 DEF Fine, DialogIsCurrent
      <3>2. els[r] = NoElem => els'[r] = NoElem
        BY <1>4, <1>7, <1>8, <3>1
      <3>3. UNCHANGED dialog /\ rows'[r].name = rows[r].name /\ (rows'[r] = NoRow <=> rows[r] = NoRow)
        BY <1>1, <1>6, <3>1
      <3> QED BY <3>1, <3>2, <3>3 DEF Listed
    <2> HIDE DEF r
    <2> QED BY <1>1, <2>2 DEF Fine, DialogIsCurrent, r, Listed
  <1> QED BY <1>9, <1>10, <1>11, <1>12, <1>13 DEF Fine

----------------------------------------------------------------------------
(* The search, as long as it looks.                                        *)

LEMMA RefreshKeeps == ASSUME Fine, RefreshLocalhost PROVE Fine'
  <1> USE DEF Fine
  <1>1. TypeOK'
    BY DEF RefreshLocalhost, TypeOK
  <1>2. Named'
    BY SameNames DEF RefreshLocalhost, TypeOK, Known
  <1>3. BusyAgrees'
    BY DEF RefreshLocalhost, BusyAgrees, Busy, Live, Listed
  <1>4. DialogIsCurrent' /\ SearchIsCurrent'
    BY DEF RefreshLocalhost, UserActs, DialogIsCurrent, SearchIsCurrent
  <1> QED BY <1>1, <1>2, <1>3, <1>4

LEMMA CompleteKeeps == ASSUME Fine, SearchComplete PROVE Fine'
  <1> USE DEF Fine
  <1>1. TypeOK'
    BY DEF SearchComplete, TypeOK
  <1>2. Named'
    BY SameNames DEF SearchComplete, TypeOK, Known
  <1>3. BusyAgrees'
    BY DEF SearchComplete, BusyAgrees, Busy, Live, Listed
  <1>4. DialogIsCurrent' /\ SearchIsCurrent'
    BY DEF SearchComplete, DialogIsCurrent, SearchIsCurrent, Listed
  <1> QED BY <1>1, <1>2, <1>3, <1>4

\* A dialog opens for a row that is listed and named.
LEMMA EditKeeps == ASSUME Fine, NEW r \in Elem, EditCurrentConnection(r) PROVE Fine'
  <1> USE DEF Fine
  <1>1. /\ UNCHANGED <<connections, rows, els, groups, search, toDelete, found, forgotten, rash>>
        /\ rows[r] # NoRow /\ search = "off"
    BY DEF EditCurrentConnection, UserActs
  <1>2. rows[r].name \in Name \cup {Unnamed}
    <2>1. Listed(r) /\ (Listed(r) <=> rows[r].name # None)
      BY <1>1 DEF Named, RowIsNamed, Listed
    <2> QED BY <2>1, RowFields
  <1>3. PICK b \in BOOLEAN :
          /\ dialog' = [row |-> r, previous |-> rows[r].name, name |-> rows[r].name,
                        fresh |-> FALSE, newbe |-> b]
          /\ b <=> rows[r].name \notin groups
    BY DEF EditCurrentConnection, Dialog
  <1>4. TypeOK'
    BY <1>1, <1>2, <1>3 DEF TypeOK, DialogType
  <1>5. Named'
    BY <1>1, SameNames DEF TypeOK, Known
  <1>6. BusyAgrees'
    BY <1>1 DEF BusyAgrees, Busy, Live, Listed
  <1>7. DialogIsCurrent' /\ SearchIsCurrent'
    BY <1>1, <1>3 DEF DialogIsCurrent, SearchIsCurrent, Listed
  <1> QED BY <1>4, <1>5, <1>6, <1>7

\* What a thread hears that is told to close.
LEMMA ToldIs ==
    ASSUME TypeOK, NEW e \in Elem
    PROVE  LET w == Told(els[e]) IN
           /\ w \in ElemType /\ w.name = els[e].name /\ w.row = els[e].row
           /\ w.thread = "opening" => els[e].thread = "opening"
           /\ w.thread # "open"
           /\ els[e].thread = "idle" => w = els[e]
  <1>0. els[e] \in ElemType
    BY DEF TypeOK
  <1>1. CASE els[e].thread = "idle"
    BY <1>0, <1>1 DEF Told
  <1>2. CASE els[e].thread = "open"
    <2> DEFINE a == [els[e] EXCEPT !.thread = "leaving"]
               w == [a EXCEPT !.news = Append(els[e].news, "CLOSED")]
    <2>1. Append(els[e].news, "CLOSED") \in Seq(State)
      BY ElemFields DEF State
    <2>2. a \in ElemType /\ a.name = els[e].name /\ a.row = els[e].row /\ a.thread = "leaving"
          /\ a.news = els[e].news
      BY <1>0 DEF ElemType
    <2>3. w \in ElemType /\ w.name = els[e].name /\ w.row = els[e].row /\ w.thread = "leaving"
      <3> HIDE DEF a
      <3> QED BY <2>1, <2>2 DEF ElemType
    <2>4. Told(els[e]) = w
      BY <1>2, <2>2 DEF Told
    <2> HIDE DEF w
    <2> QED BY <1>2, <2>3, <2>4
  <1>3. CASE els[e].thread \notin {"idle", "open"}
    <2> DEFINE w == [els[e] EXCEPT !.news = Append(els[e].news, "FAILED")]
    <2>1. Append(els[e].news, "FAILED") \in Seq(State)
      BY ElemFields DEF State
    <2>2. w \in ElemType /\ w.name = els[e].name /\ w.row = els[e].row /\ w.thread = els[e].thread
      BY <1>0, <2>1 DEF ElemType
    <2>3. Told(els[e]) = w
      BY <1>3 DEF Told
    <2> HIDE DEF w
    <2> QED BY <1>3, <2>2, <2>3
  <1> QED BY <1>1, <1>2, <1>3

LEMMA LooksKeeps == ASSUME Fine, WaitLooks PROVE Fine'
  <1>0. TypeOK /\ Named
    BY DEF Fine
  <1>1. /\ UNCHANGED <<connections, rows, groups, dialog, found, forgotten, rash>>
        /\ search = "waiting" /\ search' = IF LocalKeys = {} THEN "searching" ELSE "removing"
        /\ toDelete' \subseteq LocalKeys
        /\ \A n \in toDelete' : \E r \in RowsOf(n) : rows[r].state # "RUNNING"
        /\ els' \in [Elem -> ElemType]
        /\ \A e \in Elem : els'[e] = els[e] \/ els'[e] = Told(els[e])
    <2>1. \A e \in Elem : els[e] \in ElemType /\ Told(els[e]) \in ElemType
      BY <1>0, ToldIs DEF TypeOK
    <2> QED BY <2>1 DEF WaitLooks
  <1>2. dialog = None
    BY <1>1 DEF Fine, DialogIsCurrent
  <1>3. LocalKeys \subseteq Name /\ \A n \in LocalKeys : connections[n] \in Elem
    BY <1>0 DEF LocalKeys, TypeOK
  <1>4. TypeOK'
    BY <1>0, <1>1, <1>2, <1>3 DEF TypeOK
  <1>5. \A e \in Elem : \/ els'[e] = els[e]
                        \/ /\ els[e] # NoElem
                           /\ els'[e].name = els[e].name
                           /\ els'[e].row = els[e].row
    <2> SUFFICES ASSUME NEW e \in Elem, els'[e] # els[e]
                 PROVE  /\ els[e] # NoElem
                        /\ els'[e].name = els[e].name /\ els'[e].row = els[e].row
      OBVIOUS
    <2>1. els'[e] = Told(els[e])
      BY <1>1
    <2> QED BY <1>0, <2>1, ToldIs, Nothing
  <1>6. Named'
    BY <1>0, <1>1, <1>5, SameNames DEF Fine, TypeOK, Known
  <1>7. BusyAgrees'
    <2> SUFFICES ASSUME NEW d \in Elem
                 PROVE  /\ Busy(d)' /\ Listed(d)' =>
                             rows'[d].name = els'[d].name /\ rows'[d].init = els'[d].name
                        /\ Live(d)' => Listed(d)'
                        /\ els'[d].thread = "open" =>
                             IF els'[d].news = <<>> THEN rows'[d].state = "RUNNING"
                             ELSE els'[d].news[Len(els'[d].news)] = "RUNNING"
      BY DEF BusyAgrees
    <2>1. CASE els'[d] = els[d]
      BY <1>1, <2>1 DEF Fine, BusyAgrees, Busy, Live, Listed
    <2>2. CASE els'[d] = Told(els[d]) /\ els'[d] # els[d]
      <3>1. Busy(d)
        BY <1>0, <2>2, ToldIs DEF Busy
      <3>2. els'[d].thread # "open" /\ (Live(d)' => Live(d)) /\ els'[d].name = els[d].name
        BY <1>0, <2>2, ToldIs DEF Live
      <3> QED BY <1>1, <3>1, <3>2 DEF Fine, BusyAgrees, Listed
    <2> QED BY <1>1, <2>1, <2>2
  <1>8. DialogIsCurrent'
    BY <1>1, <1>2 DEF DialogIsCurrent
  <1>9. ASSUME search' = "removing", NEW n \in toDelete'
        PROVE  connections[n] # None /\ rows[connections[n]].name = n
    <2>1. n \in Name /\ connections[n] # None /\ els[connections[n]].name = n /\ n \in Local
      BY <1>0, <1>1 DEF LocalKeys, Named, KeyIsName
    <2>2. PICK r \in Elem : rows[r].name = n
      BY <1>1, <2>1 DEF RowsOf
    <2>3. rows[r].init = n
      BY <1>0, <2>1, <2>2 DEF Named, LocalIsGiven
    <2>4. connections[n] = r
      BY <1>0, <2>1, <2>3, NamesAssumption DEF Named, InitFinds
    <2> QED BY <2>1, <2>2, <2>4
  <1>10. ASSUME search' = "searching", NEW n \in Local PROVE connections[n] = None
    <2>1. LocalKeys = {} /\ n \in Name
      BY <1>1, <1>10 DEF Name
    <2> QED BY <1>0, <2>1 DEF LocalKeys, Named, KeyIsName
  <1>11. SearchIsCurrent'
    BY <1>1, <1>9, <1>10 DEF SearchIsCurrent
  <1> QED BY <1>4, <1>6, <1>7, <1>8, <1>11 DEF Fine

----------------------------------------------------------------------------
(* Clicks.                                                                 *)

\* What is known of a row that finds an element: it is its own.
LEMMA FoundIs ==
    ASSUME Fine, NEW r \in Elem, At(rows[r].init) # None
    PROVE  /\ At(rows[r].init) = r
           /\ rows[r].init \in Name /\ connections[rows[r].init] = r
           /\ rows[r].name \in Name /\ Listed(r)
           /\ els[r].name = rows[r].init /\ els[r].row = r
           /\ Renamed(r) => ~Busy(r)
  <1> USE DEF Fine, Named
  <1>1. rows[r].init \in Name
    BY DEF At
  <1>2. connections[rows[r].init] = r
    BY <1>1, NamesAssumption DEF InitFinds
  <1>3. rows[r].name \in Name /\ Listed(r)
    <2>1. rows[r].name \notin {None, Unnamed}
      BY <1>1, NamesAssumption DEF UnlistedHasNoInit
    <2> QED BY <2>1, RowFields DEF RowIsNamed
  <1>4. els[r].name = rows[r].init
    BY <1>1, <1>2, NamesAssumption DEF KeyIsName
  <1>5. els[r].row = r
    BY <1>1, <1>4, Nothing, NamesAssumption DEF RowIsOwn
  <1>6. Renamed(r) => ~Busy(r)
    BY <1>3, <1>4 DEF Renamed, BusyAgrees
  <1> QED BY <1>1, <1>2, <1>3, <1>4, <1>5, <1>6 DEF At

\* A row and its element that are called the same again.
LEMMA Reclaims ==
    ASSUME Fine, NEW r \in Elem, At(rows[r].init) # None,
           UserActs, Rekey(r, r),
           UNCHANGED <<groups, dialog, search, toDelete, found, forgotten, rash>>,
           els' \in [Elem -> ElemType], rows' \in [Elem -> RowType],
           \A q \in Elem \ {r} : els'[q] = els[q] /\ rows'[q] = rows[q],
           els'[r].name = rows[r].name, els'[r].row = r, els'[r].thread # "open",
           rows'[r] # NoRow, rows'[r].name = rows[r].name, rows'[r].init = rows[r].name
    PROVE  Fine'
  <1> USE DEF Fine, Named
  <1> DEFINE n == rows[r].name
             i == rows[r].init
  <1>1. /\ i \in Name /\ connections[i] = r /\ n \in Name /\ Listed(r) /\ els[r].name = i
    BY FoundIs
  <1>2. /\ connections' \in [Name -> Elem \cup {None}]
        /\ connections'[n] = r
        /\ \A m \in Name \ {n} : connections'[m] = IF m = i THEN None ELSE connections[m]
    <2>1. CASE Renamed(r)
      BY <1>1, <2>1 DEF Rekey, TypeOK, Renamed
    <2>2. CASE ~Renamed(r)
      BY <1>1, <2>2 DEF Rekey, TypeOK, Renamed
    <2> QED BY <2>1, <2>2
  <1>3. PICK k \in Name : k = n
    BY <1>1
  <1>4. PICK j \in Name : j = i
    BY <1>1
  <1>5. /\ connections'[k] = r
        /\ \A m \in Name \ {k} : connections'[m] = IF m = j THEN None ELSE connections[m]
        /\ connections[j] = r /\ rows[r].name = k /\ rows[r].init = j /\ els[r].name = j
        /\ els'[r].name = k /\ rows'[r].name = k /\ rows'[r].init = k
    BY <1>1, <1>2, <1>3, <1>4
  <1> HIDE DEF n, i
  <1>6. TypeOK'
    BY <1>2 DEF TypeOK
  <1>7. KeyIsName'
    <2> SUFFICES ASSUME NEW m \in Name, connections'[m] # None
                 PROVE  els'[connections'[m]].name = m
      BY DEF KeyIsName
    <2>1. CASE m = k
      BY <1>5, <2>1
    <2>2. CASE m # k
      <3>1. m # j /\ connections'[m] = connections[m]
        BY <1>5, <2>2
      <3>2. connections[m] \in Elem /\ els[connections[m]].name = m
        BY <3>1 DEF KeyIsName, TypeOK
      <3> QED BY <1>5, <3>1, <3>2
    <2> QED BY <2>1, <2>2
  <1>8. RowIsOwn'
    BY <1>5 DEF RowIsOwn
  <1>9. InitFinds'
    <2> SUFFICES ASSUME NEW q \in Elem, rows'[q].init # None
                 PROVE  connections'[rows'[q].init] = q
      BY DEF InitFinds
    <2>1. CASE q = r
      BY <1>5, <2>1
    <2>2. CASE q # r
      <3>1. rows[q].init \in Name /\ connections[rows[q].init] = q /\ rows'[q] = rows[q]
        BY <2>2, RowFields DEF InitFinds
      <3>2. rows[q].init # j
        BY <1>5, <2>2, <3>1
      <3>3. rows[q].init # k
        BY <1>5, <2>2, <3>1, NamesAssumption DEF NewNameIsFree, Renamed
      <3> QED BY <1>5, <3>1, <3>2, <3>3
    <2> QED BY <2>1, <2>2
  <1>10. RowIsNamed' /\ UnlistedHasNoInit' /\ NamesDiffer' /\ LocalIsGiven'
    <2>1. \A q \in Elem : Listed(q)' <=> Listed(q)
      BY <1>1 DEF Listed
    <2>2. RowIsNamed'
      BY <1>5, <2>1 DEF RowIsNamed
    <2>3. UnlistedHasNoInit' /\ LocalIsGiven'
      BY <1>5, NamesAssumption DEF UnlistedHasNoInit, LocalIsGiven, Name
    <2>4. \A q \in Elem : rows'[q].name = rows[q].name
      BY <1>5
    <2>5. NamesDiffer'
      BY <2>1, <2>4 DEF NamesDiffer
    <2> QED BY <2>2, <2>3, <2>5
  <1>11. NewNameIsFree'
    <2> SUFFICES ASSUME NEW q \in Elem, rows'[q].name \in Name, Renamed(q)'
                 PROVE  connections'[rows'[q].name] = None
      BY DEF NewNameIsFree
    <2>1. q # r
      BY <1>5 DEF Renamed
    <2>2. rows'[q] = rows[q] /\ connections[rows[q].name] = None
      BY <2>1 DEF NewNameIsFree, Renamed
    <2>3. rows[q].name # k
      BY <1>1, <1>5, <2>1 DEF NamesDiffer
    <2> QED BY <1>5, <2>2, <2>3
  <1>12. NamesAreSaved'
    BY <1>5 DEF NamesAreSaved, Known
  <1>13. BusyAgrees'
    <2>1. Listed(r)'
      BY DEF Listed
    <2>2. \A d \in Elem \ {r} : (Listed(d)' <=> Listed(d)) /\ (Busy(d)' <=> Busy(d))
                                 /\ (Live(d)' <=> Live(d))
      BY DEF Listed, Busy, Live
    <2> QED BY <1>5, <2>1, <2>2 DEF BusyAgrees
  <1>14. DialogIsCurrent' /\ SearchIsCurrent'
    BY DEF UserActs, DialogIsCurrent, SearchIsCurrent
  <1> QED BY <1>6, <1>7, <1>8, <1>9, <1>10, <1>11, <1>12, <1>13, <1>14

\* What becomes of row and element before a click does what it is for.
LEMMA RekeyedIs ==
    ASSUME Fine, NEW r \in Elem, At(rows[r].init) # None, els[r].news = <<>>,
           NEW atStart \in BOOLEAN
    PROVE  LET E == Rekeyed(r, r, atStart)
               R == RekeyedRows(r, atStart)
           IN  /\ E \in [Elem -> ElemType] /\ R \in [Elem -> RowType]
               /\ \A q \in Elem \ {r} : E[q] = els[q] /\ R[q] = rows[q]
               /\ E[r].name = rows[r].name /\ E[r].row = r
               /\ R[r] # NoRow /\ R[r].name = rows[r].name /\ R[r].init = rows[r].name
               /\ E[r].thread = "open" =>
                    ~Renamed(r) /\ els[r].thread = "open" /\ rows[r].state = "RUNNING"
  <1> DEFINE n == rows[r].name
  <1>1. /\ n \in Name /\ els[r] \in ElemType /\ els[r].name = rows[r].init /\ els[r].row = r
        /\ Listed(r) /\ TypeOK
    BY FoundIs DEF Fine, TypeOK
  <1>2. CASE Renamed(r)
    <2>1. els[r].thread = "idle"
      BY <1>2, FoundIs DEF Busy
    <2> DEFINE el == Referred(els[r], r, n, atStart)
               row == ReferredRow(n, atStart)
    <2>2. /\ el \in ElemType /\ el.name = n /\ el.row = r /\ el.thread # "open"
      BY <1>1, <2>1, ReferredIs DEF Opens
    <2>3. row \in RowType /\ row.name = n /\ row.init = n /\ row # NoRow
      BY <1>1, ReferredRowIs
    <2>4. /\ Rekeyed(r, r, atStart) = [els EXCEPT ![r] = el]
          /\ RekeyedRows(r, atStart) = [rows EXCEPT ![r] = row]
      BY <1>2 DEF Rekeyed, RekeyedRows
    <2> HIDE DEF el, row
    <2> QED BY <1>1, <2>2, <2>3, <2>4 DEF TypeOK
  <1>3. CASE ~Renamed(r)
    <2>1. Rekeyed(r, r, atStart) = els /\ RekeyedRows(r, atStart) = rows
      BY <1>3 DEF Rekeyed, RekeyedRows
    <2>2. els[r].thread = "open" => rows[r].state = "RUNNING"
      BY DEF Fine, BusyAgrees
    <2> QED BY <1>1, <1>3, <2>1, <2>2 DEF TypeOK, Renamed, Listed
  <1> QED BY <1>2, <1>3

LEMMA ClickKeeps == ASSUME Fine, NEW r \in Elem, Click(r) PROVE Fine'
  <1>1. /\ At(rows[r].init) # None /\ At(rows[r].init) = r /\ els[r].news = <<>> /\ UserActs
        /\ Rekey(r, r) /\ UNCHANGED <<groups, dialog, search, toDelete, found, forgotten, rash>>
        /\ Renamed(r)
    BY FoundIs DEF Click
  <1>2. PICK atStart \in BOOLEAN :
          els' = Rekeyed(r, r, atStart) /\ rows' = RekeyedRows(r, atStart)
    BY <1>1 DEF Click
  <1>3. /\ els' \in [Elem -> ElemType] /\ rows' \in [Elem -> RowType]
        /\ \A q \in Elem \ {r} : els'[q] = els[q] /\ rows'[q] = rows[q]
        /\ els'[r].name = rows[r].name /\ els'[r].row = r
        /\ rows'[r] # NoRow /\ rows'[r].name = rows[r].name /\ rows'[r].init = rows[r].name
        /\ els'[r].thread # "open"
    BY <1>1, <1>2, RekeyedIs
  <1> QED BY <1>1, <1>3, Reclaims

\* Opening and closing touch the element and its row, and name them as before.
LEMMA OpensIs ==
    ASSUME NEW E \in [Elem -> ElemType], NEW R \in [Elem -> RowType], NEW r \in Elem,
           E[r].row = r, E[r].name \in Name, R[r].name = E[r].name, R[r].init = E[r].name,
           R[r] # NoRow, E[r].thread # "open",
           OpenConnection(r, E, R)
    PROVE  /\ els' \in [Elem -> ElemType] /\ rows' \in [Elem -> RowType]
           /\ \A q \in Elem \ {r} : els'[q] = E[q] /\ rows'[q] = R[q]
           /\ els'[r].name = E[r].name /\ els'[r].row = r /\ els'[r].thread # "open"
           /\ rows'[r] # NoRow /\ rows'[r].name = E[r].name /\ rows'[r].init = E[r].name
  <1> DEFINE el == E[r]
             a == [el EXCEPT !.thread = Opens(el)]
             w == [a EXCEPT !.news = Opening(el)]
             x == [R[r] EXCEPT !.busy = TRUE]
             y == [x EXCEPT !.state = el.says]
             z == [y EXCEPT !.init = el.name]
  <1>0. el \in ElemType /\ R[r] \in RowType
    OBVIOUS
  <1>1. /\ Opens(el) \in {"idle", "opening", "open", "leaving"} /\ Opens(el) # "open"
        /\ Opening(el) \in Seq(State)
    <2>1. <<"CONNECT">> \in Seq(State) /\ el.news \in Seq(State)
      BY <1>0 DEF State, ElemType
    <2> QED BY <1>0, <2>1 DEF Opens, Opening, ElemType
  <1>2. /\ a \in ElemType /\ a.name = el.name /\ a.row = el.row /\ a.thread # "open"
        /\ a.news = el.news
    <2> HIDE DEF el
    <2> QED BY <1>0, <1>1 DEF ElemType
  <1>3. w \in ElemType /\ w.name = el.name /\ w.row = el.row /\ w.thread # "open"
    <2> HIDE DEF a, el
    <2> QED BY <1>1, <1>2 DEF ElemType
  <1>4. x \in RowType /\ x.name = el.name /\ x.init = el.name
    <2> QED BY <1>0 DEF RowType
  <1>5. y \in RowType /\ y.name = el.name /\ y.init = el.name
    <2>1. el.says \in State
      BY <1>0 DEF ElemType
    <2> HIDE DEF x, el
    <2> QED BY <1>4, <2>1 DEF RowType
  <1>6. z \in RowType /\ z.name = el.name /\ z.init = el.name /\ z # NoRow
    <2>1. el.name \in Name
      OBVIOUS
    <2> HIDE DEF y, el
    <2>2. z \in RowType /\ z.name = el.name /\ z.init = el.name
      BY <1>5, <2>1 DEF RowType
    <2> HIDE DEF z
    <2> QED BY <2>1, <2>2, Nothing, NamesAssumption
  <1>7. els' = [E EXCEPT ![r] = w]
    <2>1. [E EXCEPT ![r].thread = Opens(E[r]), ![r].news = Opening(E[r])] = [E EXCEPT ![r] = w]
      OBVIOUS
    <2> QED BY <2>1 DEF OpenConnection
  <1>8. rows' = [R EXCEPT ![r] = z]
    <2>1. [R EXCEPT ![r].busy = TRUE, ![r].state = E[r].says, ![r].init = E[r].name]
            = [R EXCEPT ![r] = z]
      OBVIOUS
    <2> QED BY <2>1 DEF OpenConnection
  <1> HIDE DEF w, z
  <1> QED BY <1>3, <1>6, <1>7, <1>8

LEMMA ClosesIs ==
    ASSUME NEW E \in [Elem -> ElemType], NEW R \in [Elem -> RowType], NEW r \in Elem,
           E[r].row = r, E[r].name \in Name, R[r].name = E[r].name, R[r].init = E[r].name,
           R[r] # NoRow,
           CloseConnection(r, E, R)
    PROVE  /\ els' \in [Elem -> ElemType] /\ rows' \in [Elem -> RowType]
           /\ \A q \in Elem \ {r} : els'[q] = E[q] /\ rows'[q] = R[q]
           /\ els'[r].name = E[r].name /\ els'[r].row = r /\ els'[r].thread # "open"
           /\ rows'[r] # NoRow /\ rows'[r].name = E[r].name /\ rows'[r].init = E[r].name
  <1> DEFINE el == E[r]
  <1>0. el \in ElemType /\ "CLOSED" \in State /\ "FAILED" \in State
    BY DEF State
  <1>1. ASSUME NEW s \in State
        PROVE  LET row == [name |-> el.name, state |-> s, busy |-> FALSE, init |-> el.name] IN
               /\ SetConnectionState(el, R, s) = [R EXCEPT ![r] = row]
               /\ row \in RowType /\ row.name = el.name /\ row.init = el.name /\ row # NoRow
    <2> DEFINE row == [name |-> el.name, state |-> s, busy |-> FALSE, init |-> el.name]
    <2>1. SetConnectionState(el, R, s) = [R EXCEPT ![r] = row]
      BY NamesAssumption DEF SetConnectionState
    <2>2. row \in RowType /\ row.name = el.name /\ row.init = el.name
      BY DEF RowType
    <2>3. row # NoRow
      BY <2>2, Nothing, NamesAssumption
    <2> QED BY <2>1, <2>2, <2>3
  <1>2. ASSUME NEW s \in State, rows' = SetConnectionState(el, R, s)
        PROVE  /\ rows' \in [Elem -> RowType]
               /\ \A q \in Elem \ {r} : rows'[q] = R[q]
               /\ rows'[r] # NoRow /\ rows'[r].name = E[r].name /\ rows'[r].init = E[r].name
    <2> DEFINE row == [name |-> el.name, state |-> s, busy |-> FALSE, init |-> el.name]
    <2>1. /\ rows' = [R EXCEPT ![r] = row]
          /\ row \in RowType /\ row.name = el.name /\ row.init = el.name /\ row # NoRow
      BY <1>1, <1>2
    <2> HIDE DEF row
    <2> QED BY <2>1
  <1>3. CASE el.thread = "idle"
    BY <1>3 DEF CloseConnection
  <1>4. CASE el.thread = "open"
    <2> DEFINE a == [el EXCEPT !.thread = "leaving"]
               w == [a EXCEPT !.says = "CLOSED"]
    <2>1. a \in ElemType /\ a.name = el.name /\ a.row = el.row /\ a.thread = "leaving"
      <3> HIDE DEF el
      <3> QED BY <1>0 DEF ElemType
    <2>2. w \in ElemType /\ w.name = el.name /\ w.row = el.row /\ w.thread = "leaving"
      <3> HIDE DEF a, el
      <3> QED BY <1>0, <2>1 DEF ElemType
    <2>3. els' = [E EXCEPT ![r] = w] /\ rows' = SetConnectionState(el, R, "CLOSED")
      <3>1. [E EXCEPT ![r].thread = "leaving", ![r].says = "CLOSED"] = [E EXCEPT ![r] = w]
        OBVIOUS
      <3> QED BY <1>4, <3>1 DEF CloseConnection
    <2> HIDE DEF w
    <2> QED BY <1>0, <1>2, <2>2, <2>3
  <1>5. CASE el.thread \notin {"idle", "open"}
    <2> DEFINE w == [el EXCEPT !.says = "FAILED"]
    <2>1. w \in ElemType /\ w.name = el.name /\ w.row = el.row /\ w.thread = el.thread
      <3> HIDE DEF el
      <3> QED BY <1>0 DEF ElemType
    <2>2. els' = [E EXCEPT ![r] = w] /\ rows' = SetConnectionState(el, R, "FAILED")
      <3>1. [E EXCEPT ![r].says = "FAILED"] = [E EXCEPT ![r] = w]
        OBVIOUS
      <3> QED BY <1>5, <3>1 DEF CloseConnection
    <2> HIDE DEF w
    <2> QED BY <1>0, <1>2, <1>5, <2>1, <2>2
  <1> QED BY <1>3, <1>4, <1>5

LEMMA DoubleClickKeeps == ASSUME Fine, NEW r \in Elem, DoubleClick(r) PROVE Fine'
  <1>1. /\ At(rows[r].init) # None /\ At(rows[r].init) = r /\ els[r].news = <<>> /\ UserActs
        /\ Rekey(r, r) /\ UNCHANGED <<groups, dialog, search, toDelete, found, forgotten, rash>>
    BY FoundIs DEF DoubleClick
  <1>2. PICK atStart \in BOOLEAN :
          IF rows[r].state = "RUNNING"
          THEN CloseConnection(r, Rekeyed(r, r, atStart), RekeyedRows(r, atStart))
          ELSE OpenConnection(r, Rekeyed(r, r, atStart), RekeyedRows(r, atStart))
    BY <1>1 DEF DoubleClick
  <1>3. PICK E \in [Elem -> ElemType] : E = Rekeyed(r, r, atStart)
    BY <1>1, RekeyedIs
  <1>4. PICK R \in [Elem -> RowType] : R = RekeyedRows(r, atStart)
    BY <1>1, RekeyedIs
  <1>5. /\ \A q \in Elem \ {r} : E[q] = els[q] /\ R[q] = rows[q]
        /\ E[r].name = rows[r].name /\ E[r].row = r /\ rows[r].name \in Name
        /\ R[r] # NoRow /\ R[r].name = rows[r].name /\ R[r].init = rows[r].name
        /\ E[r].thread = "open" => rows[r].state = "RUNNING"
    BY <1>1, <1>3, <1>4, RekeyedIs, FoundIs
  <1>6. /\ els' \in [Elem -> ElemType] /\ rows' \in [Elem -> RowType]
        /\ \A q \in Elem \ {r} : els'[q] = els[q] /\ rows'[q] = rows[q]
        /\ els'[r].name = rows[r].name /\ els'[r].row = r
        /\ rows'[r] # NoRow /\ rows'[r].name = rows[r].name /\ rows'[r].init = rows[r].name
        /\ els'[r].thread # "open"
    <2>1. CASE rows[r].state = "RUNNING"
      <3>1. CloseConnection(r, E, R)
        BY <1>2, <1>3, <1>4, <2>1
      <3> QED BY <1>5, <3>1, ClosesIs
    <2>2. CASE rows[r].state # "RUNNING"
      <3>1. OpenConnection(r, E, R)
        BY <1>2, <1>3, <1>4, <2>2
      <3> QED BY <1>5, <2>2, <3>1, OpensIs
    <2> QED BY <2>1, <2>2
  <1> QED BY <1>1, <1>6, Reclaims

----------------------------------------------------------------------------
(* Connections that go.                                                    *)

\* A row that is taken from the list, with the element that it finds or without.
LEMMA Forgets ==
    ASSUME Fine, NEW r \in Elem,
           rows' = [rows EXCEPT ![r] = NoRow],
           connections' \in [Name -> Elem \cup {None}],
           \A m \in Name : \/ connections'[m] = connections[m]
                           \/ connections'[m] = None /\ connections[m] = r,
           els' \in [Elem -> ElemType],
           \A e \in Elem : \/ els'[e] = els[e]
                           \/ els'[e] = NoElem /\ e \notin Range(connections'),
           ~Live(r)',
           Known \ {rows[r].name} \subseteq Known'
    PROVE  Named' /\ BusyAgrees'
  <1> USE DEF Fine, Named
  <1>1. /\ rows'[r] = NoRow /\ rows'[r].name = None /\ rows'[r].init = None
        /\ \A q \in Elem \ {r} : rows'[q] = rows[q]
    BY Nothing DEF TypeOK
  <1>2. KeyIsName'
    <2> SUFFICES ASSUME NEW m \in Name, connections'[m] # None
                 PROVE  els'[connections'[m]].name = m
      BY DEF KeyIsName
    <2>1. connections'[m] = connections[m] /\ connections[m] \in Elem
      BY DEF TypeOK
    <2>2. connections'[m] \in Range(connections')
      BY DEF Range
    <2>3. els[connections[m]].name = m
      BY <2>1 DEF KeyIsName
    <2> QED BY <2>1, <2>2, <2>3
  <1>3. RowIsOwn'
    BY DEF RowIsOwn
  <1>4. InitFinds'
    <2> SUFFICES ASSUME NEW q \in Elem, rows'[q].init # None
                 PROVE  connections'[rows'[q].init] = q
      BY DEF InitFinds
    <2>1. q # r /\ rows'[q] = rows[q]
      BY <1>1
    <2>2. rows[q].init \in Name /\ connections[rows[q].init] = q
      BY <2>1, RowFields DEF InitFinds
    <2> QED BY <2>1, <2>2
  <1>5. RowIsNamed' /\ UnlistedHasNoInit' /\ LocalIsGiven'
    BY <1>1, NamesAssumption DEF RowIsNamed, UnlistedHasNoInit, LocalIsGiven, Listed, Name
  <1>6. NamesDiffer'
    BY <1>1 DEF NamesDiffer, RowIsNamed, Listed
  <1>7. NewNameIsFree'
    BY <1>1, NamesAssumption DEF NewNameIsFree, Renamed
  <1>8. NamesAreSaved'
    <2> SUFFICES ASSUME NEW q \in Elem, rows'[q].name \in Names PROVE rows'[q].name \in Known'
      BY DEF NamesAreSaved
    <2>1. q # r /\ rows'[q] = rows[q]
      BY <1>1, NamesAssumption DEF Name
    <2>2. rows[q].name \in Known /\ rows[q].name # None
      BY <2>1, NamesAssumption DEF NamesAreSaved, Name
    <2>3. rows[q].name # rows[r].name
      BY <2>1, <2>2 DEF NamesDiffer, RowIsNamed
    <2> QED BY <2>1, <2>2, <2>3
  <1>9. BusyAgrees'
    <2> SUFFICES ASSUME NEW d \in Elem
                 PROVE  /\ Busy(d)' /\ Listed(d)' =>
                             rows'[d].name = els'[d].name /\ rows'[d].init = els'[d].name
                        /\ Live(d)' => Listed(d)'
                        /\ els'[d].thread = "open" =>
                             IF els'[d].news = <<>> THEN rows'[d].state = "RUNNING"
                             ELSE els'[d].news[Len(els'[d].news)] = "RUNNING"
      BY DEF BusyAgrees
    <2>1. CASE d = r
      BY <1>1, <2>1 DEF Listed, Live
    <2>2. CASE els'[d] = NoElem
      BY <2>2, Nothing DEF Busy, Live
    <2>3. CASE d # r /\ els'[d] = els[d]
      BY <1>1, <2>3 DEF BusyAgrees, Busy, Live, Listed
    <2> QED BY <2>1, <2>2, <2>3
  <1> QED BY <1>2, <1>3, <1>4, <1>5, <1>6, <1>7, <1>8, <1>9

LEMMA DeleteForgets ==
    ASSUME Fine, NEW r \in Elem, Listed(r), NEW kept, Delete(r, kept), kept \subseteq groups,
           Known \subseteq kept \cup forgotten'
    PROVE  /\ Named' /\ BusyAgrees'
           /\ connections' \in [Name -> Elem \cup {None}] /\ rows' \in [Elem -> RowType]
           /\ els' \in [Elem -> ElemType] /\ groups' \subseteq Name
  <1> USE DEF Fine, Named
  <1> DEFINE n == rows[r].name
             e == At(n)
  <1>1. rows' = [rows EXCEPT ![r] = NoRow] /\ rows' \in [Elem -> RowType]
    BY Nothing DEF Delete, TypeOK
  <1>2. CASE e # None
    <2>1. n \in Name /\ e = connections[n]
      BY <1>2 DEF At
    <2>2. rows[r].init = n /\ e = r
      BY <1>2, <2>1, NamesAssumption DEF NewNameIsFree, Renamed, InitFinds
    <2>3. /\ connections' = [connections EXCEPT ![n] = None]
          /\ els' = [els EXCEPT ![r] = NoElem]
          /\ groups' = kept \ {n}
      BY <1>2, <2>2 DEF Delete
    <2>4. els[r].name = n
      BY <1>2, <2>1, <2>2 DEF KeyIsName
    <2>5. connections' \in [Name -> Elem \cup {None}] /\ els' \in [Elem -> ElemType]
      BY <2>1, <2>3, Nothing DEF TypeOK
    <2>6. \A m \in Name : \/ m # n /\ connections'[m] = connections[m]
                          \/ m = n /\ connections'[m] = None /\ connections[m] = r
      BY <2>1, <2>2, <2>3 DEF TypeOK
    <2>7. r \notin Range(connections')
      <3> SUFFICES ASSUME NEW m \in Name, connections'[m] = r PROVE FALSE
        BY <2>5 DEF Range
      <3>1. m # n /\ connections[m] = r
        BY <2>6, NamesAssumption
      <3> QED BY <2>4, <3>1, NamesAssumption DEF KeyIsName
    <2>8. els'[r] = NoElem /\ \A d \in Elem \ {r} : els'[d] = els[d]
      BY <2>3 DEF TypeOK
    <2>9. ~Live(r)'
      BY <2>8, Nothing DEF Live
    <2>10. Known \ {rows[r].name} \subseteq Known'
      BY <2>3 DEF Known
    <2>11. groups' \subseteq Name
      BY <2>3 DEF TypeOK
    <2>12. \A m \in Name : \/ connections'[m] = connections[m]
                           \/ connections'[m] = None /\ connections[m] = r
      BY <2>6
    <2>13. \A d \in Elem : \/ els'[d] = els[d]
                           \/ els'[d] = NoElem /\ d \notin Range(connections')
      BY <2>7, <2>8
    <2> HIDE DEF n, e
    <2>14. Named' /\ BusyAgrees'
      BY <1>1, <2>5, <2>9, <2>10, <2>12, <2>13, Forgets
    <2> QED BY <1>1, <2>5, <2>11, <2>14
  <1>3. CASE e = None
    <2>1. UNCHANGED <<connections, els>> /\ groups' = kept
      BY <1>3 DEF Delete
    <2>2. ~Busy(r)
      <3> SUFFICES ASSUME Busy(r) PROVE FALSE
        OBVIOUS
      <3>1. els[r].name \in Name
        BY Nothing DEF RowIsOwn, Busy
      <3>2. n = els[r].name /\ rows[r].init = n
        BY DEF BusyAgrees
      <3>3. connections[n] = r
        BY <3>1, <3>2, NamesAssumption DEF InitFinds
      <3> QED BY <1>3, <3>1, <3>2, <3>3, NamesAssumption DEF At
    <2>3. ~Live(r)'
      BY <2>1, <2>2 DEF Live, Busy
    <2>4. Known \subseteq Known'
      BY <2>1 DEF Known
    <2> QED BY <1>1, <2>1, <2>3, <2>4, Forgets DEF TypeOK
  <1> QED BY <1>2, <1>3

LEMMA DeletionKeeps == ASSUME Fine, NEW r \in Elem, DeleteCurrentConnection(r) PROVE Fine'
  <1>1. /\ Listed(r) /\ Delete(r, groups) /\ search = "off" /\ dialog = None
        /\ UNCHANGED <<dialog, search, toDelete, found, forgotten, rash>>
    BY DEF DeleteCurrentConnection, UserActs, Listed
  <1>2. /\ Named' /\ BusyAgrees'
        /\ connections' \in [Name -> Elem \cup {None}] /\ rows' \in [Elem -> RowType]
        /\ els' \in [Elem -> ElemType] /\ groups' \subseteq Name
    BY <1>1, DeleteForgets DEF Known
  <1>3. TypeOK'
    BY <1>1, <1>2 DEF Fine, TypeOK
  <1>4. DialogIsCurrent' /\ SearchIsCurrent'
    BY <1>1 DEF DialogIsCurrent, SearchIsCurrent
  <1> QED BY <1>2, <1>3, <1>4 DEF Fine

\* What is new has no group yet: leaving its dialog takes none, or that of another,
\* which is then forgotten.
LEMMA CancelKeeps == ASSUME Fine, CancelConnection PROVE Fine'
  <1> DEFINE r == dialog.row
             kept == groups \ Taken
  <1>1. /\ dialog # None /\ dialog' = None /\ UNCHANGED <<search, toDelete, found, rash>>
        /\ search = "off" /\ r \in Elem
    BY DEF CancelConnection, Fine, DialogIsCurrent, TypeOK, DialogType
  <1>2. /\ forgotten' = forgotten \cup ((groups \cap Taken) \ {dialog.previous})
        /\ dialog.previous \in Taken => dialog.previous \notin groups
    BY <1>1 DEF CancelConnection, Fine, DialogIsCurrent, Taken
  <1>3. /\ forgotten' \subseteq Name
        /\ kept \subseteq groups /\ Known \subseteq kept \cup forgotten'
    BY <1>2 DEF Fine, TypeOK, Known
  <1>4. /\ Named' /\ BusyAgrees'
        /\ connections' \in [Name -> Elem \cup {None}] /\ rows' \in [Elem -> RowType]
        /\ els' \in [Elem -> ElemType] /\ groups' \subseteq Name
    <2>1. CASE Listed(r) /\ Delete(r, kept)
      <3> HIDE DEF r, kept
      <3> QED BY <1>1, <1>3, <2>1, DeleteForgets
    <2>2. CASE groups' = kept /\ UNCHANGED <<connections, rows, els>>
      <3>1. Known \subseteq Known' /\ groups' \subseteq Name
        BY <1>3, <2>2 DEF Fine, TypeOK, Known
      <3>2. Named'
        BY <2>2, <3>1, SameNames DEF Fine, TypeOK
      <3>3. BusyAgrees'
        BY <2>2 DEF Fine, BusyAgrees, Busy, Live, Listed
      <3> QED BY <2>2, <3>1, <3>2, <3>3 DEF Fine, TypeOK
    <2> QED BY <2>1, <2>2 DEF CancelConnection, Listed
  <1>5. TypeOK'
    BY <1>1, <1>3, <1>4 DEF Fine, TypeOK
  <1>6. DialogIsCurrent' /\ SearchIsCurrent'
    BY <1>1 DEF DialogIsCurrent, SearchIsCurrent
  <1> QED BY <1>4, <1>5, <1>6 DEF Fine

\* The search removes what is listed under its name; what lives is rash.
LEMMA RemovesKeeps == ASSUME Fine, WaitRemoves, ~rash' PROVE Fine'
  <1> USE DEF Fine, Named
  <1>1. /\ search = "removing" /\ dialog = None
        /\ UNCHANGED <<groups, dialog, found, forgotten>>
    BY DEF WaitRemoves, DialogIsCurrent
  <1>2. CASE toDelete = {}
    <2>1. search' = "waiting" /\ UNCHANGED <<connections, rows, els, toDelete, rash>>
      BY <1>2 DEF WaitRemoves
    <2>2. TypeOK'
      BY <1>1, <2>1 DEF TypeOK
    <2>3. Named'
      BY <1>1, <2>1, SameNames DEF TypeOK, Known
    <2>4. BusyAgrees'
      BY <2>1 DEF BusyAgrees, Busy, Live, Listed
    <2>5. DialogIsCurrent' /\ SearchIsCurrent'
      BY <1>1, <2>1 DEF DialogIsCurrent, SearchIsCurrent
    <2> QED BY <2>2, <2>3, <2>4, <2>5
  <1>3. CASE toDelete # {}
    <2>1. PICK n \in toDelete :
            /\ toDelete' = toDelete \ {n}
            /\ connections' = [connections EXCEPT ![n] = None]
            /\ rows' = [r \in Elem |-> IF r \in RowsOf(n) THEN NoRow ELSE rows[r]]
            /\ rash' = (rash \/ els[connections[n]].thread \in {"opening", "open"})
            /\ els' = Kept(els, connections')
            /\ UNCHANGED search
      BY <1>3 DEF WaitRemoves
    <2>2. /\ n \in Name /\ connections[n] # None /\ rows[connections[n]].name = n
          /\ connections[n] \in Elem
      BY <1>1, <2>1 DEF SearchIsCurrent, TypeOK
    <2>3. PICK c \in Elem : c = connections[n]
      BY <2>2
    <2>4. els[c].name = n /\ rows[c].name = n /\ Listed(c)
      BY <2>2, <2>3, NamesAssumption DEF KeyIsName, RowIsNamed
    <2>5. RowsOf(n) = {c}
      BY <2>3, <2>4 DEF RowsOf, NamesDiffer
    <2>6. rows' = [rows EXCEPT ![c] = NoRow]
      BY <2>1, <2>5 DEF TypeOK
    <2>7. /\ connections' \in [Name -> Elem \cup {None}]
          /\ \A m \in Name : IF m = n THEN connections'[m] = None
                                      ELSE connections'[m] = connections[m]
      BY <2>1, <2>2 DEF TypeOK
    <2>8. /\ els' \in [Elem -> ElemType]
          /\ \A e \in Elem : \/ els'[e] = els[e]
                             \/ els'[e] = NoElem /\ e \notin Range(connections')
      BY <2>1, KeptIs DEF TypeOK
    <2>9. ~Live(c)'
      BY <2>1, <2>3, <2>8, Nothing DEF Live
    <2>10. Named' /\ BusyAgrees'
      BY <1>1, <2>3, <2>6, <2>7, <2>8, <2>9, Forgets DEF Known
    <2>11. TypeOK'
      <3>1. rash' \in BOOLEAN
        BY <2>1
      <3>2. rows' \in [Elem -> RowType]
        BY <2>6, Nothing DEF TypeOK
      <3>3. toDelete' \subseteq Name /\ search' \in {"off", "waiting", "removing", "searching"}
        BY <1>1, <2>1 DEF TypeOK
      <3> QED BY <1>1, <2>7, <2>8, <3>1, <3>2, <3>3 DEF TypeOK
    <2>12. DialogIsCurrent'
      BY <1>1 DEF DialogIsCurrent
    <2>13. SearchIsCurrent'
      <3> SUFFICES ASSUME NEW m \in toDelete \ {n}
                   PROVE  connections'[m] # None /\ rows'[connections'[m]].name = m
        BY <1>1, <2>1 DEF SearchIsCurrent
      <3>1. /\ m \in Name /\ connections[m] \in Elem /\ rows[connections[m]].name = m
            /\ connections[m] # None
        BY <1>1 DEF SearchIsCurrent, TypeOK
      <3>2. connections[m] # c /\ connections'[m] = connections[m]
        BY <2>4, <2>7, <3>1
      <3> QED BY <2>6, <3>1, <3>2 DEF TypeOK
    <2> QED BY <2>10, <2>11, <2>12, <2>13
  <1> QED BY <1>2, <1>3

----------------------------------------------------------------------------
(* Connections that come, and a row that is called anew.                   *)

\* A row and its element get a name that nobody has.
LEMMA Comes ==
    ASSUME Fine, NEW r \in Elem, NEW n \in Name, NEW el \in ElemType, NEW row \in RowType,
           connections[n] = None,
           \A q \in Elem \ {r} : rows[q].name # n,
           r \notin Range(connections),
           connections' = [connections EXCEPT ![n] = r],
           els' = [els EXCEPT ![r] = el],
           el.name = n, el.row = r, el.thread # "open",
           rows' = [rows EXCEPT ![r] = row],
           row.name = n, row.init = n, row # NoRow,
           n \in Names => n \in Known',
           Known \subseteq Known'
    PROVE  Named' /\ BusyAgrees'
  <1> USE DEF Fine, Named
  <1>1. /\ els'[r] = el /\ rows'[r] = row /\ connections'[n] = r
        /\ \A q \in Elem \ {r} : els'[q] = els[q] /\ rows'[q] = rows[q]
        /\ \A m \in Name \ {n} : connections'[m] = connections[m]
    BY DEF TypeOK
  <1>2. KeyIsName'
    <2> SUFFICES ASSUME NEW m \in Name, connections'[m] # None
                 PROVE  els'[connections'[m]].name = m
      BY DEF KeyIsName
    <2>1. CASE m = n
      BY <1>1, <2>1
    <2>2. CASE m # n
      <3>1. connections'[m] = connections[m] /\ connections[m] \in Elem
        BY <1>1, <2>2 DEF TypeOK
      <3>2. connections[m] # r
        BY DEF Range, TypeOK
      <3> QED BY <1>1, <3>1, <3>2 DEF KeyIsName
    <2> QED BY <2>1, <2>2
  <1>3. RowIsOwn'
    BY <1>1 DEF RowIsOwn
  <1>4. InitFinds'
    <2> SUFFICES ASSUME NEW q \in Elem, rows'[q].init # None
                 PROVE  connections'[rows'[q].init] = q
      BY DEF InitFinds
    <2>1. CASE q = r
      BY <1>1, <2>1
    <2>2. CASE q # r
      <3>1. rows'[q] = rows[q] /\ rows[q].init \in Name /\ connections[rows[q].init] = q
        BY <1>1, <2>2, RowFields DEF InitFinds
      <3>2. rows[q].init # n
        BY <3>1, NamesAssumption
      <3> QED BY <1>1, <3>1, <3>2
    <2> QED BY <2>1, <2>2
  <1>5. RowIsNamed' /\ UnlistedHasNoInit' /\ LocalIsGiven'
    BY <1>1, NamesAssumption DEF RowIsNamed, UnlistedHasNoInit, LocalIsGiven, Listed
  <1>6. NamesDiffer'
    <2> SUFFICES ASSUME NEW p \in Elem, NEW q \in Elem, p # q, Listed(p)'
                 PROVE  rows'[p].name # rows'[q].name
      BY DEF NamesDiffer
    <2>1. p # r => rows'[p] = rows[p] /\ rows[p].name # n /\ Listed(p)
      BY <1>1 DEF Listed
    <2>2. q # r => rows'[q] = rows[q] /\ rows[q].name # n
      BY <1>1
    <2> QED BY <1>1, <2>1, <2>2 DEF NamesDiffer
  <1>7. NewNameIsFree'
    <2> SUFFICES ASSUME NEW q \in Elem, rows'[q].name \in Name, Renamed(q)'
                 PROVE  connections'[rows'[q].name] = None
      BY DEF NewNameIsFree
    <2>1. q # r
      BY <1>1 DEF Renamed
    <2> QED BY <1>1, <2>1 DEF NewNameIsFree, Renamed
  <1>8. NamesAreSaved'
    BY <1>1 DEF NamesAreSaved
  <1>9. BusyAgrees'
    <2>1. Listed(r)'
      BY <1>1 DEF Listed
    <2>2. \A d \in Elem \ {r} : (Listed(d)' <=> Listed(d)) /\ (Busy(d)' <=> Busy(d))
                                 /\ (Live(d)' <=> Live(d))
      BY <1>1 DEF Listed, Busy, Live
    <2> QED BY <1>1, <2>1, <2>2 DEF BusyAgrees
  <1> QED BY <1>2, <1>3, <1>4, <1>5, <1>6, <1>7, <1>8, <1>9

LEMMA FoundKeeps ==
    ASSUME Fine, NEW n \in Local, NEW e \in Elem, LocalConnFound(n, e) PROVE Fine'
  <1> USE DEF Fine, Named
  <1> DEFINE el1 == [NoElem EXCEPT !.name = n]
             el2 == [el1 EXCEPT !.row = e]
             el3 == [el2 EXCEPT !.thread = "opening"]
             el == [el3 EXCEPT !.news = <<"CONNECT">>]
             row == [name |-> n, state |-> "CLOSED", busy |-> TRUE, init |-> n]
  <1>1. /\ search = "searching" /\ dialog = None /\ n \notin found /\ Free(e) /\ n \in Name
        /\ UNCHANGED <<groups, dialog, search, toDelete, forgotten, rash>> /\ found' = found \cup {n}
        /\ connections' = [connections EXCEPT ![n] = e] /\ rows' = [rows EXCEPT ![e] = row]
    BY DEF LocalConnFound, DialogIsCurrent, Name
  <1>2. els' = [els EXCEPT ![e] = el]
    <2>1. [NoElem EXCEPT !.name = n, !.row = e, !.thread = "opening", !.news = <<"CONNECT">>] = el
      OBVIOUS
    <2> QED BY <2>1 DEF LocalConnFound
  <1>3. el \in ElemType /\ el.name = n /\ el.row = e /\ el.thread = "opening"
    <2>1. el1 \in ElemType /\ el1.name = n
      BY <1>1, Nothing DEF ElemType
    <2>2. el2 \in ElemType /\ el2.name = n /\ el2.row = e
      <3> HIDE DEF el1
      <3> QED BY <2>1 DEF ElemType
    <2>3. el3 \in ElemType /\ el3.name = n /\ el3.row = e /\ el3.thread = "opening"
      <3> HIDE DEF el2
      <3> QED BY <2>2 DEF ElemType
    <2>4. <<"CONNECT">> \in Seq(State)
      BY DEF State
    <2> HIDE DEF el3
    <2> QED BY <2>3, <2>4 DEF ElemType
  <1>4. row \in RowType /\ row.name = n /\ row.init = n /\ row # NoRow
    BY <1>1, NamesAssumption DEF RowType, State, NoRow
  <1>5. connections[n] = None
    BY <1>1 DEF SearchIsCurrent
  <1>6. \A q \in Elem \ {e} : rows[q].name # n
    <2> SUFFICES ASSUME NEW q \in Elem, rows[q].name = n PROVE FALSE
      OBVIOUS
    <2>1. rows[q].init = n
      BY DEF LocalIsGiven
    <2>2. connections[n] = q
      BY <1>1, <2>1, NamesAssumption DEF InitFinds
    <2> QED BY <1>5, <2>2, NamesAssumption
  <1>7. e \notin Range(connections) /\ n \notin Names
    BY <1>1, NamesAssumption DEF Free
  <1> HIDE DEF el, row
  <1>8. Named' /\ BusyAgrees'
    <2>1. Known \subseteq Known'
      BY <1>1 DEF Known
    <2> QED BY <1>1, <1>2, <1>3, <1>4, <1>5, <1>6, <1>7, <2>1, Comes
  <1>9. TypeOK'
    <2>1. connections' \in [Name -> Elem \cup {None}] /\ rows' \in [Elem -> RowType]
          /\ els' \in [Elem -> ElemType]
      BY <1>1, <1>2, <1>3, <1>4 DEF TypeOK
    <2> QED BY <1>1, <2>1 DEF TypeOK
  <1>10. DialogIsCurrent'
    BY <1>1 DEF DialogIsCurrent
  <1>11. SearchIsCurrent'
    BY <1>1 DEF SearchIsCurrent, TypeOK, Name
  <1> QED BY <1>8, <1>9, <1>10, <1>11

LEMMA CreationKeeps == ASSUME Fine, NEW r \in Elem, CreateNewConnection(r) PROVE Fine'
  <1> USE DEF Fine, Named
  <1> DEFINE row == [NoRow EXCEPT !.name = Unnamed]
  <1>1. /\ search = "off" /\ dialog = None /\ Free(r)
        /\ \A q \in Elem : rows[q].name # Unnamed
        /\ rows' = [rows EXCEPT ![r] = row] /\ els' = [els EXCEPT ![r] = NoElem]
        /\ UNCHANGED <<connections, groups, search, toDelete, found, forgotten, rash>>
    BY DEF CreateNewConnection, UserActs
  <1>2. row \in RowType /\ row.name = Unnamed /\ row.init = None /\ row # NoRow
    <2>1. row \in RowType /\ row.name = Unnamed /\ row.init = None
      BY Nothing DEF RowType
    <2> HIDE DEF row
    <2> QED BY <2>1, Nothing, NamesAssumption
  <1> HIDE DEF row
  <1>3. PICK b \in BOOLEAN :
          dialog' = [row |-> r, previous |-> Unnamed, name |-> Unnamed, fresh |-> TRUE,
                     newbe |-> b]
    BY DEF CreateNewConnection, Dialog
  <1>4. /\ els'[r] = NoElem /\ rows'[r] = row /\ r \notin Range(connections)
        /\ \A q \in Elem \ {r} : els'[q] = els[q] /\ rows'[q] = rows[q]
    BY <1>1 DEF TypeOK, Free
  <1>5. TypeOK'
    <2>1. rows' \in [Elem -> RowType] /\ els' \in [Elem -> ElemType]
      BY <1>1, <1>2, Nothing DEF TypeOK
    <2>2. dialog' \in DialogType
      BY <1>3 DEF DialogType
    <2> QED BY <1>1, <2>1, <2>2 DEF TypeOK
  <1>6. KeyIsName'
    <2> SUFFICES ASSUME NEW m \in Name, connections[m] # None
                 PROVE  els'[connections[m]].name = m
      BY <1>1 DEF KeyIsName
    <2>1. connections[m] \in Elem /\ connections[m] # r
      BY <1>4 DEF Range, TypeOK
    <2> QED BY <1>4, <2>1 DEF KeyIsName
  <1>7. RowIsOwn'
    BY <1>4 DEF RowIsOwn
  <1>8. InitFinds' /\ UnlistedHasNoInit'
    BY <1>1, <1>2, <1>4 DEF InitFinds, UnlistedHasNoInit
  <1>9. RowIsNamed' /\ NamesDiffer'
    BY <1>1, <1>2, <1>4, NamesAssumption DEF RowIsNamed, NamesDiffer, Listed
  <1>10. NewNameIsFree' /\ LocalIsGiven' /\ NamesAreSaved'
    BY <1>1, <1>2, <1>4, NamesAssumption
       DEF NewNameIsFree, LocalIsGiven, NamesAreSaved, Renamed, Name, Known
  <1>11. BusyAgrees'
    <2>1. ~Busy(r)' /\ ~Live(r)' /\ els'[r].thread # "open"
      BY <1>4, Nothing DEF Busy, Live
    <2>2. \A d \in Elem \ {r} : (Listed(d)' <=> Listed(d)) /\ (Busy(d)' <=> Busy(d))
                                 /\ (Live(d)' <=> Live(d))
      BY <1>4 DEF Listed, Busy, Live
    <2> QED BY <1>4, <2>1, <2>2 DEF BusyAgrees
  <1>12. DialogIsCurrent'
    <2>1. Unnamed \notin groups
      BY NamesAssumption DEF TypeOK
    <2> QED BY <1>1, <1>2, <1>3, <1>4, <2>1 DEF DialogIsCurrent, Listed
  <1>13. SearchIsCurrent'
    BY <1>1 DEF SearchIsCurrent
  <1> QED BY <1>5, <1>6, <1>7, <1>8, <1>9, <1>10, <1>11, <1>12, <1>13

\* A refused name is remembered by the dialog, and by nobody else.
LEMMA RefuseKeeps == ASSUME Fine, dialog # None, NEW n \in Typed, RefuseName(n) PROVE Fine'
  <1> USE DEF Fine
  <1>1. /\ UNCHANGED <<connections, rows, els, groups, search, toDelete, found, forgotten, rash>>
        /\ dialog' = [dialog EXCEPT !.name = n] /\ dialog \in DialogType
    BY DEF RefuseName, TypeOK
  <1>2. n \in Name \cup {Unnamed, Empty}
    BY DEF Typed, Name
  <1>3. /\ dialog' \in DialogType
        /\ dialog'.row = dialog.row /\ dialog'.previous = dialog.previous
        /\ dialog'.fresh = dialog.fresh /\ dialog'.newbe = dialog.newbe
    BY <1>1, <1>2 DEF DialogType
  <1>4. TypeOK'
    BY <1>1, <1>3 DEF TypeOK
  <1>5. Named'
    BY <1>1, SameNames DEF TypeOK, Known
  <1>6. BusyAgrees'
    BY <1>1 DEF BusyAgrees, Busy, Live, Listed
  <1>7. DialogIsCurrent' /\ SearchIsCurrent'
    BY <1>1, <1>3 DEF DialogIsCurrent, SearchIsCurrent, Listed
  <1> QED BY <1>4, <1>5, <1>6, <1>7

\* A row that is listed gets a name: its own, or one that no other row has and under
\* which nobody is found; then its element rests.
LEMMA RenamedIs ==
    ASSUME Fine, NEW r \in Elem, NEW n \in Name,
           Listed(r), UNCHANGED <<connections, els>>,
           rows' = [rows EXCEPT ![r].name = n],
           \/ n = rows[r].name
           \/ /\ n \in Names /\ ~InUse(At(rows[r].init))
              /\ connections[n] \in {None, At(rows[r].init)},
           \A q \in Elem \ {r} : rows[q].name # n,
           n \in Known', Known \ {rows[r].name} \subseteq Known'
    PROVE  Named' /\ BusyAgrees' /\ rows' \in [Elem -> RowType]
  <1> USE DEF Fine, Named
  <1> DEFINE row == [rows[r] EXCEPT !.name = n]
  <1>1. row \in RowType /\ row.name = n /\ row.init = rows[r].init /\ row.state = rows[r].state
    BY DEF TypeOK, RowType
  <1>2. row # NoRow
    <2> HIDE DEF row
    <2> QED BY <1>1, Nothing, NamesAssumption
  <1>3. rows' = [rows EXCEPT ![r] = row]
    OBVIOUS
  <1> HIDE DEF row
  <1>4. /\ rows'[r] = row /\ rows' \in [Elem -> RowType]
        /\ \A q \in Elem \ {r} : rows'[q] = rows[q] /\ rows[q].name # rows[r].name
    BY <1>1, <1>3 DEF TypeOK, NamesDiffer
  <1>5. \A q \in Elem \ {r} : rows[q].name # n
    OBVIOUS
  <1>6. At(rows[r].init) # None => At(rows[r].init) = r /\ els[r].name = rows[r].init
    BY FoundIs
  <1>7. KeyIsName' /\ RowIsOwn'
    BY DEF KeyIsName, RowIsOwn
  <1>8. InitFinds' /\ UnlistedHasNoInit'
    BY <1>1, <1>4, NamesAssumption DEF InitFinds, UnlistedHasNoInit
  <1>9. \A q \in Elem : Listed(q)' <=> Listed(q)
    BY <1>2, <1>4 DEF Listed
  <1>10. RowIsNamed' /\ NamesDiffer'
    <2>1. RowIsNamed'
      BY <1>1, <1>4, <1>9, NamesAssumption DEF RowIsNamed
    <2>2. NamesDiffer'
      BY <1>1, <1>4, <1>5, <1>9 DEF NamesDiffer
    <2> QED BY <2>1, <2>2
  <1>11. NewNameIsFree'
    <2> SUFFICES ASSUME NEW q \in Elem, rows'[q].name \in Name, Renamed(q)'
                 PROVE  connections[rows'[q].name] = None
      BY DEF NewNameIsFree
    <2>1. CASE q # r
      BY <1>4, <2>1 DEF NewNameIsFree, Renamed
    <2>2. CASE q = r
      <3>1. rows[r].init # n /\ rows'[r].name = n
        BY <1>1, <1>4, <2>2 DEF Renamed
      <3>2. CASE n = rows[r].name
        BY <2>2, <3>1, <3>2 DEF NewNameIsFree, Renamed
      <3>3. CASE connections[n] = None
        BY <2>2, <3>1, <3>3
      <3>4. CASE connections[n] = At(rows[r].init) /\ connections[n] # None
        <4>1. els[connections[n]].name = n /\ connections[n] = r
          BY <1>6, <3>4 DEF KeyIsName
        <4> QED BY <1>6, <3>1, <3>4, <4>1
      <3> QED BY <3>2, <3>3, <3>4
    <2> QED BY <2>1, <2>2
  <1>12. LocalIsGiven'
    BY <1>1, <1>4, NamesAssumption DEF LocalIsGiven
  <1>13. NamesAreSaved'
    BY <1>1, <1>4 DEF NamesAreSaved
  <1>14. BusyAgrees'
    <2>1. ASSUME Busy(r) PROVE n = rows[r].name
      <3>1. els[r].name \in Name /\ rows[r].init = els[r].name
        BY <2>1, Nothing DEF RowIsOwn, Busy, BusyAgrees
      <3>2. At(rows[r].init) = r
        BY <3>1, NamesAssumption DEF At, InitFinds
      <3>3. InUse(At(rows[r].init))
        BY <2>1, <3>2, NamesAssumption DEF InUse, Busy
      <3> QED BY <3>3
    <2>2. \A d \in Elem : (Busy(d)' <=> Busy(d)) /\ (Live(d)' <=> Live(d))
      BY DEF Busy, Live
    <2> QED BY <1>1, <1>4, <1>9, <2>1, <2>2 DEF BusyAgrees
  <1> QED BY <1>4, <1>7, <1>8, <1>10, <1>11, <1>12, <1>13, <1>14

LEMMA SaveKeeps ==
    ASSUME Fine, NEW n \in Typed, SaveConnection(n), ~rash' PROVE Fine'
  <1> DEFINE r == dialog.row
             own == At(rows[r].init)
  <1>1. /\ dialog # None /\ dialog' = None /\ UNCHANGED <<search, toDelete, found>>
        /\ Accepts(n) /\ groups' = Saved(n)
        /\ n # dialog.previous => ~InUse(own)
        /\ connections[n] \in {None, own}
        /\ \A q \in Elem \ {r} : rows[q].name # n
        /\ forgotten' = forgotten \ {n}
        /\ rash' \in BOOLEAN
    BY DEF SaveConnection
  <1>2. /\ r \in Elem /\ Listed(r) /\ rows[r].name = dialog.previous /\ search = "off"
        /\ dialog.previous \in Name \cup {Unnamed}
    BY <1>1 DEF Fine, DialogIsCurrent, TypeOK, DialogType
  <1>3. n \in Name /\ (n \in Names \/ n = dialog.previous)
    BY <1>1 DEF Typed, Name, Accepts
  <1>4. /\ groups' \subseteq Name /\ forgotten' \subseteq Name
        /\ n \in Known' /\ Known \ {dialog.previous} \subseteq Known'
        /\ dialog.previous = Unnamed => Known \subseteq Known'
    BY <1>1, <1>3, NamesAssumption DEF Saved, Accepts, Fine, TypeOK, Known
  <1>5. DialogIsCurrent' /\ SearchIsCurrent'
    BY <1>1, <1>2 DEF DialogIsCurrent, SearchIsCurrent
  <1>6. CASE dialog.fresh
    <2>1. /\ dialog.previous = Unnamed /\ els[r] = NoElem /\ r \notin Range(connections)
      BY <1>1, <1>6 DEF Fine, DialogIsCurrent
    <2>2. n \in Names
      BY <1>3, <2>1, NamesAssumption
    <2>3. connections[n] = None
      <3>1. rows[r].init = None
        BY <1>2, <2>1 DEF Fine, Named, UnlistedHasNoInit
      <3>2. own = None
        BY <3>1, NamesAssumption DEF At
      <3> QED BY <1>1, <3>2
    <2>4. \A q \in Elem \ {r} : rows[q].name # n
      BY <1>1
    <2>5. PICK atStart \in BOOLEAN :
            /\ els' = [els EXCEPT ![r] = Referred(NoElem, r, n, atStart)]
            /\ rows' = [rows EXCEPT ![r] = ReferredRow(n, atStart)]
      BY <1>6 DEF SaveConnection
    <2>6. connections' = [connections EXCEPT ![n] = r]
      BY <1>6 DEF SaveConnection
    <2>7. PICK el \in ElemType : /\ el = Referred(NoElem, r, n, atStart)
                                 /\ el.name = n /\ el.row = r /\ el.thread # "open"
      BY <1>2, <1>3, Nothing, ReferredIs DEF Opens
    <2>8. PICK row \in RowType : /\ row = ReferredRow(n, atStart)
                                 /\ row.name = n /\ row.init = n /\ row # NoRow
      BY <1>3, ReferredRowIs
    <2>9. Named' /\ BusyAgrees'
      BY <1>2, <1>3, <1>4, <2>1, <2>3, <2>4, <2>5, <2>6, <2>7, <2>8, Comes
    <2>10. TypeOK'
      <3>1. connections' \in [Name -> Elem \cup {None}] /\ rows' \in [Elem -> RowType]
            /\ els' \in [Elem -> ElemType]
        BY <1>2, <1>3, <2>5, <2>6, <2>7, <2>8 DEF Fine, TypeOK
      <3> QED BY <1>1, <1>4, <3>1 DEF Fine, TypeOK
    <2> QED BY <1>5, <2>9, <2>10 DEF Fine
  <1>7. CASE ~dialog.fresh
    <2>1. rows' = [rows EXCEPT ![r].name = n] /\ UNCHANGED <<connections, els>>
      BY <1>7 DEF SaveConnection
    <2>2. Named' /\ BusyAgrees' /\ rows' \in [Elem -> RowType]
      BY <1>1, <1>2, <1>3, <1>4, <2>1, RenamedIs
    <2>3. TypeOK'
      BY <1>1, <1>4, <2>1, <2>2 DEF Fine, TypeOK
    <2> QED BY <1>5, <2>2, <2>3 DEF Fine
  <1> QED BY <1>6, <1>7

----------------------------------------------------------------------------
(* The first state, and every step.                                        *)

LEMMA FineAtStart == Init => Fine
  <1> SUFFICES ASSUME Init PROVE Fine
    OBVIOUS
  <1> USE Nothing, NamesAssumption
  <1>1. PICK id \in Injection(groups, Elem) : \E started \in SUBSET groups :
         LET Named2(e) == CHOOSE n \in groups : id[n] = e
             Is(e)    == e \in Range(id)
         IN  /\ connections = [n \in Name |-> IF n \in groups THEN id[n] ELSE None]
             /\ rows = [e \in Elem |-> IF Is(e) THEN ReferredRow(Named2(e), Named2(e) \in started)
                                                ELSE NoRow]
             /\ els = [e \in Elem |-> IF Is(e)
                                      THEN Referred(NoElem, e, Named2(e), Named2(e) \in started)
                                      ELSE NoElem]
    BY DEF Init
  <1> DEFINE Of(e) == CHOOSE n \in groups : id[n] = e
  <1>2. PICK started \in SUBSET groups :
          /\ connections = [n \in Name |-> IF n \in groups THEN id[n] ELSE None]
          /\ rows = [e \in Elem |-> IF e \in Range(id) THEN ReferredRow(Of(e), Of(e) \in started)
                                                       ELSE NoRow]
          /\ els = [e \in Elem |-> IF e \in Range(id)
                                   THEN Referred(NoElem, e, Of(e), Of(e) \in started)
                                   ELSE NoElem]
    BY <1>1
  <1>3. /\ id \in [groups -> Elem] /\ groups \subseteq Names
        /\ \A m, n \in groups : id[m] = id[n] => m = n
        /\ dialog = None /\ search = "waiting" /\ toDelete = {} /\ found = {}
        /\ forgotten = {} /\ rash = FALSE
    BY <1>1 DEF Init, Injection, IsInjective
  <1>4. \A e \in Range(id) : e \in Elem /\ Of(e) \in groups /\ id[Of(e)] = e
    BY <1>3 DEF Range
  <1>5. \A n \in groups : id[n] \in Range(id) /\ Of(id[n]) = n
    BY <1>3, <1>4 DEF Range
  <1> HIDE DEF Of
  <1>6. groups \subseteq Name /\ None \notin groups /\ Unnamed \notin groups
        /\ groups \cap Local = {}
    BY <1>3 DEF Name
  <1>0. ASSUME NEW e \in Range(id)
        PROVE  \E b \in BOOLEAN : /\ rows[e] = ReferredRow(Of(e), b)
                                  /\ els[e] = Referred(NoElem, e, Of(e), b)
    <2>1. /\ rows[e] = ReferredRow(Of(e), Of(e) \in started)
          /\ els[e] = Referred(NoElem, e, Of(e), Of(e) \in started)
      BY <1>2, <1>4
    <2>2. (Of(e) \in started) = TRUE \/ (Of(e) \in started) = FALSE
      OBVIOUS
    <2> QED BY <2>1, <2>2, Zenon
  <1>7. /\ \A e \in Elem \ Range(id) : rows[e] = NoRow /\ els[e] = NoElem
        /\ \A e \in Range(id) : /\ rows[e] \in RowType /\ rows[e] # NoRow
                                /\ rows[e].name = Of(e) /\ rows[e].init = Of(e)
    <2>1. \A e \in Elem \ Range(id) : rows[e] = NoRow /\ els[e] = NoElem
      BY <1>2
    <2> QED BY <1>0, <1>4, <1>6, <2>1, ReferredRowIs
  <1>8. \A e \in Range(id) : /\ els[e] \in ElemType
                             /\ els[e].name = Of(e) /\ els[e].row = e
                             /\ els[e].thread # "open"
    <2> SUFFICES ASSUME NEW e \in Range(id)
                 PROVE  /\ els[e] \in ElemType
                        /\ els[e].name = Of(e) /\ els[e].row = e
                        /\ els[e].thread # "open"
      OBVIOUS
    <2>1. PICK n \in Name : n = Of(e)
      BY <1>4, <1>6
    <2>2. PICK b \in BOOLEAN : els[e] = Referred(NoElem, e, n, b)
      BY <1>0, <2>1
    <2> QED BY <1>4, <2>1, <2>2, ReferredIs DEF Opens
  <1>9. \A n \in Name : connections[n] = IF n \in groups THEN id[n] ELSE None
    BY <1>2
  <1>10. TypeOK
    <2>1. connections \in [Name -> Elem \cup {None}]
      BY <1>2, <1>3
    <2>2. rows \in [Elem -> RowType] /\ els \in [Elem -> ElemType]
      <3>1. DOMAIN rows = Elem /\ rows = [e \in Elem |-> rows[e]]
        BY <1>2
      <3>2. DOMAIN els = Elem /\ els = [e \in Elem |-> els[e]]
        BY <1>2
      <3>3. \A e \in Elem : rows[e] \in RowType /\ els[e] \in ElemType
        BY <1>7, <1>8
      <3>4. rows \in [Elem -> RowType]
        BY <3>1, <3>3
      <3>5. els \in [Elem -> ElemType]
        BY <3>2, <3>3
      <3> QED BY <3>4, <3>5
    <2> QED BY <1>3, <1>6, <2>1, <2>2 DEF TypeOK
  <1>11. KeyIsName /\ RowIsOwn
    <2>1. KeyIsName
      BY <1>3, <1>5, <1>8, <1>9 DEF KeyIsName
    <2>2. RowIsOwn
      BY <1>4, <1>6, <1>7, <1>8 DEF RowIsOwn
    <2> QED BY <2>1, <2>2
  <1>12. InitFinds /\ NewNameIsFree
    <2>1. InitFinds
      BY <1>4, <1>6, <1>7, <1>9 DEF InitFinds
    <2>2. NewNameIsFree
      BY <1>7 DEF NewNameIsFree, Renamed
    <2> QED BY <2>1, <2>2
  <1>13. RowIsNamed /\ UnlistedHasNoInit /\ NamesDiffer
    <2>1. RowIsNamed /\ UnlistedHasNoInit
      BY <1>4, <1>6, <1>7 DEF RowIsNamed, UnlistedHasNoInit, Listed
    <2>2. NamesDiffer
      BY <1>4, <1>6, <1>7 DEF NamesDiffer, Listed
    <2> QED BY <2>1, <2>2
  <1>14. LocalIsGiven /\ NamesAreSaved
    BY <1>4, <1>7 DEF LocalIsGiven, NamesAreSaved, Name, Known
  <1>15. BusyAgrees
    <2> SUFFICES ASSUME NEW d \in Elem
                 PROVE  /\ Busy(d) /\ Listed(d) =>
                             rows[d].name = els[d].name /\ rows[d].init = els[d].name
                        /\ Live(d) => Listed(d)
                        /\ els[d].thread # "open"
      BY DEF BusyAgrees
    <2>1. CASE d \in Range(id)
      BY <1>7, <1>8, <2>1 DEF Listed
    <2>2. CASE d \notin Range(id)
      BY <1>7, <2>2 DEF Busy, Live
    <2> QED BY <2>1, <2>2
  <1>16. DialogIsCurrent /\ SearchIsCurrent
    BY <1>3 DEF DialogIsCurrent, SearchIsCurrent
  <1> QED BY <1>10, <1>11, <1>12, <1>13, <1>14, <1>15, <1>16 DEF Fine, Named

LEMMA RashStays == ASSUME rash, [Next]_vars PROVE rash'
  BY DEF Next, vars, Thread, OpenSucceeds, OpenFails, LeaveLoop, RemoteClose, Go, Deliver, UserStep,
         Click, DoubleClick, DeleteCurrentConnection, CreateNewConnection, EditCurrentConnection,
         SaveConnection, RefuseName, CancelConnection, RefreshLocalhost, Searching, WaitLooks, WaitRemoves,
         SearchComplete, LocalConnFound

LEMMA StepIsFine == ASSUME Fine, [Next]_vars, ~rash' PROVE Fine'
  <1>1. CASE UNCHANGED vars
    BY <1>1 DEF vars, Fine, TypeOK, Named, KeyIsName, RowIsOwn, InitFinds, RowIsNamed,
                UnlistedHasNoInit, NamesDiffer, NewNameIsFree, LocalIsGiven, NamesAreSaved, Known,
                BusyAgrees, DialogIsCurrent, SearchIsCurrent, Live, Busy, Listed, Renamed
  <1>2. ASSUME NEW e \in Elem, Thread(e) \/ RemoteClose(e) \/ Deliver(e) PROVE Fine'
    BY <1>2, ThreadKeeps, DeliverKeeps
  <1>3. CASE UserStep
    <2>1. ASSUME NEW r \in Elem,
                 \/ Click(r) \/ DoubleClick(r) \/ DeleteCurrentConnection(r)
                 \/ CreateNewConnection(r) \/ EditCurrentConnection(r)
          PROVE  Fine'
      BY <2>1, ClickKeeps, DoubleClickKeeps, DeletionKeeps, CreationKeeps, EditKeeps
    <2>2. ASSUME dialog # None, NEW n \in Typed, SaveConnection(n) \/ RefuseName(n)
          PROVE  Fine'
      BY <2>2, SaveKeeps, RefuseKeeps
    <2>3. CASE CancelConnection \/ RefreshLocalhost
      BY <2>3, CancelKeeps, RefreshKeeps
    <2> QED BY <1>3, <2>1, <2>2, <2>3 DEF UserStep
  <1>4. CASE Searching
    <2>1. CASE WaitLooks \/ WaitRemoves \/ SearchComplete
      BY <2>1, LooksKeeps, RemovesKeeps, CompleteKeeps
    <2>2. ASSUME NEW n \in Local, NEW e \in Elem, LocalConnFound(n, e) PROVE Fine'
      BY <2>2, FoundKeeps
    <2> QED BY <1>4, <2>1, <2>2 DEF Searching
  <1> QED BY <1>1, <1>2, <1>3, <1>4 DEF Next

\* As long as no name is changed or taken while it is in use, the names of rows,
\* elements, map and settings agree after every step.
THEOREM NamesAgree == Spec => []NamesInv
  <1>1. Init => NamesInv
    BY FineAtStart DEF NamesInv
  <1>2. NamesInv /\ [Next]_vars => NamesInv'
    BY StepIsFine, RashStays DEF NamesInv
  <1> QED BY <1>1, <1>2, PTL DEF Spec

\* A connection whose thread holds libvirt's handle can be closed by the user:
\* its row is in the list, reads RUNNING, and connItemDoubleClicked finds its
\* ConnElement under the row's initName.
THEOREM LiveIsInHand == Spec => []LiveConnectionIsInHand
  <1>1. NamesInv => LiveConnectionIsInHand
    <2> SUFFICES ASSUME Fine, NEW e \in Elem, els[e].thread = "open", els[e].news = <<>>
                 PROVE  InHand(e)
      BY DEF NamesInv, LiveConnectionIsInHand
    <2>1. els[e].name \in Name /\ els[e].row = e /\ Busy(e)
      BY Nothing DEF Fine, Named, RowIsOwn, Busy
    <2>2. Listed(e) /\ rows[e].state = "RUNNING" /\ rows[e].init = els[e].name
      BY <2>1 DEF Fine, BusyAgrees, Live
    <2>3. connections[rows[e].init] = e
      BY <2>1, <2>2, NamesAssumption DEF Fine, Named, InitFinds
    <2> QED BY <2>1, <2>2, <2>3 DEF InHand, At, Listed
  <1> QED BY <1>1, NamesAgree, PTL

\* Each row that the user has named is listed again at the next start: saveConnection
\* and deleteCurrentConnection leave a settings group of every such name, and
\* cancelConnection takes only those it was refused.
THEOREM ListIsSaved == Spec => []ListedIsSaved
  <1>1. NamesInv => ListedIsSaved
    BY DEF NamesInv, Fine, Named, NamesAreSaved, ListedIsSaved, Known
  <1> QED BY <1>1, NamesAgree, PTL
=============================================================================
