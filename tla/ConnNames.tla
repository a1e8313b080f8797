------------------------------- MODULE ConnNames -------------------------------
(***************************************************************************)
(* Who is found under which name: the map `connections` of ConnectionList, *)
(* the rows of its model, the settings group of each connection, the       *)
(* dialog that edits them (ConnSettings) and the search for local          *)
(* hypervisors (WaitLocalConn, SearchThread), which removes connections by *)
(* name and creates others with the same names again.                      *)
(*                                                                         *)
(* A connection has up to four names that may differ: the one of its row,  *)
(* the row's initName, the one of its ConnElement, and its key in the map. *)
(* What ConnLifecycle says of threads and views is kept short here; of a    *)
(* settings group only its name: whether it says AtStart is a choice.      *)
(***************************************************************************)
EXTENDS Integers, Sequences, FiniteSets, Functions

CONSTANTS
    Elem,      \* rows and ConnElements ever made, a row and its first element alike
    None,
    Names,     \* what the user calls connections
    Local,     \* {Local<n>_<DRIVER>}
    Budget     \* bound: dialogs opened and searches ordered in a run

Name == Names \cup Local
Unnamed == "<noname>"
Empty == ""

ASSUME NamesAssumption ==
    /\ None \notin Elem \cup Name
    /\ Unnamed \notin Name \cup {None} /\ Empty \notin Name \cup {None}
    /\ Names \cap Local = {}

VARIABLES
    connections,  \* CONN_LIST: the element of each name, or None
    rows,         \* connItemDataList
    els,          \* the ConnElements, each with its ConnAliveThread
    groups,       \* names that have a group in the settings
    dialog,       \* the ConnSettings that is open, or None
    search,       \* "off", or what WaitLocalConn and SearchThread do
    toDelete,     \* to_Delete of WaitLocalConn
    found,        \* local names given in this search
    spent,        \* of the Budget
    forgotten,    \* history: names whose group the Cancel of another row's dialog took
    rash          \* history: a name was changed or taken while in use

vars == <<connections, rows, els, groups, dialog, search, toDelete, found, spent, forgotten,
          rash>>

NoRow == [name |-> None, state |-> "CLOSED", busy |-> FALSE, init |-> None]
NoElem == [name |-> None, says |-> "CLOSED", row |-> None, thread |-> "idle", news |-> <<>>]

At(name) == IF name \in Name THEN connections[name] ELSE None

\* An identity that nobody holds any more, for a row and an element to come.
Free(r) ==
    /\ rows[r] = NoRow
    /\ els[r].thread = "idle" /\ els[r].news = <<>>
    /\ r \notin Range(connections)
    /\ \A e \in Elem \ {r} : els[e].row # r

\* A thread that does not run is started, and says so first of all.
Opens(el) == IF el.thread = "idle" THEN "opening" ELSE el.thread
Opening(el) == IF el.thread = "idle" THEN <<"CONNECT">> ELSE el.news

\* ConnElement::setItemReference: what element and row say from now on.
Referred(el, r, name, atStart) ==
    [el EXCEPT !.name = name, !.row = r, !.says = "CLOSED",
               !.thread = IF atStart THEN Opens(el) ELSE @,
               !.news = IF atStart THEN Opening(el) ELSE @]
ReferredRow(name, atStart) ==
    [name |-> name, state |-> "CLOSED", busy |-> atStart, init |-> name]

\* MainWindow::initConnections: each saved connection has a row and an element,
\* and the search begins.
Init ==
    /\ groups \in SUBSET Names
    /\ \E id \in Injection(groups, Elem) : \E started \in SUBSET groups :
         LET Named(e) == CHOOSE n \in groups : id[n] = e
             Is(e)    == e \in Range(id)
         IN  /\ connections = [n \in Name |-> IF n \in groups THEN id[n] ELSE None]
             /\ rows = [e \in Elem |-> IF Is(e) THEN ReferredRow(Named(e), Named(e) \in started)
                                                ELSE NoRow]
             /\ els = [e \in Elem |-> IF Is(e)
                                      THEN Referred(NoElem, e, Named(e), Named(e) \in started)
                                      ELSE NoElem]
    /\ dialog = None
    /\ search = "waiting" /\ toDelete = {} /\ found = {}
    /\ spent = 0
    /\ forgotten = {} /\ rash = FALSE

----------------------------------------------------------------------------
(* The threads of the connections, and what they post.                     *)

Post(e, state) == [els[e] EXCEPT !.news = Append(@, state)]

Go(e, from, to, el) ==
    /\ els[e].thread = from
    /\ els' = [els EXCEPT ![e] = [el EXCEPT !.thread = to]]
    /\ UNCHANGED <<connections, rows, groups, dialog, search, toDelete, found, spent, forgotten,
                   rash>>

OpenSucceeds(e) == Go(e, "opening", "open", Post(e, "RUNNING"))
OpenFails(e)    == Go(e, "opening", "leaving", Post(e, "FAILED"))
RemoteClose(e)  == Go(e, "open", "leaving", els[e])
LeaveLoop(e)    == Go(e, "leaving", "idle", Post(e, "CLOSED"))

\* ConnElement::setConnectionState: the row gets the state, and the name that
\* the element has.  A row that is not listed is found by nobody.
SetConnectionState(el, R, state) ==
    IF el.row = None \/ R[el.row] = NoRow THEN R
    ELSE [R EXCEPT ![el.row] = [name |-> el.name, state |-> state,
                                busy |-> FALSE, init |-> el.name]]

\* An element that rests, and that nobody finds, is of no more interest.
Kept(E, C) == [e \in Elem |-> IF E[e].thread = "idle" /\ E[e].news = <<>> /\ e \notin Range(C)
                              THEN NoElem ELSE E[e]]

Deliver(e) ==
    /\ els[e].news # <<>>
    /\ els' = Kept([els EXCEPT ![e].news = Tail(@), ![e].says = Head(els[e].news)],
                   connections)
    /\ rows' = SetConnectionState(els[e], rows, Head(els[e].news))
    /\ UNCHANGED <<connections, groups, dialog, search, toDelete, found, spent, forgotten, rash>>

----------------------------------------------------------------------------
(* The user, who reaches list, toolbar and menu unless a dialog or the      *)
(* search is in the way.                                                   *)

Spend == spent < Budget /\ spent' = spent + 1
UserActs == search = "off" /\ dialog = None

\* ConnElement::openConnection.
OpenConnection(e, E, R) ==
    LET r == E[e].row IN
    /\ els' = [E EXCEPT ![e].thread = Opens(E[e]), ![e].news = Opening(E[e])]
    /\ rows' = IF R[r] = NoRow THEN R
               ELSE [R EXCEPT ![r].busy = TRUE, ![r].state = E[e].says, ![r].init = E[e].name]

\* ConnElement::closeConnection in the GUI thread.
CloseConnection(e, E, R) ==
    CASE E[e].thread = "idle" -> els' = E /\ rows' = R
      [] E[e].thread = "open" ->
            /\ els' = [E EXCEPT ![e].thread = "leaving", ![e].says = "CLOSED"]
            /\ rows' = SetConnectionState(E[e], R, "CLOSED")
      [] OTHER ->
            /\ els' = [E EXCEPT ![e].says = "FAILED"]
            /\ rows' = SetConnectionState(E[e], R, "FAILED")

\* A row whose name is not its initName: its element gets the name when the row
\* is clicked, and starts from the beginning.
Renamed(r) == rows[r].init # rows[r].name
Rekeyed(r, e, atStart) ==
    IF Renamed(r) THEN [els EXCEPT ![e] = Referred(@, r, rows[r].name, atStart)] ELSE els
RekeyedRows(r, atStart) ==
    IF Renamed(r) THEN [rows EXCEPT ![r] = ReferredRow(rows[r].name, atStart)] ELSE rows

\* Mutant: the element is not put under its new name.
RekeyNothing(r, e) == connections' = connections

Rekey(r, e) ==
    connections' = IF Renamed(r)
                   THEN [connections EXCEPT ![rows[r].name] = e, ![rows[r].init] = None]
                   ELSE connections

\* connItemClicked: what it shows is not of interest here.  (Bound, here and
\* below: a thread is started when the events of its last run are delivered.)
Click(r) ==
    LET e == At(rows[r].init) IN
    /\ UserActs
    /\ e # None /\ Renamed(r)
    /\ els[e].news = <<>>
    /\ Rekey(r, e)
    /\ \E atStart \in BOOLEAN :
         els' = Rekeyed(r, e, atStart) /\ rows' = RekeyedRows(r, atStart)
    /\ UNCHANGED <<groups, dialog, search, toDelete, found, spent, forgotten, rash>>

\* connItemDoubleClicked, by mouse, menu or toolbar.  What the row said before it
\* was renamed decides.
DoubleClick(r) ==
    LET e == At(rows[r].init) IN
    /\ UserActs
    /\ e # None /\ ~rows[r].busy
    /\ els[e].news = <<>>
    /\ Rekey(r, e)
    /\ \E atStart \in BOOLEAN :
         IF rows[r].state = "RUNNING"
         THEN CloseConnection(e, Rekeyed(r, e, atStart), RekeyedRows(r, atStart))
         ELSE OpenConnection(e, Rekeyed(r, e, atStart), RekeyedRows(r, atStart))
    /\ UNCHANGED <<groups, dialog, search, toDelete, found, spent, forgotten, rash>>

\* deleteCurrentConnection: the element is looked up by the name of the row.
\* (Bound: deleting one whose thread runs ends the program, see ConnLifecycle.)
Deletable(r) == ~rows[r].busy /\ ~(At(rows[r].name) # None /\ rows[r].state = "RUNNING")
Delete(r, kept) ==
    LET n == rows[r].name
        e == At(n)
    IN  /\ e # None => els[e].thread = "idle"
        /\ rows' = [rows EXCEPT ![r] = NoRow]
        /\ IF e # None
           THEN /\ connections' = [connections EXCEPT ![n] = None]
                /\ els' = [els EXCEPT ![e] = NoElem]
                /\ groups' = kept \ {n}
           ELSE groups' = kept /\ UNCHANGED <<connections, els>>

DeleteCurrentConnection(r) ==
    /\ UserActs
    /\ rows[r] # NoRow /\ Deletable(r)
    /\ Delete(r, groups)
    /\ UNCHANGED <<dialog, search, toDelete, found, spent, forgotten, rash>>

----------------------------------------------------------------------------
(* The dialog.                                                             *)

\* ConnSettings::setConnectItem.  A name that has no group is taken for new, as
\* the constructor takes the one that is not given yet.
Dialog(r, name, fresh) ==
    [row |-> r, previous |-> name, name |-> name, fresh |-> fresh, newbe |-> name \notin groups]

\* createNewConnection: nothing, if a row without a name is left from before.
CreateNewConnection(r) ==
    /\ UserActs
    /\ \A q \in Elem : rows[q].name # Unnamed
    /\ Free(r)
    /\ rows' = [rows EXCEPT ![r] = [NoRow EXCEPT !.name = Unnamed]]
    /\ els' = [els EXCEPT ![r] = NoElem]
    /\ dialog' = Dialog(r, Unnamed, TRUE)
    /\ Spend
    /\ UNCHANGED <<connections, groups, search, toDelete, found, forgotten, rash>>

EditCurrentConnection(r) ==
    /\ UserActs
    /\ rows[r] # NoRow
    /\ dialog' = Dialog(r, rows[r].name, FALSE)
    /\ Spend
    /\ UNCHANGED <<connections, rows, els, groups, search, toDelete, found, forgotten, rash>>

\* saveConnection refuses no name, and one that has a group, unless it is its own.
Accepts(name) ==
    /\ name # Empty
    /\ name \in groups => ~dialog.newbe /\ name = dialog.previous

\* The name that is refused is the dialog's from now on.
RefuseName(name) ==
    /\ dialog # None
    /\ ~Accepts(name)
    /\ dialog' = [dialog EXCEPT !.name = name]
    /\ UNCHANGED <<connections, rows, els, groups, search, toDelete, found, spent, forgotten,
                   rash>>

\* Mutant: the previous group is removed after the new one was written.
SavedThenRemoved(name) ==
    (groups \cup {name}) \ (IF dialog.newbe THEN {} ELSE {dialog.previous})

\* A rename removes the group of the previous name.
Saved(name) ==
    {name} \cup (IF name \notin groups /\ ~dialog.newbe THEN groups \ {dialog.previous} ELSE groups)

InUse(e) == e # None /\ (els[e].thread # "idle" \/ els[e].news # <<>>)

\* saveConnection, and what addConnItem does after it for a new connection:
\* createConnection.  What connItemEditAction does for another changes its URI.
SaveConnection(name) ==
    LET r   == dialog.row
        e   == connections[name]
        own == At(rows[r].init)
    IN  /\ dialog # None
        /\ Accepts(name)
        /\ groups' = Saved(name)
        /\ IF dialog.fresh
           THEN /\ connections' = [connections EXCEPT ![name] = r]
                /\ \E atStart \in BOOLEAN :
                     /\ els' = [els EXCEPT ![r] = Referred(NoElem, r, name, atStart)]
                     /\ rows' = [rows EXCEPT ![r] = ReferredRow(name, atStart)]
           ELSE /\ rows' = [rows EXCEPT ![r].name = name]
                /\ UNCHANGED <<connections, els>>
        /\ rash' = \/ rash
                   \/ name # dialog.previous /\ InUse(own)
                   \/ e \notin {None, own}
                   \/ \E q \in Elem \ {r} : rows[q].name = name
        /\ forgotten' = forgotten \ {name}
        /\ dialog' = None
        /\ UNCHANGED <<search, toDelete, found, spent>>

\* cancelConnection: of what is taken for new the group goes, which is that of
\* the name refused last, and the row as far as deleteCurrentConnection does it.
Taken == IF dialog.newbe THEN {dialog.name} ELSE {}
CancelConnection ==
    LET r == dialog.row IN
        /\ dialog # None
        /\ dialog' = None
        /\ IF dialog.newbe /\ rows[r] # NoRow /\ Deletable(r)
           THEN Delete(r, groups \ Taken)
           ELSE groups' = groups \ Taken /\ UNCHANGED <<connections, rows, els>>
        /\ forgotten' = forgotten \cup ((groups \cap Taken) \ {dialog.previous})
        /\ UNCHANGED <<search, toDelete, found, spent, rash>>

----------------------------------------------------------------------------
(* The search for local hypervisors.                                       *)

RefreshLocalhost ==
    /\ UserActs
    /\ search' = "waiting" /\ found' = {}
    /\ Spend
    /\ UNCHANGED <<connections, rows, els, groups, dialog, toDelete, forgotten, rash>>

LocalKeys == {n \in Name : connections[n] # None /\ els[connections[n]].name \in Local}
RowsOf(n) == {r \in Elem : rows[r].name = els[connections[n]].name}

\* Mutant: local connections that run are waited for, not closed.
ToldNothing(el) == el

\* closeConnection called from the thread of WaitLocalConn.
Told(el) ==
    CASE el.thread = "idle" -> el
      [] el.thread = "open" -> [el EXCEPT !.thread = "leaving", !.news = Append(@, "CLOSED")]
      [] OTHER              -> [el EXCEPT !.news = Append(@, "FAILED")]

\* One round of WaitLocalConn::run: a local connection whose row runs is told to
\* close, another is listed for removal.  (Bound: the GUI keeps up.)
WaitLooks ==
    LET Running(n) == \E r \in RowsOf(n) : rows[r].state = "RUNNING"
        Resting(n) == \E r \in RowsOf(n) : rows[r].state # "RUNNING"
        closing    == {connections[n] : n \in {m \in LocalKeys : Running(m)}}
    IN  /\ search = "waiting"
        /\ \A e \in Elem : els[e].news = <<>>
        /\ toDelete' = {n \in LocalKeys : Resting(n)}
        /\ els' = [e \in Elem |-> IF e \in closing THEN Told(els[e]) ELSE els[e]]
        /\ search' = IF LocalKeys = {} THEN "searching" ELSE "removing"
        /\ UNCHANGED <<connections, rows, groups, dialog, found, spent, forgotten, rash>>

\* The end of the round.  Elements are forgotten, not deleted.
WaitRemoves ==
    /\ search = "removing"
    /\ IF toDelete = {}
       THEN search' = "waiting" /\ UNCHANGED <<connections, rows, els, toDelete, rash>>
       ELSE \E n \in toDelete :
              /\ toDelete' = toDelete \ {n}
              /\ connections' = [connections EXCEPT ![n] = None]
              /\ rows' = [r \in Elem |-> IF r \in RowsOf(n) THEN NoRow ELSE rows[r]]
              /\ rash' = (rash \/ els[connections[n]].thread \in {"opening", "open"})
              /\ els' = Kept(els, connections')
              /\ UNCHANGED search
    /\ UNCHANGED <<groups, dialog, found, spent, forgotten>>

\* createLocalConnection: opened at once.
LocalConnFound(n, e) ==
    /\ search = "searching"
    /\ n \notin found
    /\ Free(e)
    /\ found' = found \cup {n}
    /\ connections' = [connections EXCEPT ![n] = e]
    /\ els' = [els EXCEPT ![e] = [NoElem EXCEPT !.name = n, !.row = e, !.thread = "opening",
                                                !.news = <<"CONNECT">>]]
    /\ rows' = [rows EXCEPT ![e] = [name |-> n, state |-> "CLOSED", busy |-> TRUE, init |-> n]]
    /\ UNCHANGED <<groups, dialog, search, toDelete, spent, forgotten, rash>>

SearchComplete ==
    /\ search = "searching"
    /\ search' = "off"
    /\ UNCHANGED <<connections, rows, els, groups, dialog, toDelete, found, spent, forgotten,
                   rash>>

----------------------------------------------------------------------------

Thread(e) == OpenSucceeds(e) \/ OpenFails(e) \/ LeaveLoop(e)

\* What can be typed as a name: not one of the local form, unless it is there.
\* (Bound: <noname> is not kept for a name.)
Typed == Names \cup {Empty} \cup ({dialog.previous} \cap Local)

UserStep ==
    \/ \E r \in Elem : \/ Click(r) \/ DoubleClick(r) \/ DeleteCurrentConnection(r)
                       \/ CreateNewConnection(r) \/ EditCurrentConnection(r)
    \/ dialog # None /\ \E n \in Typed : SaveConnection(n) \/ RefuseName(n)
    \/ CancelConnection \/ RefreshLocalhost

Searching == \/ WaitLooks \/ WaitRemoves \/ SearchComplete
             \/ \E n \in Local, e \in Elem : LocalConnFound(n, e)

Next ==
    \/ \E e \in Elem : Thread(e) \/ RemoteClose(e) \/ Deliver(e)
    \/ UserStep \/ Searching

\* Threads are scheduled and libvirt's calls return, events are delivered, the
\* probes of the search come to an end.
Fairness ==
    /\ \A e \in Elem : WF_vars(Thread(e)) /\ WF_vars(Deliver(e))
    /\ WF_vars(WaitLooks \/ WaitRemoves)
    /\ WF_vars(SearchComplete)

Spec == Init /\ [][Next]_vars /\ Fairness

----------------------------------------------------------------------------
(* Properties.                                                             *)

\* A connection that runs can be closed: its row is listed and says that it runs,
\* and a double click on the row finds it.  Not so if it was renamed while its
\* thread ran, if another took a name under which it was kept, or if the search
\* removed its row while it was opening.
InHand(e) ==
    LET r == rows[els[e].row] IN
    r # NoRow /\ r.state = "RUNNING" /\ At(r.init) = e
LiveConnectionIsInHand ==
    ~rash => \A e \in Elem : els[e].thread = "open" /\ els[e].news = <<>> => InHand(e)

\* A search for local hypervisors comes to an end, and the list and the menus are
\* enabled again, unless a local connection is not found by its name: its row was
\* renamed and not clicked since, or deleted after that.
Lost(n) == n \in LocalKeys /\ RowsOf(n) = {}
RefreshEnds == search = "waiting" ~> (search = "off" \/ \E n \in Name : Lost(n))

\* What the list shows is what the next start lists: each row that the user has
\* named has a settings group of that name, unless the dialog of another row, new
\* or local, was refused this very name and then cancelled.
ListedIsSaved ==
    ~rash => {rows[r].name : r \in Elem} \cap Names \subseteq groups \cup forgotten
=============================================================================
