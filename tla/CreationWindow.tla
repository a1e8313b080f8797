--------------------------- MODULE CreationWindow ---------------------------
(***************************************************************************)
(* The windows that create a storage pool, a storage volume, a secret or a *)
(* host interface: a form, a button that writes it to a new file, and for  *)
(* pools and volumes a file to start from.  The window of a volume is      *)
(* complete when a thread has told the type of its pool.                   *)
(***************************************************************************)
EXTENDS Forms

CONSTANTS
    FormOf,      \* the form of each kind of window (module Forms)
    Saved,       \* the descriptions that may be in a file, by kind
    Opens, Changes  \* bounds: how many windows are opened, changes are made in one

VARIABLES
    window,      \* [kind, ready, from, shown, edits], or NoWindow
    file,        \* xml: the file, [kind, doc]
    running,     \* the program is
    opens        \* windows that may still be opened

vars == <<window, file, running, opens>>

NoWindow == [kind |-> "none"]
IsOpen   == window # NoWindow
FromFile == {"pool", "volume"}
Nothing(form) == [n \in Names(form) |-> Absent]

Init ==
    /\ window = NoWindow
    /\ \E k \in FromFile : \E d \in Saved[k] : file = [kind |-> k, doc |-> d]
    /\ running = TRUE
    /\ opens = Opens

\* No such window is ever opened.
None == window = NoWindow /\ file = NoWindow /\ running = FALSE /\ opens = 0

\* readXMLDataDescription: into the form as it is.
ReadXMLDataDescription(win) ==
    IF win.from = NoWindow THEN win ELSE [win EXCEPT !.shown = Read(FormOf[win.kind], @, win.from)]
\* A file with a description of another kind has nothing to read.
NewWindow(k, from) ==
    [kind |-> k, ready |-> k # "volume", shown |-> First(FormOf[k]), edits |-> 0,
     from |-> IF from.kind = k THEN from.doc ELSE NoWindow]
Open(win) ==
    /\ ~IsOpen
    /\ opens > 0
    /\ opens' = opens - 1
    /\ window' = IF win.ready THEN ReadXMLDataDescription(win) ELSE win
    /\ UNCHANGED <<file, running>>
Create(k)   == Open(NewWindow(k, NoWindow))
OpenFile(k) == k \in FromFile /\ Open(NewWindow(k, file))

\* The thread has ended.
InitData ==
    /\ IsOpen
    /\ ~window.ready
    /\ window' = [ReadXMLDataDescription(window) EXCEPT !.ready = TRUE]
    /\ UNCHANGED <<file, running, opens>>

\* Until then the window has a name and no more.
Edit ==
    /\ IsOpen
    /\ window.edits < Changes
    /\ \E e \in Edits(FormOf[window.kind], window.shown) :
          /\ window.ready \/ e[1].name = "name"
          /\ window' = [window EXCEPT !.shown = Pick(@, e[1], e[2]), !.edits = @ + 1]
    /\ UNCHANGED <<file, running, opens>>

\* The description is written to a file of its own, which a task creates the entity
\* from and which the user may open next.
Choose ==
    /\ IsOpen
    /\ window.ready
    /\ file' = [kind |-> window.kind, doc |-> Write(FormOf[window.kind], window.shown)]
    /\ window' = NoWindow
    /\ UNCHANGED <<running, opens>>

\* The button is there before the target of a volume is: getXMLDescFileName follows
\* a pointer that nothing has set.  The program ends, or writes whatever it finds.
ChooseBlindly ==
    /\ IsOpen
    /\ ~window.ready
    /\ \/ running' = FALSE /\ UNCHANGED file
       \/ running' = TRUE /\ \E d \in Saved["volume"] : file' = [kind |-> "volume", doc |-> d]
    /\ window' = NoWindow
    /\ UNCHANGED opens

Cancel ==
    /\ IsOpen
    /\ window' = NoWindow
    /\ UNCHANGED <<file, running, opens>>

Next ==
    /\ running
    /\ \/ \E k \in DOMAIN FormOf : Create(k) \/ OpenFile(k)
       \/ InitData
       \/ Edit
       \/ Choose
       \/ ChooseBlindly
       \/ Cancel

Spec == Init /\ [][Next]_vars

----------------------------------------------------------------------------
(* Properties.                                                             *)

\* A window that the user has not touched would write the file that it was opened
\* with, that of another window included (create_pool.cpp:89-122, create_volume.cpp:
\* 93-173), but for the parts that its form is known to alter.
ShownIsSaved ==
    IsOpen => (window.ready /\ window.from # NoWindow /\ window.edits = 0 =>
        Agrees(FormOf[window.kind], window.shown, window.from))

\* Nothing goes into a new description that the window neither read nor shows.
NothingHiddenIsWritten ==
    IsOpen => (window.ready =>
        Visible(FormOf[window.kind], window.shown,
                IF window.from = NoWindow THEN Nothing(FormOf[window.kind]) ELSE window.from))
=============================================================================
