---------------------------- MODULE AuthHandshake ----------------------------
(***************************************************************************)
(* How a connection that is being opened asks the user for its             *)
(* credentials.  libvirt calls authCallback in the thread of the           *)
(* connection, with the data of the one virConnectAuth that all threads    *)
(* share; the callback posts a question to the GUI thread, waits half a    *)
(* minute, and takes what it then finds.  The dialogs are nested: the user *)
(* answers the last one first, or much later.                              *)
(*                                                                         *)
(* A credential stands for the connection in the title of its dialog and   *)
(* the attempt that asked; what the user types, or that he cancels, makes  *)
(* no difference here.                                                     *)
(***************************************************************************)
EXTENDS Integers, Sequences, SequencesExt

CONSTANTS
    Conn, NoConn,
    Requests,   \* what a server may ask for: sequences of kinds of credentials
    MaxTurn     \* bound: how often connections are opened

Credential == {"Username", "Password"}

ASSUME AuthAssumption ==
    /\ NoConn \notin Conn
    /\ Requests \subseteq Seq(Credential)
    /\ MaxTurn \in Nat

VARIABLES
    cbdata,       \* auth.cbdata, of the static virConnectAuth
    opening,      \* what each thread does in openConnection
    authData,     \* what each connection has been told
    authWaitKey,  \* it waits to be told
    mail,         \* authRequested, posted to the GUI thread
    dialogs,      \* the input dialogs, the last one on top
    given,        \* history: what the server was given in the last attempt
    overlapped,   \* history: connections opened while another one was
    late          \* history: connections with a question that nobody waits for

threadVars == <<cbdata, opening, given>>
guiVars == <<mail, dialogs>>
vars == <<threadVars, guiVars, authData, authWaitKey, overlapped, late>>

\* A null pointer; memory that was cleared; and memory that was freed: text of
\* the string that setAuthCredentials leaves behind is read after its end.
Null    == [of |-> NoConn, turn |-> 0]
Cleared == [of |-> NoConn, turn |-> 1]
Garbage == [of |-> NoConn, turn |-> 2]
Text == [of : Conn, turn : 0 .. MaxTurn] \cup {Null, Cleared, Garbage}

\* A question, the connection it is put for, and its attempt.
Question == [of : Conn, turn : 0 .. MaxTurn, crd : Credential]

\* at: where the thread is; obj: the connection the callback was given; crd: what
\* it still has to ask for.
Thread == [at : {"idle", "opening", "asking", "waiting", "taking", "crashed"},
           obj : Conn \cup {NoConn}, crd : Seq(Credential), turn : 0 .. MaxTurn]

TypeOK ==
    /\ cbdata \in Conn \cup {NoConn}
    /\ opening \in [Conn -> Thread]
    /\ authData \in [Conn -> [Credential -> Text]]
    /\ authWaitKey \in [Conn -> BOOLEAN]
    /\ mail \in Seq(Question)
    /\ dialogs \in Seq([asks : Question, set : BOOLEAN])
    /\ given \in [Conn -> SUBSET Text]
    /\ overlapped \subseteq Conn /\ late \subseteq Conn

Init ==
    /\ cbdata = NoConn
    /\ opening = [c \in Conn |-> [at |-> "idle", obj |-> NoConn, crd |-> <<>>, turn |-> 0]]
    /\ authData = [c \in Conn |-> [crd \in Credential |-> Null]]
    /\ authWaitKey = [c \in Conn |-> FALSE]
    /\ mail = <<>> /\ dialogs = <<>>
    /\ given = [c \in Conn |-> {}]
    /\ overlapped = {} /\ late = {}

Crashed == \E c \in Conn : opening[c].at = "crashed"
At(c, place) == ~Crashed /\ opening[c].at = place
Goto(c, place) == opening' = [opening EXCEPT ![c].at = place]
Busy(c) == opening[c].at # "idle"

\* The attempts are numbered.
NextTurn(n) ==
    /\ \E c \in Conn : opening[c].turn = n - 1
    /\ \A c \in Conn : opening[c].turn < n

\* Questions about a connection that are in the mail or on the screen.
Pending(c) == \/ \E i \in DOMAIN mail : mail[i].of = c
              \/ \E i \in DOMAIN dialogs : dialogs[i].asks.of = c

----------------------------------------------------------------------------
(* The thread of a connection.                                             *)

\* Mutant: the callback keeps the data of the first connection.
OpenConnectionOnce(c) ==
    /\ At(c, "idle")
    /\ cbdata' = IF cbdata = NoConn THEN c ELSE cbdata
    /\ \E n \in 1 .. MaxTurn :
         NextTurn(n) /\ opening' = [opening EXCEPT ![c].at = "opening", ![c].turn = n]
    /\ given' = [given EXCEPT ![c] = {}]
    /\ LET others == {d \in Conn \ {c} : Busy(d)} IN
       overlapped' = IF others # {} THEN overlapped \cup others \cup {c}
                     ELSE IF Pending(c) THEN overlapped ELSE overlapped \ {c}
    /\ late' = IF Pending(c) THEN late ELSE late \ {c}
    /\ UNCHANGED <<guiVars, authData, authWaitKey>>

\* auth.cbdata = this; virConnectOpenAuth(URI, &auth, 0).
OpenConnection(c) ==
    /\ At(c, "idle")
    /\ cbdata' = c
    /\ \E n \in 1 .. MaxTurn :
         NextTurn(n) /\ opening' = [opening EXCEPT ![c].at = "opening", ![c].turn = n]
    /\ given' = [given EXCEPT ![c] = {}]
    /\ LET others == {d \in Conn \ {c} : Busy(d)} IN
       overlapped' = IF others # {} THEN overlapped \cup others \cup {c}
                     ELSE IF Pending(c) THEN overlapped ELSE overlapped \ {c}
    /\ late' = IF Pending(c) THEN late ELSE late \ {c}
    /\ UNCHANGED <<guiVars, authData, authWaitKey>>

\* libvirt calls back: what was told before is forgotten.
AuthCallback(c) ==
    /\ At(c, "opening")
    /\ \E crd \in Requests :
           opening' = [opening EXCEPT ![c].at = "asking", ![c].obj = cbdata, ![c].crd = crd]
    /\ authData' = [authData EXCEPT ![cbdata] = [crd \in Credential |-> Null]]
    /\ UNCHANGED <<cbdata, given, guiVars, authWaitKey, overlapped, late>>

\* emit authRequested, to be waited for.
Ask(c) ==
    /\ At(c, "asking") /\ opening[c].crd # <<>>
    /\ LET obj == opening[c].obj IN
       /\ authWaitKey' = [authWaitKey EXCEPT ![obj] = TRUE]
       /\ mail' = Append(mail, [of |-> obj, turn |-> opening[obj].turn,
                                crd |-> Head(opening[c].crd)])
    /\ Goto(c, "waiting")
    /\ UNCHANGED <<cbdata, given, dialogs, authData, overlapped, late>>

\* The loop of getAuthCredentials finds the key cleared.
Told(c) ==
    /\ At(c, "waiting") /\ ~authWaitKey[opening[c].obj]
    /\ Goto(c, "taking")
    /\ UNCHANGED <<cbdata, given, guiVars, authData, authWaitKey, overlapped, late>>

\* It ends after WAIT_AUTH turns.
TimeOut(c) ==
    /\ At(c, "waiting") /\ authWaitKey[opening[c].obj]
    /\ Goto(c, "taking")
    /\ late' = late \cup {opening[c].obj}
    /\ UNCHANGED <<cbdata, given, guiVars, authData, authWaitKey, overlapped>>

\* cred[i].result = strdup(obj->authData...), then memset: a null pointer ends
\* the process; what setAuthCredentials left may be anything by now.
Take(c) ==
    /\ At(c, "taking")
    /\ LET obj == opening[c].obj
           crd == Head(opening[c].crd)
           text == authData[obj][crd] IN
       IF text = Null
       THEN Goto(c, "crashed") /\ UNCHANGED <<authData, given>>
       ELSE /\ opening' = [opening EXCEPT ![c].at = "asking", ![c].crd = Tail(@)]
            /\ authData' = [authData EXCEPT ![obj][crd] = Cleared]
            /\ \E read \in {text, Garbage} : given' = [given EXCEPT ![c] = @ \cup {read}]
    /\ UNCHANGED <<cbdata, guiVars, authWaitKey, overlapped, late>>

\* virConnectOpenAuth returns, at once or when it has been told; the connection
\* is open, and is closed before it is opened again, or has failed.
Opened(c) ==
    /\ ~Crashed
    /\ opening[c].at = "opening" \/ (opening[c].at = "asking" /\ opening[c].crd = <<>>)
    /\ opening' = [opening EXCEPT ![c].at = "idle", ![c].obj = NoConn, ![c].crd = <<>>]
    /\ UNCHANGED <<cbdata, given, guiVars, authData, authWaitKey, overlapped, late>>

----------------------------------------------------------------------------
(* The GUI thread.                                                         *)

\* setAuthCredentials is between its two statements.
Setting == dialogs # <<>> /\ Last(dialogs).set

\* getAuthCredentials: an input dialog, with an event loop of its own.
ShowDialog ==
    /\ ~Crashed /\ ~Setting
    /\ mail # <<>>
    /\ mail' = Tail(mail)
    /\ dialogs' = Append(dialogs, [asks |-> Head(mail), set |-> FALSE])
    /\ UNCHANGED <<threadVars, authData, authWaitKey, overlapped, late>>

\* Mutant: the key is cleared before the text is set.
SetTextLast ==
    /\ ~Crashed /\ dialogs # <<>>
    /\ LET top == Last(dialogs) q == Last(dialogs).asks IN
       IF ~top.set
       THEN /\ authWaitKey' = [authWaitKey EXCEPT ![q.of] = FALSE]
            /\ dialogs' = [dialogs EXCEPT ![Len(dialogs)].set = TRUE]
            /\ UNCHANGED authData
       ELSE /\ authData' = [authData EXCEPT ![q.of][q.crd] = [of |-> q.of, turn |-> q.turn]]
            /\ dialogs' = Front(dialogs)
            /\ UNCHANGED authWaitKey
    /\ UNCHANGED <<threadVars, mail, overlapped, late>>

\* The dialog on top is answered; setAuthCredentials sets the text, and then
\* clears the key.
SetAuthCredentials ==
    /\ ~Crashed /\ dialogs # <<>>
    /\ LET top == Last(dialogs) q == Last(dialogs).asks IN
       IF ~top.set
       THEN /\ authData' = [authData EXCEPT ![q.of][q.crd] = [of |-> q.of, turn |-> q.turn]]
            /\ dialogs' = [dialogs EXCEPT ![Len(dialogs)].set = TRUE]
            /\ UNCHANGED authWaitKey
       ELSE /\ authWaitKey' = [authWaitKey EXCEPT ![q.of] = FALSE]
            /\ dialogs' = Front(dialogs)
            /\ UNCHANGED authData
    /\ UNCHANGED <<threadVars, mail, overlapped, late>>

Next ==
    \/ \E c \in Conn : \/ OpenConnection(c) \/ AuthCallback(c) \/ Ask(c) \/ Told(c)
                       \/ TimeOut(c) \/ Take(c) \/ Opened(c)
    \/ ShowDialog \/ SetAuthCredentials

Spec == Init /\ [][Next]_vars

----------------------------------------------------------------------------
(* Properties.                                                             *)

Disturbed(c) == c \in overlapped \cup late

\* A server is given what the user has answered to the question of its own
\* connection in this attempt, or what is left of it, unless another connection
\* was opened at the same time or a question was answered too late.
CredentialsAreOwn ==
    \A c \in Conn : Disturbed(c) \/
        given[c] \subseteq {[of |-> c, turn |-> opening[c].turn], Garbage}

\* A credential that was never told is used, and the process ends, only when a
\* question has timed out or two connections were opened at the same time.
NullNeedsDelay == \A c \in Conn : opening[c].at = "crashed" => Disturbed(c)
=============================================================================
