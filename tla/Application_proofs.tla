-------------------------- MODULE Application_proofs --------------------------
(***************************************************************************)
(* Proofs about AuthHandshake, for any connections, servers and number of  *)
(* attempts; and, of Application, that the exit and the list of AppLifecycle *)
(* are what ConnLifecycle_proofs shows them to be.                         *)
(***************************************************************************)
EXTENDS Application, SequenceTheorems, TLAPS

\* A thread that libvirt has called back asks for a connection that there is; it is
\* its own unless two were opened at the same time.
AsksForOwn(d) ==
    /\ opening[d].at = "opening" => cbdata = d \/ {d, cbdata} \subseteq overlapped
    /\ opening[d].at \in {"asking", "waiting", "taking", "crashed"} =>
          opening[d].obj = d \/ {d, opening[d].obj} \subseteq overlapped
    /\ opening[d].at \in {"waiting", "taking"} => opening[d].crd # <<>>

\* A connection has one question at most, in the mail or on the screen.
Single(c) ==
    /\ \A i, j \in DOMAIN mail : mail[i].of = c /\ mail[j].of = c => i = j
    /\ \A i, j \in DOMAIN dialogs : dialogs[i].asks.of = c /\ dialogs[j].asks.of = c => i = j
    /\ \A i \in DOMAIN mail, j \in DOMAIN dialogs : ~(mail[i].of = c /\ dialogs[j].asks.of = c)

Own(c) == [of |-> c, turn |-> opening[c].turn]
Wanted(c) == [of |-> c, turn |-> opening[c].turn, crd |-> Head(opening[c].crd)]
Answered(c) == authData[c][Head(opening[c].crd)] = Own(c)

\* It is the one that its thread waits for, answered if its text is set.
Right(c) ==
    /\ \A i \in DOMAIN mail : mail[i].of = c => mail[i] = Wanted(c)
    /\ \A i \in DOMAIN dialogs : dialogs[i].asks.of = c =>
          dialogs[i].asks = Wanted(c) /\ (dialogs[i].set => Answered(c))

\* What holds of a connection that nothing has disturbed.
InOrder(c) ==
    /\ opening[c].at # "crashed"
    /\ opening[c].at # "waiting" => ~Pending(c)
    /\ opening[c].at = "waiting" => Single(c) /\ Right(c)
    /\ opening[c].at = "waiting" /\ ~authWaitKey[c] => ~Pending(c) /\ Answered(c)
    /\ opening[c].at = "taking" => Answered(c)
    /\ given[c] \subseteq {Own(c), Garbage}

----------------------------------------------------------------------------
(* Types, and who asks for whom.                                           *)

AllAskForOwn == \A d \in Conn : AsksForOwn(d)
TypeInv == TypeOK /\ AllAskForOwn

\* The dialog on top, and what is left without it.
LEMMA OnTop ==
    ASSUME NEW S, NEW s \in Seq(S), s # <<>>
    PROVE  /\ Last(s) = s[Len(s)] /\ Last(s) \in S /\ Len(s) \in DOMAIN s
           /\ Front(s) \in Seq(S) /\ Len(Front(s)) = Len(s) - 1
           /\ \A i \in DOMAIN Front(s) : i \in DOMAIN s /\ i # Len(s) /\ Front(s)[i] = s[i]
  <1>1. Len(s) \in Nat /\ Len(s) >= 1
    OBVIOUS
  <1>2. /\ SubSeq(s, 1, Len(s) - 1) \in Seq(S)
        /\ Len(SubSeq(s, 1, Len(s) - 1)) = Len(s) - 1
        /\ \A i \in 1 .. Len(s) - 1 : SubSeq(s, 1, Len(s) - 1)[i] = s[i]
    <2>1. \A i \in 1 .. Len(s) - 1 : s[i] \in S
      BY <1>1
    <2>2. 1 \in Int /\ Len(s) - 1 \in Int
      BY <1>1
    <2>3. /\ SubSeq(s, 1, Len(s) - 1) \in Seq(S)
          /\ Len(SubSeq(s, 1, Len(s) - 1)) =
                 IF 1 <= Len(s) - 1 THEN Len(s) - 1 - 1 + 1 ELSE 0
          /\ \A i \in 1 .. Len(s) - 1 - 1 + 1 : SubSeq(s, 1, Len(s) - 1)[i] = s[1 + i - 1]
      BY <2>1, <2>2, SubSeqProperties
    <2>4. \A n \in Nat : n >= 1 =>
             /\ n - 1 - 1 + 1 = n - 1
             /\ n - 1 = IF 1 <= n - 1 THEN n - 1 - 1 + 1 ELSE 0
             /\ \A i \in 1 .. n - 1 : 1 + i - 1 = i
      OBVIOUS
    <2> QED BY <1>1, <2>3, <2>4
  <1>3. \A i \in DOMAIN Front(s) : i \in 1 .. Len(s) - 1
    BY <1>1, <1>2 DEF Front
  <1> QED BY <1>1, <1>2, <1>3 DEF Last, Front

\* A thread goes to another place, in a new attempt, or with other things to ask.
Place == {"idle", "opening", "asking", "waiting", "taking", "crashed"}
LEMMA ThreadMoves ==
    ASSUME NEW f \in [Conn -> Thread], NEW c \in Conn, NEW at \in Place
    PROVE  [f EXCEPT ![c].at = at] \in [Conn -> Thread]
  <1>1. [f[c] EXCEPT !.at = at] \in Thread
    BY DEF Thread, Place
  <1> QED BY <1>1

LEMMA ThreadBegins ==
    ASSUME NEW f \in [Conn -> Thread], NEW c \in Conn, NEW at \in Place, NEW n \in 0 .. MaxTurn
    PROVE  [f EXCEPT ![c].at = at, ![c].turn = n] \in [Conn -> Thread]
  <1>1. [[f[c] EXCEPT !.at = at] EXCEPT !.turn = n] \in Thread
    BY DEF Thread, Place
  <1> QED BY <1>1

LEMMA ThreadGoesOn ==
    ASSUME NEW f \in [Conn -> Thread], NEW c \in Conn, NEW at \in Place, NEW crd \in Seq(Credential)
    PROVE  [f EXCEPT ![c].at = at, ![c].crd = crd] \in [Conn -> Thread]
  <1>1. [[f[c] EXCEPT !.at = at] EXCEPT !.crd = crd] \in Thread
    BY DEF Thread, Place
  <1> QED BY <1>1

LEMMA ThreadAsks ==
    ASSUME NEW f \in [Conn -> Thread], NEW c \in Conn, NEW at \in Place,
           NEW obj \in Conn \cup {NoConn}, NEW crd \in Seq(Credential)
    PROVE  [f EXCEPT ![c].at = at, ![c].obj = obj, ![c].crd = crd] \in [Conn -> Thread]
  <1>1. [[[f[c] EXCEPT !.at = at] EXCEPT !.obj = obj] EXCEPT !.crd = crd] \in Thread
    BY DEF Thread, Place
  <1> QED BY <1>1

\* Two threads that are opening have disturbed each other.
LEMMA TypeOpenConnection ==
    ASSUME TypeInv, NEW c \in Conn, OpenConnection(c)
    PROVE  TypeInv'
  <1>1. PICK n \in 1 .. MaxTurn :
           opening' = [opening EXCEPT ![c].at = "opening", ![c].turn = n]
    BY DEF OpenConnection
  <1>2. TypeOK'
    <2>1. opening' \in [Conn -> Thread]
      <3>1. opening \in [Conn -> Thread] /\ n \in 0 .. MaxTurn /\ "opening" \in Place
        BY AuthAssumption DEF TypeInv, TypeOK, Place
      <3> QED BY <1>1, <3>1, ThreadBegins
    <2>2. given' \in [Conn -> SUBSET Text]
      BY DEF OpenConnection, TypeInv, TypeOK
    <2> QED BY <2>1, <2>2 DEF OpenConnection, TypeInv, TypeOK, guiVars
  <1>3. ASSUME NEW d \in Conn PROVE AsksForOwn(d)'
    <2>1. CASE d = c
      BY <1>1, <2>1 DEF OpenConnection, AsksForOwn, TypeInv, TypeOK, Thread
    <2>2. CASE d # c
      <3>1. opening'[d] = opening[d]
        BY <1>1, <2>2 DEF TypeInv, TypeOK
      <3>2. Busy(d) => d \in overlapped' /\ c \in overlapped' /\ overlapped \subseteq overlapped'
        BY <2>2 DEF OpenConnection
      <3>3. AsksForOwn(d)
        BY DEF TypeInv, AllAskForOwn
      <3> QED BY <3>1, <3>2, <3>3 DEF OpenConnection, AsksForOwn, Busy
    <2> QED BY <2>1, <2>2
  <1> QED BY <1>2, <1>3 DEF TypeInv, AllAskForOwn

\* The callback is given cbdata, which its own opening has set, or a later one.
LEMMA TypeAuthCallback ==
    ASSUME TypeInv, NEW c \in Conn, AuthCallback(c)
    PROVE  TypeInv'
  <1>1. PICK crd \in Requests :
           opening' = [opening EXCEPT ![c].at = "asking", ![c].obj = cbdata, ![c].crd = crd]
    BY DEF AuthCallback
  <1>2. cbdata = c \/ {c, cbdata} \subseteq overlapped
    BY DEF AuthCallback, At, TypeInv, AllAskForOwn, AsksForOwn
  <1>3. TypeOK'
    <2>1. crd \in Seq(Credential) /\ cbdata \in Conn
      BY <1>1, <1>2, AuthAssumption DEF TypeInv, TypeOK
    <2>2. opening' \in [Conn -> Thread]
      <3>1. /\ opening \in [Conn -> Thread] /\ "asking" \in Place
            /\ cbdata \in Conn \cup {NoConn}
        BY DEF TypeInv, TypeOK, Place
      <3> QED BY <1>1, <2>1, <3>1, ThreadAsks
    <2>3. [x \in Credential |-> Null] \in [Credential -> Text]
      BY DEF Text
    <2>4. authData' \in [Conn -> [Credential -> Text]]
      BY <2>1, <2>3 DEF AuthCallback, TypeInv, TypeOK
    <2> QED BY <2>1, <2>2, <2>4 DEF AuthCallback, TypeInv, TypeOK, guiVars
  <1>4. ASSUME NEW d \in Conn PROVE AsksForOwn(d)'
    BY <1>1, <1>2 DEF AuthCallback, TypeInv, TypeOK, AllAskForOwn, AsksForOwn, Thread
  <1> QED BY <1>3, <1>4 DEF TypeInv, AllAskForOwn

\* A thread goes on in the callback, with the questions that it has.
LEMMA TypeThread ==
    ASSUME TypeInv, NEW c \in Conn, Ask(c) \/ Told(c) \/ TimeOut(c) \/ Take(c) \/ Opened(c)
    PROVE  TypeInv'
  <1>1. CASE Ask(c)
    <2>1. opening[c].obj \in Conn
      BY <1>1 DEF Ask, At, TypeInv, TypeOK, AllAskForOwn, AsksForOwn
    <2>2. Head(opening[c].crd) \in Credential
      BY <1>1 DEF Ask, TypeInv, TypeOK, Thread
    <2>3. TypeOK'
      <3>1. opening' \in [Conn -> Thread]
        BY <1>1, ThreadMoves DEF Ask, Goto, TypeInv, TypeOK, Place
      <3>2. opening[opening[c].obj].turn \in 0 .. MaxTurn
        BY <2>1 DEF TypeInv, TypeOK, Thread
      <3>3. mail' \in Seq(Question)
        BY <1>1, <2>1, <2>2, <3>2 DEF Ask, TypeInv, TypeOK, Question
      <3>4. authWaitKey' \in [Conn -> BOOLEAN]
        BY <1>1 DEF Ask, TypeInv, TypeOK
      <3> QED BY <1>1, <3>1, <3>3, <3>4 DEF Ask, TypeInv, TypeOK
    <2>4. ASSUME NEW d \in Conn PROVE AsksForOwn(d)'
      BY <1>1 DEF Ask, At, Goto, TypeInv, TypeOK, AllAskForOwn, AsksForOwn, Thread
    <2> QED BY <2>3, <2>4 DEF TypeInv, AllAskForOwn
  <1>2. CASE Told(c)
    <2>1. TypeOK'
      BY <1>2, ThreadMoves DEF Told, Goto, TypeInv, TypeOK, guiVars, Place
    <2>2. ASSUME NEW d \in Conn PROVE AsksForOwn(d)'
      BY <1>2 DEF Told, At, Goto, TypeInv, TypeOK, AllAskForOwn, AsksForOwn, Thread
    <2> QED BY <2>1, <2>2 DEF TypeInv, AllAskForOwn
  <1>3. CASE TimeOut(c)
    <2>1. opening[c].obj \in Conn
      BY <1>3 DEF TimeOut, At, TypeInv, TypeOK, AllAskForOwn, AsksForOwn
    <2>2. TypeOK'
      BY <1>3, <2>1, ThreadMoves DEF TimeOut, Goto, TypeInv, TypeOK, guiVars, Place
    <2>3. ASSUME NEW d \in Conn PROVE AsksForOwn(d)'
      BY <1>3 DEF TimeOut, At, Goto, TypeInv, TypeOK, AllAskForOwn, AsksForOwn, Thread
    <2> QED BY <2>2, <2>3 DEF TypeInv, AllAskForOwn
  <1>4. CASE Take(c)
    <2> DEFINE obj == opening[c].obj
               crd == Head(opening[c].crd)
    <2>1. obj \in Conn /\ opening[c].crd # <<>>
      BY <1>4 DEF Take, At, TypeInv, TypeOK, AllAskForOwn, AsksForOwn
    <2>2. crd \in Credential /\ Tail(opening[c].crd) \in Seq(Credential)
      BY <2>1 DEF TypeInv, TypeOK, Thread
    <2>3. CASE authData[obj][crd] = Null
      <3>1. opening' = [opening EXCEPT ![c].at = "crashed"] /\ UNCHANGED <<authData, given>>
        BY <1>4, <2>3 DEF Take, Goto
      <3>2. TypeOK'
        BY <1>4, <3>1, ThreadMoves DEF Take, TypeInv, TypeOK, guiVars, Place
      <3>3. ASSUME NEW d \in Conn PROVE AsksForOwn(d)'
        BY <1>4, <3>1 DEF Take, At, TypeInv, TypeOK, AllAskForOwn, AsksForOwn, Thread
      <3> QED BY <3>2, <3>3 DEF TypeInv, AllAskForOwn
    <2>4. CASE authData[obj][crd] # Null
      <3>1. authData[obj][crd] \in Text /\ Garbage \in Text /\ Cleared \in Text
        BY <2>1, <2>2 DEF TypeInv, TypeOK, Text
      <3>2. /\ opening' = [opening EXCEPT ![c].at = "asking", ![c].crd = Tail(@)]
            /\ authData' = [authData EXCEPT ![obj][crd] = Cleared]
        BY <1>4, <2>4 DEF Take
      <3>3. opening' = [opening EXCEPT ![c].at = "asking", ![c].crd = Tail(opening[c].crd)]
        BY <3>2 DEF TypeInv, TypeOK, Thread
      <3>4. opening' \in [Conn -> Thread]
        BY <3>3, <2>2, ThreadGoesOn DEF TypeInv, TypeOK, Place
      <3>5. authData' \in [Conn -> [Credential -> Text]]
        BY <2>1, <2>2, <3>1, <3>2 DEF TypeInv, TypeOK
      <3>6. given' \in [Conn -> SUBSET Text]
        <4>1. PICK read \in {authData[obj][crd], Garbage} :
                 given' = [given EXCEPT ![c] = @ \cup {read}]
          BY <1>4, <2>4 DEF Take
        <4> HIDE DEF obj, crd
        <4> QED BY <3>1, <4>1 DEF TypeInv, TypeOK
      <3>7. TypeOK'
        BY <1>4, <3>4, <3>5, <3>6 DEF Take, TypeInv, TypeOK, guiVars
      <3>8. ASSUME NEW d \in Conn PROVE AsksForOwn(d)'
        BY <1>4, <3>3 DEF Take, At, TypeInv, TypeOK, AllAskForOwn, AsksForOwn, Thread
      <3> QED BY <3>7, <3>8 DEF TypeInv, AllAskForOwn
    <2> QED BY <2>3, <2>4
  <1>5. CASE Opened(c)
    <2>1. TypeOK'
      <3>1. /\ opening \in [Conn -> Thread] /\ "idle" \in Place
            /\ NoConn \in Conn \cup {NoConn} /\ <<>> \in Seq(Credential)
        BY DEF TypeInv, TypeOK, Place
      <3>2. opening' \in [Conn -> Thread]
        BY <1>5, <3>1, ThreadAsks DEF Opened
      <3> QED BY <1>5, <3>2 DEF Opened, TypeInv, TypeOK, guiVars
    <2>2. ASSUME NEW d \in Conn PROVE AsksForOwn(d)'
      BY <1>5 DEF Opened, TypeInv, TypeOK, AllAskForOwn, AsksForOwn, Thread
    <2> QED BY <2>1, <2>2 DEF TypeInv, AllAskForOwn
  <1> QED BY <1>1, <1>2, <1>3, <1>4, <1>5

\* The GUI thread changes no thread.
LEMMA TypeGui ==
    ASSUME TypeInv, ShowDialog \/ SetAuthCredentials
    PROVE  TypeInv'
  <1>1. AllAskForOwn'
    BY DEF TypeInv, AllAskForOwn, AsksForOwn, ShowDialog, SetAuthCredentials, threadVars
  <1>2. CASE ShowDialog
    <2>1. mail # <<>> /\ mail' = Tail(mail) /\ dialogs' = Append(dialogs, [asks |-> Head(mail), set |-> FALSE])
      BY <1>2 DEF ShowDialog
    <2>2. Head(mail) \in Question /\ Tail(mail) \in Seq(Question)
      BY <2>1 DEF TypeInv, TypeOK
    <2>3. dialogs' \in Seq([asks : Question, set : BOOLEAN])
      BY <2>1, <2>2 DEF TypeInv, TypeOK
    <2> QED BY <1>1, <1>2, <2>1, <2>2, <2>3 DEF TypeInv, TypeOK, ShowDialog, threadVars
  <1>3. CASE SetAuthCredentials
    <2>1. /\ Last(dialogs) \in [asks : Question, set : BOOLEAN]
          /\ Front(dialogs) \in Seq([asks : Question, set : BOOLEAN])
          /\ Len(dialogs) \in DOMAIN dialogs
      BY <1>3, OnTop DEF SetAuthCredentials, TypeInv, TypeOK
    <2> DEFINE q == Last(dialogs).asks
    <2>2. q.of \in Conn /\ q.crd \in Credential /\ [of |-> q.of, turn |-> q.turn] \in Text
      BY <2>1 DEF Question, Text
    <2>3. CASE ~Last(dialogs).set
      <3>1. /\ authData' = [authData EXCEPT ![q.of][q.crd] = [of |-> q.of, turn |-> q.turn]]
            /\ dialogs' = [dialogs EXCEPT ![Len(dialogs)].set = TRUE]
            /\ UNCHANGED authWaitKey
        BY <1>3, <2>3 DEF SetAuthCredentials
      <3> HIDE DEF q
      <3>2. authData' \in [Conn -> [Credential -> Text]]
        BY <2>2, <3>1 DEF TypeInv, TypeOK
      <3>3. dialogs' \in Seq([asks : Question, set : BOOLEAN])
        <4>1. [Last(dialogs) EXCEPT !.set = TRUE] \in [asks : Question, set : BOOLEAN]
          BY <2>1
        <4>2. Last(dialogs) = dialogs[Len(dialogs)]
          BY DEF Last
        <4> HIDE DEF Last
        <4> QED BY <2>1, <3>1, <4>1, <4>2 DEF TypeInv, TypeOK
      <3> QED BY <1>1, <1>3, <3>1, <3>2, <3>3 DEF TypeInv, TypeOK, SetAuthCredentials, threadVars
    <2>4. CASE Last(dialogs).set
      <3>1. /\ authWaitKey' = [authWaitKey EXCEPT ![q.of] = FALSE]
            /\ dialogs' = Front(dialogs) /\ UNCHANGED authData
        BY <1>3, <2>4 DEF SetAuthCredentials
      <3>2. authWaitKey' \in [Conn -> BOOLEAN]
        BY <2>2, <3>1 DEF TypeInv, TypeOK
      <3> QED BY <1>1, <1>3, <2>1, <3>1, <3>2 DEF TypeInv, TypeOK, SetAuthCredentials, threadVars
    <2> QED BY <2>3, <2>4
  <1> QED BY <1>2, <1>3

LEMMA TypeInitially == Init => TypeInv
  BY AuthAssumption DEF Init, TypeInv, TypeOK, AllAskForOwn, AsksForOwn, Thread, Text, Credential

LEMMA TypeStep == TypeInv /\ [Next]_vars => TypeInv'
  <1>1. ASSUME TypeInv, UNCHANGED vars PROVE TypeInv'
    BY <1>1 DEF TypeInv, TypeOK, AllAskForOwn, AsksForOwn, vars, threadVars, guiVars
  <1> QED BY <1>1, TypeOpenConnection, TypeAuthCallback, TypeThread, TypeGui DEF Next

\* Threads, questions and what was told keep their types, for any connections.
THEOREM TypeCorrect == Spec => []TypeOK
  <1>1. TypeInv => TypeOK
    BY DEF TypeInv
  <1> QED BY <1>1, TypeInitially, TypeStep, PTL DEF Spec

----------------------------------------------------------------------------
(* Connections that nothing disturbs.                                      *)

AllInOrder == \A c \in Conn : Disturbed(c) \/ InOrder(c)

\* What a connection knows, and what is asked about it.
Same(c) ==
    /\ opening'[c] = opening[c] /\ authData'[c] = authData[c]
    /\ authWaitKey'[c] = authWaitKey[c] /\ given'[c] = given[c]

\* A connection of which nothing changes stays in order.
LEMMA LeftAlone ==
    ASSUME NEW c \in Conn, InOrder(c), Same(c), UNCHANGED guiVars
    PROVE  InOrder(c)'
  BY DEF InOrder, Same, guiVars, Pending, Single, Right, Wanted, Answered, Own

\* To be undisturbed, a connection that is opened anew has no question left.
LEMMA OrderOpenConnection ==
    ASSUME TypeInv, AllInOrder, NEW d \in Conn, OpenConnection(d), NEW c \in Conn, ~Disturbed(c)'
    PROVE  InOrder(c)'
  <1>1. PICK n \in 1 .. MaxTurn :
           opening' = [opening EXCEPT ![d].at = "opening", ![d].turn = n]
    BY DEF OpenConnection
  <1>2. CASE d = c
    <2>1. opening'[c].at = "opening" /\ given'[c] = {}
      BY <1>1, <1>2 DEF OpenConnection, TypeInv, TypeOK, Thread
    <2>2. Pending(c) => ~Disturbed(c)
      BY <1>2 DEF OpenConnection, Disturbed
    <2>3. ~Pending(c)
      BY <1>2, <2>2 DEF AllInOrder, InOrder, OpenConnection, At
    <2>4. ~Pending(c)'
      BY <2>3 DEF Pending, OpenConnection, guiVars
    <2> QED BY <2>1, <2>4 DEF InOrder
  <1>3. CASE d # c
    <2>1. ~Disturbed(c)
      BY <1>3 DEF OpenConnection, Disturbed
    <2>2. Same(c)
      BY <1>1, <1>3 DEF Same, OpenConnection, TypeInv, TypeOK
    <2> QED BY <2>1, <2>2, LeftAlone DEF AllInOrder, OpenConnection
  <1> QED BY <1>2, <1>3

\* Nobody else asks for a connection that is undisturbed.
LEMMA OthersAskForOthers ==
    ASSUME TypeInv, NEW c \in Conn, NEW d \in Conn, ~Disturbed(c)
    PROVE  /\ opening[d].at = "opening" => (cbdata = c <=> d = c)
           /\ opening[d].at \in {"asking", "waiting", "taking", "crashed"} =>
                 (opening[d].obj = c <=> d = c)
  BY DEF TypeInv, AllAskForOwn, AsksForOwn, Disturbed

LEMMA OrderAuthCallback ==
    ASSUME TypeInv, AllInOrder, NEW d \in Conn, AuthCallback(d), NEW c \in Conn, ~Disturbed(c)'
    PROVE  InOrder(c)'
  <1>1. PICK crd \in Requests :
           opening' = [opening EXCEPT ![d].at = "asking", ![d].obj = cbdata, ![d].crd = crd]
    BY DEF AuthCallback
  <1>2. ~Disturbed(c) /\ InOrder(c) /\ opening[d].at = "opening"
    BY DEF AllInOrder, AuthCallback, Disturbed, At
  <1>3. CASE d = c
    <2>1. opening'[c].at = "asking" /\ opening'[c].turn = opening[c].turn
      BY <1>1, <1>3 DEF TypeInv, TypeOK, Thread
    <2>2. ~Pending(c)'
      BY <1>2, <1>3 DEF InOrder, Pending, AuthCallback, guiVars
    <2> QED BY <1>2, <2>1, <2>2 DEF InOrder, AuthCallback, Own
  <1>4. CASE d # c
    <2>1. cbdata # c
      BY <1>2, <1>4, OthersAskForOthers
    <2>2. Same(c)
      BY <1>1, <1>4, <2>1 DEF Same, AuthCallback, TypeInv, TypeOK
    <2> QED BY <1>2, <2>2, LeftAlone DEF AuthCallback
  <1> QED BY <1>3, <1>4

\* A question that is put is the only one.
LEMMA OrderAsk ==
    ASSUME TypeInv, AllInOrder, NEW d \in Conn, Ask(d), NEW c \in Conn, ~Disturbed(c)'
    PROVE  InOrder(c)'
  <1> DEFINE obj == opening[d].obj
             q == [of |-> obj, turn |-> opening[obj].turn, crd |-> Head(opening[d].crd)]
  <1>1. ~Disturbed(c) /\ InOrder(c) /\ opening[d].at = "asking"
    BY DEF AllInOrder, Ask, Disturbed, At
  <1>2. /\ opening' = [opening EXCEPT ![d].at = "waiting"]
        /\ authWaitKey' = [authWaitKey EXCEPT ![obj] = TRUE]
        /\ mail' = Append(mail, q) /\ dialogs' = dialogs
        /\ authData' = authData /\ given' = given
    BY DEF Ask, Goto
  <1>3. /\ Len(mail) \in Nat /\ DOMAIN mail = 1 .. Len(mail)
        /\ DOMAIN mail' = 1 .. Len(mail) + 1
        /\ mail'[Len(mail) + 1] = q /\ \A i \in DOMAIN mail : mail'[i] = mail[i]
    <2> HIDE DEF q
    <2> QED BY <1>2 DEF TypeInv, TypeOK
  <1>4. q.of = obj /\ q.turn = opening[obj].turn /\ q.crd = Head(opening[d].crd)
    OBVIOUS
  <1>5. obj = c <=> d = c
    BY <1>1, OthersAskForOthers
  <1> HIDE DEF q
  <1>6. CASE d = c
    <2>1. ~Pending(c)
      BY <1>1, <1>6 DEF InOrder
    <2>2. /\ opening'[c].at = "waiting" /\ opening'[c].turn = opening[c].turn
          /\ opening'[c].crd = opening[c].crd
      BY <1>2, <1>6 DEF TypeInv, TypeOK, Thread
    <2>3. \A i \in DOMAIN mail' : mail'[i].of = c => i = Len(mail) + 1
      BY <1>3, <2>1 DEF Pending
    <2>4. Single(c)'
      BY <1>2, <2>1, <2>3 DEF Single, Pending
    <2>5. q = Wanted(c)'
      BY <1>5, <1>6, <2>2 DEF Wanted, q
    <2>6. Right(c)'
      BY <1>2, <1>3, <2>1, <2>3, <2>5 DEF Right, Pending
    <2>7. authWaitKey'[c]
      BY <1>2, <1>5, <1>6 DEF TypeInv, TypeOK
    <2> QED BY <1>1, <1>2, <2>2, <2>4, <2>6, <2>7 DEF InOrder, Own
  <1>7. CASE d # c
    <2>1. Same(c)
      BY <1>2, <1>5, <1>7 DEF Same, TypeInv, TypeOK
    <2>2. \A i \in DOMAIN mail' : mail'[i].of = c => i \in DOMAIN mail /\ mail'[i] = mail[i]
      BY <1>3, <1>4, <1>5, <1>7
    <2>3. /\ Pending(c)' => Pending(c)
          /\ Single(c) => Single(c)'
      BY <1>2, <2>2 DEF Pending, Single
    <2>4. Right(c) => Right(c)'
      BY <1>2, <2>1, <2>2 DEF Right, Same, Wanted, Answered, Own
    <2> QED BY <1>1, <2>1, <2>3, <2>4 DEF InOrder, Same, Answered, Own
  <1> QED BY <1>6, <1>7

\* The thread that has been told finds its answer.
LEMMA OrderTold ==
    ASSUME TypeInv, AllInOrder, NEW d \in Conn, Told(d), NEW c \in Conn, ~Disturbed(c)'
    PROVE  InOrder(c)'
  <1>1. /\ ~Disturbed(c) /\ InOrder(c)
        /\ opening[d].at = "waiting" /\ ~authWaitKey[opening[d].obj]
        /\ opening' = [opening EXCEPT ![d].at = "taking"]
        /\ UNCHANGED <<given, mail, dialogs, authData, authWaitKey>>
    BY DEF AllInOrder, Told, Disturbed, At, Goto, guiVars
  <1>2. CASE d = c
    <2>1. ~authWaitKey[c]
      BY <1>1, <1>2, OthersAskForOthers
    <2>2. ~Pending(c) /\ Answered(c)
      BY <1>1, <1>2, <2>1 DEF InOrder
    <2>3. /\ opening'[c].at = "taking" /\ opening'[c].turn = opening[c].turn
          /\ opening'[c].crd = opening[c].crd
      BY <1>1, <1>2 DEF TypeInv, TypeOK, Thread
    <2>4. ~Pending(c)'
      BY <1>1, <2>2 DEF Pending
    <2>5. Answered(c)'
      BY <1>1, <2>2, <2>3 DEF Answered, Own
    <2> QED BY <1>1, <2>3, <2>4, <2>5 DEF InOrder, Own
  <1>3. CASE d # c
    <2>1. Same(c)
      BY <1>1, <1>3 DEF Same, TypeInv, TypeOK
    <2> QED BY <1>1, <2>1, LeftAlone DEF guiVars
  <1> QED BY <1>2, <1>3

\* A question that times out disturbs the connection it is about.
LEMMA OrderTimeOut ==
    ASSUME TypeInv, AllInOrder, NEW d \in Conn, TimeOut(d), NEW c \in Conn, ~Disturbed(c)'
    PROVE  InOrder(c)'
  <1>1. /\ ~Disturbed(c) /\ InOrder(c) /\ opening[d].obj # c
        /\ opening[d].at = "waiting"
        /\ opening' = [opening EXCEPT ![d].at = "taking"]
        /\ UNCHANGED <<given, mail, dialogs, authData, authWaitKey>>
    BY DEF AllInOrder, TimeOut, Disturbed, At, Goto, guiVars
  <1>2. d # c
    BY <1>1, OthersAskForOthers
  <1>3. Same(c)
    BY <1>1, <1>2 DEF Same, TypeInv, TypeOK
  <1> QED BY <1>1, <1>3, LeftAlone DEF guiVars

\* What the server is given is the answer of this attempt.
LEMMA OrderTake ==
    ASSUME TypeInv, AllInOrder, NEW d \in Conn, Take(d), NEW c \in Conn, ~Disturbed(c)'
    PROVE  InOrder(c)'
  <1> DEFINE obj == opening[d].obj
             crd == Head(opening[d].crd)
             text == authData[obj][crd]
  <1>1. ~Disturbed(c) /\ InOrder(c) /\ opening[d].at = "taking" /\ UNCHANGED <<mail, dialogs>>
    BY DEF AllInOrder, Take, Disturbed, At, guiVars
  <1>2. obj = c <=> d = c
    BY <1>1, OthersAskForOthers
  <1>3. CASE d = c
    <2>1. text = Own(c) /\ text # Null
      BY <1>1, <1>2, <1>3, AuthAssumption DEF InOrder, Answered, Own, Null
    <2>2. /\ opening' = [opening EXCEPT ![d].at = "asking", ![d].crd = Tail(@)]
          /\ \E read \in {text, Garbage} : given' = [given EXCEPT ![d] = @ \cup {read}]
      BY <2>1 DEF Take
    <2> HIDE DEF text
    <2>3. opening'[c].at = "asking" /\ opening'[c].turn = opening[c].turn
      BY <1>3, <2>2 DEF TypeInv, TypeOK, Thread
    <2>4. given'[c] \subseteq {Own(c), Garbage}
      BY <1>1, <1>3, <2>1, <2>2 DEF InOrder, TypeInv, TypeOK
    <2>5. ~Pending(c)'
      BY <1>1, <1>3 DEF InOrder, Pending
    <2> QED BY <2>3, <2>4, <2>5 DEF InOrder, Own
  <1>4. CASE d # c
    <2> HIDE DEF crd
    <2>1. opening'[c] = opening[c] /\ authData'[c] = authData[c] /\ given'[c] = given[c]
      BY <1>2, <1>4 DEF Take, Goto, TypeInv, TypeOK
    <2>2. Same(c)
      BY <2>1 DEF Same, Take
    <2> QED BY <1>1, <2>2, LeftAlone DEF guiVars
  <1> QED BY <1>3, <1>4

LEMMA OrderOpened ==
    ASSUME TypeInv, AllInOrder, NEW d \in Conn, Opened(d), NEW c \in Conn, ~Disturbed(c)'
    PROVE  InOrder(c)'
  <1>1. /\ ~Disturbed(c) /\ InOrder(c)
        /\ opening[d].at \in {"opening", "asking"}
        /\ opening' = [opening EXCEPT ![d].at = "idle", ![d].obj = NoConn, ![d].crd = <<>>]
        /\ UNCHANGED <<given, mail, dialogs, authData, authWaitKey>>
    BY DEF AllInOrder, Opened, Disturbed, guiVars
  <1>2. CASE d = c
    <2>1. opening'[c].at = "idle" /\ opening'[c].turn = opening[c].turn
      BY <1>1, <1>2 DEF TypeInv, TypeOK, Thread
    <2>2. ~Pending(c)'
      BY <1>1, <1>2 DEF InOrder, Pending
    <2> QED BY <1>1, <2>1, <2>2 DEF InOrder, Own
  <1>3. CASE d # c
    <2>1. Same(c)
      BY <1>1, <1>3 DEF Same, TypeInv, TypeOK
    <2> QED BY <1>1, <2>1, LeftAlone DEF guiVars
  <1> QED BY <1>2, <1>3

\* A question moves from the mail to the screen, and stays the only one.
LEMMA OrderShowDialog ==
    ASSUME TypeInv, AllInOrder, ShowDialog, NEW c \in Conn, ~Disturbed(c)'
    PROVE  InOrder(c)'
  <1> DEFINE top == [asks |-> Head(mail), set |-> FALSE]
  <1>1. /\ ~Disturbed(c) /\ InOrder(c) /\ mail # <<>>
        /\ mail' = Tail(mail) /\ dialogs' = Append(dialogs, top)
        /\ UNCHANGED <<opening, given, authData, authWaitKey>>
    BY DEF AllInOrder, ShowDialog, Disturbed, threadVars
  <1>2. /\ Len(mail) \in Nat /\ DOMAIN mail = 1 .. Len(mail) /\ 1 \in DOMAIN mail
        /\ \A i \in DOMAIN mail' : i \in Nat \ {0} /\ i + 1 \in DOMAIN mail /\ mail'[i] = mail[i + 1]
    BY <1>1 DEF TypeInv, TypeOK
  <1>3. top.asks = mail[1] /\ top.set = FALSE
    BY <1>1 DEF TypeInv, TypeOK
  <1> HIDE DEF top
  <1>4. /\ Len(dialogs) \in Nat /\ DOMAIN dialogs = 1 .. Len(dialogs)
        /\ DOMAIN dialogs' = 1 .. Len(dialogs) + 1
        /\ dialogs'[Len(dialogs) + 1] = top
        /\ \A i \in DOMAIN dialogs : dialogs'[i] = dialogs[i]
    BY <1>1 DEF TypeInv, TypeOK
  <1>5. \A i \in DOMAIN dialogs' : i \in DOMAIN dialogs \/ i = Len(dialogs) + 1
    BY <1>4
  <1>6. Pending(c)' => Pending(c)
    BY <1>2, <1>3, <1>4, <1>5 DEF Pending
  <1>7. Single(c) => Single(c)'
    <2> SUFFICES ASSUME Single(c) PROVE Single(c)'
      OBVIOUS
    <2>1. \A i, j \in DOMAIN mail' : mail'[i].of = c /\ mail'[j].of = c => i = j
      BY <1>2 DEF Single
    <2>2. \A i \in DOMAIN mail', j \in DOMAIN dialogs' : ~(mail'[i].of = c /\ dialogs'[j].asks.of = c)
      <3> SUFFICES ASSUME NEW i \in DOMAIN mail', NEW j \in DOMAIN dialogs',
                          mail'[i].of = c, dialogs'[j].asks.of = c
                   PROVE  FALSE
        OBVIOUS
      <3>1. i \in Nat \ {0} /\ i + 1 \in DOMAIN mail /\ mail[i + 1].of = c
        BY <1>2
      <3>2. CASE j \in DOMAIN dialogs
        BY <1>4, <3>1, <3>2 DEF Single
      <3>3. CASE j = Len(dialogs) + 1
        <4>1. mail[1].of = c
          BY <1>3, <1>4, <3>3
        <4>2. i + 1 = 1
          BY <1>2, <3>1, <4>1 DEF Single
        <4> QED BY <1>2, <3>1, <4>2
      <3> QED BY <1>5, <3>2, <3>3
    <2>3. \A i, j \in DOMAIN dialogs' : dialogs'[i].asks.of = c /\ dialogs'[j].asks.of = c => i = j
      <3>1. \A i \in DOMAIN dialogs : dialogs'[i].asks.of = c => mail[1].of # c
        BY <1>2, <1>4 DEF Single
      <3> QED BY <1>3, <1>4, <1>5, <3>1 DEF Single
    <2> QED BY <2>1, <2>2, <2>3 DEF Single
  <1>8. Right(c) => Right(c)'
    <2>1. Wanted(c)' = Wanted(c) /\ Answered(c)' = Answered(c)
      BY <1>1 DEF Wanted, Answered, Own
    <2> QED BY <1>2, <1>3, <1>4, <1>5, <2>1 DEF Right
  <1> QED BY <1>1, <1>6, <1>7, <1>8 DEF InOrder, Answered, Own

\* The answer sets the text that the thread waits for; then the thread is told.
LEMMA OrderSetAuthCredentials ==
    ASSUME TypeInv, AllInOrder, SetAuthCredentials, NEW c \in Conn, ~Disturbed(c)'
    PROVE  InOrder(c)'
  <1> DEFINE n == Len(dialogs)
             top == Last(dialogs)
             q == top.asks
  <1>0. dialogs \in Seq([asks : Question, set : BOOLEAN]) /\ dialogs # <<>>
    BY DEF SetAuthCredentials, TypeInv, TypeOK
  <1>1. ~Disturbed(c) /\ InOrder(c) /\ UNCHANGED <<opening, given, mail>>
    BY DEF AllInOrder, SetAuthCredentials, Disturbed, threadVars
  <1>2. /\ top = dialogs[n] /\ top \in [asks : Question, set : BOOLEAN] /\ n \in DOMAIN dialogs
        /\ \A i \in DOMAIN Front(dialogs) :
              i \in DOMAIN dialogs /\ i # n /\ Front(dialogs)[i] = dialogs[i]
    BY <1>0, OnTop
  <1>3. q.of \in Conn /\ q.crd \in Credential
    BY <1>2 DEF Question
  <1>4. q.of = c => Pending(c) /\ opening[c].at = "waiting" /\ Single(c) /\ Right(c)
    BY <1>1, <1>2 DEF InOrder, Pending
  <1>5. CASE ~top.set
    <2>1. /\ authData' = [authData EXCEPT ![q.of][q.crd] = [of |-> q.of, turn |-> q.turn]]
          /\ dialogs' = [dialogs EXCEPT ![n].set = TRUE]
          /\ authWaitKey' = authWaitKey
      BY <1>5 DEF SetAuthCredentials
    <2>2. /\ DOMAIN dialogs' = DOMAIN dialogs
          /\ \A i \in DOMAIN dialogs : dialogs'[i].asks = dialogs[i].asks
          /\ \A i \in DOMAIN dialogs : i # n => dialogs'[i] = dialogs[i]
      <3>1. \A i \in DOMAIN dialogs : dialogs[i] \in [asks : Question, set : BOOLEAN]
        <4>1. DOMAIN dialogs = 1 .. Len(dialogs)
          BY <1>0
        <4> QED BY <1>0, <4>1, ElementOfSeq
      <3> HIDE DEF n, q
      <3> QED BY <2>1, <3>1
    <2> HIDE DEF n, q, top
    <2>3. /\ Pending(c)' <=> Pending(c)
          /\ Single(c)' <=> Single(c)
      BY <1>1, <2>2 DEF Pending, Single
    <2>4. CASE q.of = c
      <3>1. q = Wanted(c)
        BY <1>2, <1>4, <2>4 DEF Right, q
      <3>2. q.crd = Head(opening[c].crd) /\ [of |-> q.of, turn |-> q.turn] = Own(c)
        BY <3>1 DEF Wanted, Own
      <3>3. authData'[c][q.crd] = Own(c)
        BY <1>3, <2>1, <2>4, <3>2 DEF TypeInv, TypeOK
      <3>4. Answered(c)' /\ Wanted(c)' = Wanted(c) /\ Own(c)' = Own(c)
        BY <1>1, <3>2, <3>3 DEF Answered, Wanted, Own
      <3>5. Right(c)'
        BY <1>1, <1>4, <2>2, <2>4, <3>4 DEF Right
      <3> QED BY <1>1, <1>4, <2>1, <2>3, <2>4, <3>4, <3>5 DEF InOrder
    <2>5. CASE q.of # c
      <3>1. authData'[c] = authData[c]
        BY <1>3, <2>1, <2>5 DEF TypeInv, TypeOK
      <3>2. (Answered(c)' <=> Answered(c)) /\ Wanted(c)' = Wanted(c) /\ Own(c)' = Own(c)
        BY <1>1, <3>1 DEF Answered, Wanted, Own
      <3>3. \A i \in DOMAIN dialogs : dialogs[i].asks.of = c => dialogs'[i] = dialogs[i]
        BY <1>2, <2>2, <2>5 DEF q
      <3>4. Right(c) => Right(c)'
        BY <1>1, <2>2, <3>2, <3>3 DEF Right
      <3> QED BY <1>1, <2>1, <2>3, <3>2, <3>4 DEF InOrder
    <2> QED BY <2>4, <2>5
  <1>6. CASE top.set
    <2>1. /\ authWaitKey' = [authWaitKey EXCEPT ![q.of] = FALSE]
          /\ dialogs' = Front(dialogs) /\ authData' = authData
      BY <1>6 DEF SetAuthCredentials
    <2>2. (Answered(c)' <=> Answered(c)) /\ Wanted(c)' = Wanted(c) /\ Own(c)' = Own(c)
      BY <1>1, <2>1 DEF Answered, Wanted, Own
    <2> HIDE DEF n, q, top
    <2>3. /\ Pending(c)' => Pending(c)
          /\ Single(c) => Single(c)'
          /\ Right(c) => Right(c)'
      BY <1>1, <1>2, <2>1, <2>2 DEF Pending, Single, Right
    <2>4. CASE q.of = c
      <3>1. Answered(c)
        BY <1>2, <1>4, <1>6, <2>4 DEF Right, q
      <3>2. ~Pending(c)'
        BY <1>1, <1>2, <1>4, <2>1, <2>4 DEF Pending, Single, q
      <3> QED BY <1>1, <1>4, <2>2, <2>3, <2>4, <3>1, <3>2 DEF InOrder
    <2>5. CASE q.of # c
      <3>1. authWaitKey'[c] = authWaitKey[c]
        BY <2>1, <2>5 DEF TypeInv, TypeOK
      <3> QED BY <1>1, <2>2, <2>3, <3>1 DEF InOrder
    <2> QED BY <2>4, <2>5
  <1> QED BY <1>5, <1>6

LEMMA OrderStep == TypeInv /\ AllInOrder /\ [Next]_vars => AllInOrder'
  <1> SUFFICES ASSUME TypeInv, AllInOrder, [Next]_vars, NEW c \in Conn, ~Disturbed(c)'
               PROVE  InOrder(c)'
    BY DEF AllInOrder
  <1>1. CASE UNCHANGED vars
    <2>1. Same(c) /\ UNCHANGED guiVars /\ ~Disturbed(c)
      BY <1>1 DEF Same, vars, threadVars, Disturbed
    <2> QED BY <2>1, LeftAlone DEF AllInOrder
  <1>2. ASSUME NEW d \in Conn,
               \/ OpenConnection(d) \/ AuthCallback(d) \/ Ask(d) \/ Told(d)
               \/ TimeOut(d) \/ Take(d) \/ Opened(d)
        PROVE  InOrder(c)'
    BY <1>2, OrderOpenConnection, OrderAuthCallback, OrderAsk, OrderTold, OrderTimeOut,
       OrderTake, OrderOpened
  <1> QED BY <1>1, <1>2, OrderShowDialog, OrderSetAuthCredentials DEF Next

Inv == TypeInv /\ AllInOrder

LEMMA Invariant == Spec => []Inv
  <1>1. Init => AllInOrder
    BY DEF Init, AllInOrder, InOrder, Pending
  <1>2. Init => Inv
    BY <1>1, TypeInitially DEF Inv
  <1>3. Inv /\ [Next]_vars => Inv'
    BY TypeStep, OrderStep DEF Inv
  <1> QED BY <1>2, <1>3, PTL DEF Spec

\* The text that strdup copies for a server is the one that the user has typed for its
\* connection in this attempt, whatever other dialogs are open, if nothing disturbs it.
THEOREM CredentialsGiven == Spec => []CredentialsAreOwn
  <1>1. Inv => CredentialsAreOwn
    BY DEF Inv, AllInOrder, InOrder, Own, CredentialsAreOwn
  <1> QED BY <1>1, Invariant, PTL

\* authCallback copies a null pointer only for a connection whose question timed out or
\* that was opened beside another one.
THEOREM NullAvoided == Spec => []NullNeedsDelay
  <1>1. Inv => NullNeedsDelay
    BY DEF Inv, AllInOrder, InOrder, NullNeedsDelay
  <1> QED BY <1>1, Invariant, PTL

----------------------------------------------------------------------------
(* AppLifecycle in Application.  LP is the same specification as L, with   *)
(* the lemmas about it.  The memory of faults, calm, plays no part in it.  *)

LP == INSTANCE ConnLifecycle_proofs WITH calm <- TRUE

LEMMA SameConnections ==
    /\ L!ConnStep <=> LP!ConnStep
    /\ L!DeliverEvent <=> LP!DeliverEvent
  BY DEF L!ConnStep, LP!ConnStep, L!Worker, LP!Worker, L!Started, LP!Started, L!Emit,
         LP!Emit, L!viewVars, LP!viewVars, L!OpenSucceeds, LP!OpenSucceeds, L!OpenFails,
         LP!OpenFails, L!RegisterConnEvents, LP!RegisterConnEvents, L!LeaveLoop,
         LP!LeaveLoop, L!RemoteClose, LP!RemoteClose, L!EntityControlsUpdated,
         LP!EntityControlsUpdated, L!threadVars, LP!threadVars, L!menuVars, LP!menuVars,
         L!waitVars, LP!waitVars, L!flagVars, LP!flagVars, L!DeliverEvent, LP!DeliverEvent,
         L!StateSignal, LP!StateSignal, L!Row, LP!Row, L!Deliver, LP!Deliver,
         L!SetConnectionState, LP!SetConnectionState, L!ShowInDocks, LP!ShowInDocks,
         L!Shows, LP!Shows, L!CloseSignal, LP!CloseSignal, L!ForwardConnClosed,
         LP!ForwardConnClosed, L!exitVars, LP!exitVars, L!GoesBy, LP!GoesBy

LEMMA SameThreads ==
    /\ L!LoopStep <=> LP!LoopStep
    /\ L!WaitStep <=> LP!WaitStep
  BY DEF L!LoopStep, LP!LoopStep, L!LoopStarts, LP!LoopStarts, L!vars, LP!vars,
         L!threadVars, LP!threadVars, L!viewVars, LP!viewVars, L!menuVars, LP!menuVars,
         L!waitVars, LP!waitVars, L!flagVars, LP!flagVars, L!LoopFails, LP!LoopFails,
         L!FreeCallback, LP!FreeCallback, L!LoopEnds, LP!LoopEnds, L!WaitStep, LP!WaitStep,
         L!WaitPass, LP!WaitPass, L!Awake, LP!Awake, L!Due, LP!Due, L!Row, LP!Row,
         L!WaitSleeps, LP!WaitSleeps, L!WaitEnds, LP!WaitEnds, L!WaitVisit, LP!WaitVisit,
         L!CloseFromWait, LP!CloseFromWait, L!Emit, LP!Emit, L!WaitRemove, LP!WaitRemove,
         L!exitVars, LP!exitVars, L!GoesBy, LP!GoesBy, L!Found, LP!Found

LEMMA SameRows ==
    ASSUME NEW c
    PROVE  /\ L!OverviewRow(c) <=> LP!OverviewRow(c)
           /\ L!RenameRow(c) <=> LP!RenameRow(c)
           /\ L!ClickRenamed(c) <=> LP!ClickRenamed(c)
           /\ L!DeleteRenamed(c) <=> LP!DeleteRenamed(c)
  BY DEF L!OverviewRow, LP!OverviewRow, L!RenameRow, LP!RenameRow, L!ClickRenamed,
         LP!ClickRenamed, L!DeleteRenamed, LP!DeleteRenamed, L!GoesBy, LP!GoesBy, L!Found,
         LP!Found, L!UserActs, LP!UserActs, L!ShowInDocks, LP!ShowInDocks, L!vars, LP!vars,
         L!threadVars, LP!threadVars, L!viewVars, LP!viewVars

LEMMA SameUser ==
    /\ \A c : L!UserStep(c) <=> LP!UserStep(c)
    /\ L!CloseOverviewStep <=> LP!CloseOverviewStep
    /\ L!SearchStarts <=> LP!SearchStarts
    /\ L!SearchEnds <=> LP!SearchEnds
  BY SameRows
     DEF L!UserStep, LP!UserStep, L!Free, LP!Free, L!Pending, LP!Pending, L!StateSignal,
         LP!StateSignal, L!CreateConnection, LP!CreateConnection, L!viewVars, LP!viewVars,
         L!OpenItem, LP!OpenItem, L!UserActs, LP!UserActs, L!CONN_STATE, LP!CONN_STATE,
         L!CloseItem, LP!CloseItem, L!CloseConnection, LP!CloseConnection,
         L!SetConnectionState, LP!SetConnectionState, L!ShowInDocks, LP!ShowInDocks,
         L!ForwardConnClosed, LP!ForwardConnClosed, L!threadVars, LP!threadVars,
         L!DeleteConnection, LP!DeleteConnection, L!menuVars, LP!menuVars, L!waitVars,
         LP!waitVars, L!flagVars, LP!flagVars, L!exitVars, LP!exitVars, L!GoesBy, LP!GoesBy,
         L!Found, LP!Found, L!CloseOverviewStep, LP!CloseOverviewStep, L!SearchStarts,
         LP!SearchStarts, L!RefreshLocalhost, LP!RefreshLocalhost, L!SearchEnds,
         LP!SearchEnds, L!SearchComplete, LP!SearchComplete

LEMMA SameWindow ==
    /\ L!GuiStep <=> LP!GuiStep
    /\ L!RestartApplication <=> LP!RestartApplication
    /\ L!CloseEvent <=> LP!CloseEvent
    /\ L!CloseAgain <=> LP!CloseAgain
  BY DEF L!GuiStep, LP!GuiStep, L!InitConnections, LP!InitConnections, L!Free, LP!Free,
         L!Pending, LP!Pending, L!StateSignal, LP!StateSignal, L!viewVars, LP!viewVars,
         L!vars, LP!vars, L!threadVars, LP!threadVars, L!menuVars, LP!menuVars, L!waitVars,
         LP!waitVars, L!flagVars, LP!flagVars, L!Stop, LP!Stop, L!VirtEventLoopFinished,
         LP!VirtEventLoopFinished, L!TimerStopped, LP!TimerStopped, L!AcceptClose,
         LP!AcceptClose, L!RestartApplication, LP!RestartApplication, L!StartIsOver,
         LP!StartIsOver, L!CloseAllConnections, LP!CloseAllConnections, L!Row, LP!Row,
         L!Settled, LP!Settled, L!CloseEvent, LP!CloseEvent, L!CloseAgain, LP!CloseAgain,
         L!exitVars, LP!exitVars

LEMMA SameNext == L!AppNext <=> LP!AppNext
  BY SameConnections, SameThreads, SameUser, SameWindow DEF L!AppNext, LP!AppNext

\* What AppLifecycle keeps, in the behaviours that are its own; in the others its
\* state stays the initial one.
LEMMA LifecycleKept == AppSpec => []LP!OrderlyExit
  <1>1. AppInit => LP!OrderlyExit
    <2>1. L!AppInit <=> LP!AppInit
      BY DEF L!AppInit, LP!AppInit
    <2> QED BY <2>1, LP!OrderlyInitially, AuthAssumption, LifecycleAssumption DEF AppInit
  <1>2. LP!OrderlyExit /\ [AppNext]_appVars => LP!OrderlyExit'
    <2>1. UNCHANGED lifecycle => UNCHANGED LP!appVars
      BY DEF lifecycle, LP!appVars, LP!vars, LP!threadVars, LP!viewVars, LP!menuVars,
             LP!waitVars, LP!flagVars, LP!exitVars
    <2>2. [AppNext]_appVars => [LP!AppNext]_(LP!appVars)
      BY <2>1, SameNext DEF AppNext, appVars
    <2> QED BY <2>2, LP!OrderlyStep, AuthAssumption, LifecycleAssumption
  <1> QED BY <1>1, <1>2, PTL DEF AppSpec

\* An exit that begins when nothing is in process and is waited for (MainWindow and its
\* Wait and VirtEventLoop threads) ends with every handle closed and no thread running.
THEOREM ExitLeavesNothing == AppSpec => []CleanExit
  <1>1. LP!OrderlyExit => CleanExit
    BY DEF LP!OrderlyExit, LP!CleanExit, CleanExit, L!CleanExit
  <1> QED BY <1>1, LifecycleKept, PTL

\* Wait::run removes no row whose connection is alive.
THEOREM NoHandleIsLost == AppSpec => []LiveHandleIsListed
  <1>1. LP!OrderlyExit => LP!LiveHandleIsListed
    BY LP!OrderlyIsListed, AuthAssumption, LifecycleAssumption
  <1>2. LP!LiveHandleIsListed => LiveHandleIsListed
    BY DEF LP!LiveHandleIsListed, LiveHandleIsListed, L!LiveHandleIsListed
  <1> QED BY <1>1, <1>2, LifecycleKept, PTL
=============================================================================
