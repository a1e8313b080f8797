------------------------ MODULE EntityControls_proofs ------------------------
(***************************************************************************)
(* Proofs about EntityControls, for any entities, any of the seven         *)
(* controls and any number of events: what the list shows when nothing is  *)
(* outstanding, what a context menu acts on, and when an access beyond the *)
(* list can happen.                                                        *)
(***************************************************************************)
EXTENDS EntityControls, FiniteSetTheorems, SequenceTheorems, TLAPS

----------------------------------------------------------------------------
(* What the seven tables have in common.                                   *)

Answers == {"list", "show", "editor", "reload", "told", "changing", "none"}
Ways == {"reload", "task", "dialog", "dialogAndRow", "signal"}
Orders(acts) == [how : Ways, acts : SUBSET acts, exit : Int]
\* Those that do not read the row again.
PlainOrders(acts) == {w \in Orders(acts) : w.how # "dialogAndRow"}

Acts(k) == DOMAIN Control[k].result

\* The answers that are followed by a listing, at least if the task has succeeded.
Followed == {"reload", "told", "changing"}

\* What is ordered has an answer in the table, and one that is followed by a listing
\* unless the task leaves alone what is listed, or finds what others have changed.
TableIsSound(k) ==
    /\ \A method : /\ Branch(Control[k].exec, method) \in Orders(Acts(k))
                   /\ Branch(Control[k].noRow, method) \in PlainOrders(Acts(k))
    /\ Control[k].new \subseteq PlainOrders(Acts(k))
    /\ Control[k].double \in PlainOrders(Acts(k))
    /\ Control[k].result["GET_ALL_ENTITY_STATE"] = "list"
    /\ \A act \in Acts(k) : /\ Control[k].result[act] \in Answers
                            /\ \/ Control[k].result[act] \in Followed
                               \/ <<k, act>> \in Untouching \cup Finding

\* The words of the tables, for what is in them.
WordsAreOrders(acts) ==
    /\ Reload \in PlainOrders(acts) /\ Signal \in PlainOrders(acts)
    /\ \A act \in acts : Task(act) \in PlainOrders(acts) /\ DialogAndRow(act) \in Orders(acts)
    /\ \A some \in SUBSET acts, exit \in Int : Dialog(some, exit) \in PlainOrders(acts)
    /\ PlainOrders(acts) \subseteq Orders(acts)

LEMMA Words == ASSUME NEW acts, "GET_ALL_ENTITY_STATE" \in acts PROVE WordsAreOrders(acts)
  BY DEF WordsAreOrders, PlainOrders, Orders, Ways, Reload, Signal, Task, Dialog, DialogAndRow

LEMMA DomainTable == TableIsSound("VIRT_DOMAIN")
  <1> DEFINE acts == DOMAIN DomRun
  <1>1. WordsAreOrders(acts)
    BY Words DEF DomRun
  <1>2. acts = Acts("VIRT_DOMAIN")
    BY DEF Acts, Control, DomResult
  <1>3. /\ Control["VIRT_DOMAIN"].result["GET_ALL_ENTITY_STATE"] = "list"
        /\ \A act \in acts : /\ Control["VIRT_DOMAIN"].result[act] \in Answers
                            /\ \/ Control["VIRT_DOMAIN"].result[act] \in Followed
                               \/ <<"VIRT_DOMAIN", act>> \in Untouching \cup Finding
    BY DEF Control, DomResult, Answers, Followed, Untouching, Finding, ReadsAndTransfers, Operation,
           Run, DomRun
  <1>4. \A method : /\ Branch(Control["VIRT_DOMAIN"].exec, method) \in Orders(acts)
                   /\ Branch(Control["VIRT_DOMAIN"].noRow, method) \in PlainOrders(acts)
    BY <1>1 DEF WordsAreOrders, Control, DomRun, Branch, DomExecAction, NoRowReload, DomSnapshotDialog
  <1>5. /\ Control["VIRT_DOMAIN"].new \subseteq PlainOrders(acts)
        /\ Control["VIRT_DOMAIN"].double \in PlainOrders(acts)
    BY <1>1 DEF WordsAreOrders, Control, DomRun, DomNewEntity, DomSnapshotDialog, DomDoubleClick
  <1> QED BY <1>2, <1>3, <1>4, <1>5 DEF TableIsSound

LEMMA NetworkTable == TableIsSound("VIRT_NETWORK")
  <1> DEFINE acts == DOMAIN NetRun
  <1>1. WordsAreOrders(acts)
    BY Words DEF NetRun
  <1>2. acts = Acts("VIRT_NETWORK")
    BY DEF Acts, Control, NetResult
  <1>3. /\ Control["VIRT_NETWORK"].result["GET_ALL_ENTITY_STATE"] = "list"
        /\ \A act \in acts : /\ Control["VIRT_NETWORK"].result[act] \in Answers
                            /\ \/ Control["VIRT_NETWORK"].result[act] \in Followed
                               \/ <<"VIRT_NETWORK", act>> \in Untouching \cup Finding
    BY DEF Control, NetResult, Answers, Followed, Untouching, Finding, ReadsAndTransfers, Operation,
           Run, NetRun
  <1>4. \A method : /\ Branch(Control["VIRT_NETWORK"].exec, method) \in Orders(acts)
                   /\ Branch(Control["VIRT_NETWORK"].noRow, method) \in PlainOrders(acts)
    BY <1>1 DEF WordsAreOrders, Control, NetRun, Branch, NetExecAction, NoRowReload
  <1>5. /\ Control["VIRT_NETWORK"].new \subseteq PlainOrders(acts)
        /\ Control["VIRT_NETWORK"].double \in PlainOrders(acts)
    BY <1>1 DEF WordsAreOrders, Control, NetRun, NetNewEntity
  <1> QED BY <1>2, <1>3, <1>4, <1>5 DEF TableIsSound

LEMMA PoolTable == TableIsSound("VIRT_STORAGE_POOL")
  <1> DEFINE acts == DOMAIN PoolRun
  <1>1. WordsAreOrders(acts)
    BY Words DEF PoolRun
  <1>2. acts = Acts("VIRT_STORAGE_POOL")
    BY DEF Acts, Control, PoolResult
  <1>3. /\ Control["VIRT_STORAGE_POOL"].result["GET_ALL_ENTITY_STATE"] = "list"
        /\ \A act \in acts : /\ Control["VIRT_STORAGE_POOL"].result[act] \in Answers
                            /\ \/ Control["VIRT_STORAGE_POOL"].result[act] \in Followed
                               \/ <<"VIRT_STORAGE_POOL", act>> \in Untouching \cup Finding
    BY DEF Control, PoolResult, Answers, Followed, Untouching, Finding, ReadsAndTransfers, Operation,
           Run, PoolRun
  <1>4. \A method : /\ Branch(Control["VIRT_STORAGE_POOL"].exec, method) \in Orders(acts)
                   /\ Branch(Control["VIRT_STORAGE_POOL"].noRow, method) \in PlainOrders(acts)
    BY <1>1 DEF WordsAreOrders, Control, PoolRun, Branch, PoolExecAction, NoRowReload
  <1>5. /\ Control["VIRT_STORAGE_POOL"].new \subseteq PlainOrders(acts)
        /\ Control["VIRT_STORAGE_POOL"].double \in PlainOrders(acts)
    BY <1>1 DEF WordsAreOrders, Control, PoolRun, PoolNewEntity
  <1> QED BY <1>2, <1>3, <1>4, <1>5 DEF TableIsSound

LEMMA VolumeTable == TableIsSound("VIRT_STORAGE_VOLUME")
  <1> DEFINE acts == DOMAIN VolRun
  <1>1. WordsAreOrders(acts)
    BY Words DEF VolRun
  <1>2. acts = Acts("VIRT_STORAGE_VOLUME")
    BY DEF Acts, Control, VolResult
  <1>3. /\ Control["VIRT_STORAGE_VOLUME"].result["GET_ALL_ENTITY_STATE"] = "list"
        /\ \A act \in acts : /\ Control["VIRT_STORAGE_VOLUME"].result[act] \in Answers
                            /\ \/ Control["VIRT_STORAGE_VOLUME"].result[act] \in Followed
                               \/ <<"VIRT_STORAGE_VOLUME", act>> \in Untouching \cup Finding
    BY DEF Control, VolResult, Answers, Followed, Untouching, Finding, ReadsAndTransfers, Operation,
           Run, VolRun
  <1>4. \A method : /\ Branch(Control["VIRT_STORAGE_VOLUME"].exec, method) \in Orders(acts)
                   /\ Branch(Control["VIRT_STORAGE_VOLUME"].noRow, method) \in PlainOrders(acts)
    BY <1>1 DEF WordsAreOrders, Control, VolRun, Branch, VolExecAction, NoRowReload
  <1>5. /\ Control["VIRT_STORAGE_VOLUME"].new \subseteq PlainOrders(acts)
        /\ Control["VIRT_STORAGE_VOLUME"].double \in PlainOrders(acts)
    BY <1>1 DEF WordsAreOrders, Control, VolRun, VolNewEntity
  <1> QED BY <1>2, <1>3, <1>4, <1>5 DEF TableIsSound

LEMMA SecretTable == TableIsSound("VIRT_SECRET")
  <1> DEFINE acts == DOMAIN SecretRun
  <1>1. WordsAreOrders(acts)
    BY Words DEF SecretRun
  <1>2. acts = Acts("VIRT_SECRET")
    BY DEF Acts, Control, SecretResult
  <1>3. /\ Control["VIRT_SECRET"].result["GET_ALL_ENTITY_STATE"] = "list"
        /\ \A act \in acts : /\ Control["VIRT_SECRET"].result[act] \in Answers
                            /\ \/ Control["VIRT_SECRET"].result[act] \in Followed
                               \/ <<"VIRT_SECRET", act>> \in Untouching \cup Finding
    BY DEF Control, SecretResult, Answers, Followed, Untouching, Finding, ReadsAndTransfers, Operation,
           Run, SecretRun
  <1>4. \A method : /\ Branch(Control["VIRT_SECRET"].exec, method) \in Orders(acts)
                   /\ Branch(Control["VIRT_SECRET"].noRow, method) \in PlainOrders(acts)
    BY <1>1 DEF WordsAreOrders, Control, SecretRun, Branch, SecretExecAction, NoRowReload
  <1>5. /\ Control["VIRT_SECRET"].new \subseteq PlainOrders(acts)
        /\ Control["VIRT_SECRET"].double \in PlainOrders(acts)
    BY <1>1 DEF WordsAreOrders, Control, SecretRun
  <1> QED BY <1>2, <1>3, <1>4, <1>5 DEF TableIsSound

LEMMA InterfaceTable == TableIsSound("VIRT_INTERFACE")
  <1> DEFINE acts == DOMAIN IfaceRun
  <1>1. WordsAreOrders(acts)
    BY Words DEF IfaceRun
  <1>2. acts = Acts("VIRT_INTERFACE")
    BY DEF Acts, Control, IfaceResult
  <1>3. /\ Control["VIRT_INTERFACE"].result["GET_ALL_ENTITY_STATE"] = "list"
        /\ \A act \in acts : /\ Control["VIRT_INTERFACE"].result[act] \in Answers
                            /\ \/ Control["VIRT_INTERFACE"].result[act] \in Followed
                               \/ <<"VIRT_INTERFACE", act>> \in Untouching \cup Finding
    BY DEF Control, IfaceResult, Answers, Followed, Untouching, Finding, ReadsAndTransfers, Operation,
           Run, IfaceRun
  <1>4. \A method : /\ Branch(Control["VIRT_INTERFACE"].exec, method) \in Orders(acts)
                   /\ Branch(Control["VIRT_INTERFACE"].noRow, method) \in PlainOrders(acts)
    BY <1>1 DEF WordsAreOrders, Control, IfaceRun, Branch, IfaceExecAction, NoRowReload
  <1>5. /\ Control["VIRT_INTERFACE"].new \subseteq PlainOrders(acts)
        /\ Control["VIRT_INTERFACE"].double \in PlainOrders(acts)
    BY <1>1 DEF WordsAreOrders, Control, IfaceRun, IfaceNewEntity
  <1> QED BY <1>2, <1>3, <1>4, <1>5 DEF TableIsSound

LEMMA FilterTable == TableIsSound("VIRT_NETWORK_FILTER")
  <1> DEFINE acts == DOMAIN FilterRun
  <1>1. WordsAreOrders(acts)
    BY Words DEF FilterRun
  <1>2. acts = Acts("VIRT_NETWORK_FILTER")
    BY DEF Acts, Control, FilterResult
  <1>3. /\ Control["VIRT_NETWORK_FILTER"].result["GET_ALL_ENTITY_STATE"] = "list"
        /\ \A act \in acts : /\ Control["VIRT_NETWORK_FILTER"].result[act] \in Answers
                            /\ \/ Control["VIRT_NETWORK_FILTER"].result[act] \in Followed
                               \/ <<"VIRT_NETWORK_FILTER", act>> \in Untouching \cup Finding
    BY DEF Control, FilterResult, Answers, Followed, Untouching, Finding, ReadsAndTransfers, Operation,
           Run, FilterRun
  <1>4. \A method : /\ Branch(Control["VIRT_NETWORK_FILTER"].exec, method) \in Orders(acts)
                   /\ Branch(Control["VIRT_NETWORK_FILTER"].noRow, method) \in PlainOrders(acts)
    BY <1>1 DEF WordsAreOrders, Control, FilterRun, Branch, FilterExecAction, NoRowReload
  <1>5. /\ Control["VIRT_NETWORK_FILTER"].new \subseteq PlainOrders(acts)
        /\ Control["VIRT_NETWORK_FILTER"].double \in PlainOrders(acts)
    BY <1>1 DEF WordsAreOrders, Control, FilterRun, FilterNewEntity
  <1> QED BY <1>2, <1>3, <1>4, <1>5 DEF TableIsSound

LEMMA TablesAreSound == \A k \in DOMAIN Control : TableIsSound(k)
  <1>1. DOMAIN Control = {"VIRT_DOMAIN", "VIRT_NETWORK", "VIRT_STORAGE_POOL", "VIRT_STORAGE_VOLUME",
                          "VIRT_SECRET", "VIRT_INTERFACE", "VIRT_NETWORK_FILTER"}
    BY DEF Control
  <1> QED BY <1>1, DomainTable, NetworkTable, PoolTable, VolumeTable, SecretTable, InterfaceTable,
             FilterTable

----------------------------------------------------------------------------
(* The invariant.                                                          *)

RowSet == [name : Name, active : BOOLEAN, changing : BOOLEAN]
ReportSet == [name : Name, active : BOOLEAN]
TaskSet ==
    [answer : Answers, effect : SUBSET Name, hidden : BOOLEAN, mark : {"set", "clear", "keep"},
     name : Name \cup {NoName}, ran : BOOLEAN, ok : BOOLEAN, report : Seq(ReportSet)]
MenuSet == [open : BOOLEAN, of : RowSet \cup {NoRow}, relisted : BOOLEAN]
DialogSet ==
    [what : Orders(Acts(kind)), name : Name \cup {NoName}, row : Nat, relisted : BOOLEAN]

TypeOK ==
    /\ kind \in Kinds
    /\ world \in [Name -> Condition]
    /\ rows \in Seq(RowSet)
    /\ current \in Nat
    /\ usable \in BOOLEAN
    /\ menu \in MenuSet
    /\ dialog \in DialogSet
    /\ tasks \in Seq(TaskSet)
    /\ events \in Nat
    /\ stale \in BOOLEAN
    /\ overtaken \in BOOLEAN
    /\ crashed \in BOOLEAN

\* What changes an entity that is listed will be followed by a listing, unless it
\* finds what others have done.
Tells(t) == t.effect # {} => t.answer \in Followed \/ t.hidden
ChangesAreTold == \A i \in DOMAIN tasks : Tells(tasks[i])

\* A task that has run, and whose answer will make the control order a listing.
Brings(t) ==
    /\ t.ran
    /\ t.answer \in {"told", "changing"} \/ (t.answer = "reload" /\ t.ok)

\* These rows, or what a listing reports, are the hypervisor's entities.
RowsTrue(s) ==
    /\ {s[i].name : i \in DOMAIN s} = Present
    /\ Len(s) = Cardinality(Present)
    /\ \A i \in DOMAIN s : s[i].active <=> world[s[i].name] = "active"

\* The listing that was ordered last is still to read the hypervisor, or has read it.
IsLast(i, s) == \A j \in Listings(s) : j <= i
LastIsTrue(s) ==
    \A i \in Listings(s) : IsLast(i, s) => ~s[i].ran \/ RowsTrue(s[i].report)

\* Whatever the list shows now, what is outstanding will make it true.
Agrees(s) ==
    \/ \E i \in DOMAIN s : Brings(s[i])
    \/ LastIsTrue(s) /\ (Listings(s) = {} => RowsTrue(rows))
AgreesAtLast == ~stale /\ ~overtaken => Agrees(tasks)

\* The menu of a row is open alone, on the row that is current.
MenuIsOfRow ==
    menu.open =>
        /\ dialog = NoDialog
        /\ menu.of # NoRow /\ ~menu.relisted =>
               current \in DOMAIN rows /\ rows[current].name = menu.of.name

\* The dialog that reads its row again was opened for a row.
DialogKnowsRow ==
    dialog # NoDialog /\ ~dialog.relisted /\ dialog.what.how = "dialogAndRow"
        => dialog.row \in DOMAIN rows

AtWork == MenuIsOfRow /\ DialogKnowsRow /\ CrashNeedsRelist
Inv == TypeOK /\ ChangesAreTold /\ AgreesAtLast /\ AtWork

----------------------------------------------------------------------------
(* Sequences.                                                              *)

\* The answered task leaves the others in their order.
LEMMA Answered ==
    ASSUME NEW S, NEW s \in Seq(S), NEW i \in 1 .. Len(s)
    PROVE  /\ RemoveAt(s, i) \in Seq(S)
           /\ Len(RemoveAt(s, i)) = Len(s) - 1
           /\ \A j \in 1 .. i - 1 : RemoveAt(s, i)[j] = s[j]
           /\ \A j \in i .. Len(s) - 1 : RemoveAt(s, i)[j] = s[j + 1]
  <1> DEFINE a == SubSeq(s, 1, i - 1)
             b == SubSeq(s, i + 1, Len(s))
  <1>0. Len(s) \in Nat /\ i \in Nat /\ i >= 1 /\ i <= Len(s) /\ \A j \in 1 .. Len(s) : s[j] \in S
    BY ElementOfSeq
  <1>1. /\ a \in Seq(S) /\ Len(a) = i - 1
        /\ \A j \in 1 .. i - 1 : a[j] = s[j]
    <2>1. \A j \in 1 .. i - 1 : s[j] \in S /\ 1 + j - 1 = j
      BY <1>0
    <2>2. /\ a \in Seq(S)
          /\ Len(a) = IF 1 <= i - 1 THEN i - 1 - 1 + 1 ELSE 0
          /\ \A j \in 1 .. i - 1 - 1 + 1 : a[j] = s[1 + j - 1]
      BY <1>0, <2>1, SubSeqProperties
    <2> HIDE DEF a
    <2> QED BY <1>0, <2>1, <2>2
  <1>2. /\ b \in Seq(S) /\ Len(b) = Len(s) - i
        /\ \A j \in 1 .. Len(s) - i : b[j] = s[i + 1 + j - 1]
    <2>1. \A j \in i + 1 .. Len(s) : s[j] \in S
      BY <1>0
    <2>2. /\ b \in Seq(S)
          /\ Len(b) = IF i + 1 <= Len(s) THEN Len(s) - (i + 1) + 1 ELSE 0
          /\ \A j \in 1 .. Len(s) - (i + 1) + 1 : b[j] = s[i + 1 + j - 1]
      BY <1>0, <2>1, SubSeqProperties
    <2> HIDE DEF b
    <2> QED BY <1>0, <2>2
  <1>3. RemoveAt(s, i) = a \o b
    BY DEF RemoveAt
  <1> HIDE DEF a, b
  <1>4. /\ a \o b \in Seq(S) /\ Len(a \o b) = Len(a) + Len(b)
        /\ \A j \in 1 .. Len(a) + Len(b) :
               (a \o b)[j] = IF j <= Len(a) THEN a[j] ELSE b[j - Len(a)]
    BY <1>1, <1>2, ConcatProperties
  <1>5. \A j \in i .. Len(s) - 1 : (a \o b)[j] = s[j + 1]
    <2> SUFFICES ASSUME NEW j \in i .. Len(s) - 1 PROVE (a \o b)[j] = s[j + 1]
      OBVIOUS
    <2>1. j \in 1 .. Len(a) + Len(b) /\ ~ (j <= Len(a)) /\ Len(a) = i - 1
      BY <1>0, <1>1, <1>2
    <2>2. j - (i - 1) \in 1 .. Len(s) - i /\ i + 1 + (j - (i - 1)) - 1 = j + 1
      BY <1>0
    <2>3. b[j - (i - 1)] = s[j + 1]
      BY <1>2, <2>2
    <2> QED BY <1>4, <2>1, <2>3
  <1>6. \A j \in 1 .. i - 1 : (a \o b)[j] = s[j]
    BY <1>0, <1>1, <1>2, <1>4
  <1>7. Len(a \o b) = Len(s) - 1
    BY <1>0, <1>1, <1>2, <1>4
  <1> QED BY <1>3, <1>4, <1>5, <1>6, <1>7

\* What a report lists, in whatever order, is each name once.
LEMMA Ordered ==
    ASSUME NEW T, IsFiniteSet(T), NEW names \in SetToSeqs(T)
    PROVE  /\ names \in [1 .. Cardinality(T) -> T]
           /\ Cardinality(T) \in Nat
           /\ {names[i] : i \in 1 .. Cardinality(T)} = T
  <1> DEFINE D == 1 .. Cardinality(T)
  <1>1. /\ names \in [D -> T]
        /\ \A i, j \in D : i # j => names[i] # names[j]
    BY DEF SetToSeqs
  <1>2. Cardinality(T) \in Nat
    BY FS_CardinalityType
  <1>3. names \in Injection(D, T)
    BY <1>1 DEF Injection, IsInjective
  <1>4. Cardinality(D) = Cardinality(T)
    BY <1>2, FS_Interval
  <1>5. names \in Surjection(D, T)
    BY <1>3, <1>4, FS_Injection
  <1> QED BY <1>1, <1>2, <1>5 DEF Surjection

\* The rows that the list is filled into are as many as are reported, each with or
\* without the mark of a change.
LEMMA Marked ==
    ASSUME NEW s \in Seq(RowSet), NEW n \in Nat, NEW r \in 1 .. n
    PROVE  Resized(s, n)[r].changing \in BOOLEAN
  <1>0. /\ NoRow.changing \in BOOLEAN
        /\ \A i \in 1 .. Len(s) : s[i].changing \in BOOLEAN
    <2>1. \A i \in 1 .. Len(s) : s[i] \in RowSet
      OBVIOUS
    <2>2. \A row \in RowSet : row.changing \in BOOLEAN
      BY DEF RowSet
    <2> QED BY <2>1, <2>2 DEF NoRow
  <1> DEFINE All == RowSet \cup {NoRow}
  <1>1. Len(s) \in Nat /\ s \in Seq(All)
    OBVIOUS
  <1>2. CASE Len(s) > n
    <2>1. \A i \in Len(s) - n + 1 .. Len(s) : s[i] \in RowSet
      BY <1>1, <1>2
    <2>2. \A i \in 1 .. n : Resized(s, n)[i] = s[Len(s) - n + 1 + i - 1]
      BY <1>1, <1>2, <2>1, SubSeqProperties DEF Resized
    <2>3. Len(s) - n + 1 + r - 1 \in 1 .. Len(s)
      BY <1>1, <1>2
    <2> QED BY <1>0, <2>2, <2>3
  <1>3. CASE ~ (Len(s) > n)
    <2> DEFINE top == Min({1, Len(s)})
               a == SubSeq(s, 1, top)
               b == [i \in 1 .. n - Len(s) |-> NoRow]
               c == SubSeq(s, top + 1, Len(s))
    <2>1. top \in Nat /\ top <= Len(s) /\ top = (IF Len(s) = 0 THEN 0 ELSE 1)
      <3>1. top \in {1, Len(s)} /\ \A x \in {1, Len(s)} : top <= x
        <4>1. \E x \in {1, Len(s)} : \A y \in {1, Len(s)} : x <= y
          BY <1>1
        <4> QED BY <4>1 DEF Min
      <3> QED BY <1>1, <3>1
    <2> HIDE DEF top
    <2>0. NoRow \in All /\ \A i \in 1 .. Len(s) : s[i] \in All
      BY <1>1
    <2> HIDE DEF All
    <2>2. a \in Seq(All) /\ Len(a) = top
      <3>1. \A i \in 1 .. top : s[i] \in All
        BY <1>1, <2>0, <2>1
      <3>2. a \in Seq(All) /\ Len(a) = IF 1 <= top THEN top - 1 + 1 ELSE 0
        BY <2>1, <3>1, SubSeqProperties
      <3> HIDE DEF a
      <3> QED BY <2>1, <3>2
    <2>3. b \in Seq(All) /\ Len(b) = n - Len(s)
      BY <1>1, <1>3, <2>0
    <2>4. c \in Seq(All) /\ Len(c) = Len(s) - top
      <3>1. \A i \in top + 1 .. Len(s) : s[i] \in All
        BY <1>1, <2>0, <2>1
      <3>2. c \in Seq(All) /\ Len(c) = IF top + 1 <= Len(s) THEN Len(s) - (top + 1) + 1 ELSE 0
        BY <1>1, <2>1, <3>1, SubSeqProperties
      <3> HIDE DEF c
      <3>3. Len(s) \in Nat /\ top \in Nat /\ top <= Len(s)
        BY <1>1, <2>1
      <3>4. CASE top + 1 <= Len(s)
        BY <3>2, <3>3, <3>4
      <3>5. CASE ~ (top + 1 <= Len(s))
        BY <3>2, <3>3, <3>5
      <3> QED BY <3>4, <3>5
    <2>5. Resized(s, n) = a \o b \o c
      BY <1>3 DEF Resized, top
    <2> HIDE DEF a, b, c
    <2> DEFINE ab == a \o b
    <2>6. ab \in Seq(All) /\ Len(ab) = top + (n - Len(s))
      BY <2>2, <2>3, ConcatProperties
    <2> HIDE DEF ab
    <2>7. ab \o c \in Seq(All) /\ Len(ab \o c) = top + (n - Len(s)) + (Len(s) - top)
      BY <2>4, <2>6, ConcatProperties
    <2>8. Len(ab \o c) = n
      BY <1>1, <2>1, <2>7
    <2>9. (ab \o c)[r] \in All
      BY <2>7, <2>8, ElementOfSeq
    <2>10. \A row \in All : row.changing \in BOOLEAN
      BY <1>0 DEF All, RowSet
    <2> QED BY <2>5, <2>9, <2>10 DEF ab
  <1> QED BY <1>2, <1>3

----------------------------------------------------------------------------
(* Tasks.                                                                  *)

LEMMA TablesKnown ==
    ASSUME TypeOK
    PROVE  TableIsSound(kind) /\ kind \in DOMAIN Control
  BY TablesAreSound, ControlsAssumption DEF TypeOK

\* An order is a task that tells what it changes, and has not run.
LEMMA TaskIsSound ==
    ASSUME TypeOK, NEW act \in Acts(kind), NEW name \in Name \cup {NoName}
    PROVE  /\ TaskFor(act, name) \in TaskSet
           /\ Tells(TaskFor(act, name))
           /\ ~TaskFor(act, name).ran /\ ~Brings(TaskFor(act, name))
           /\ TaskFor(act, name).name = name
           /\ TaskFor(act, name).answer = Control[kind].result[act]
  <1> DEFINE op == <<kind, act>>
             t == TaskFor(act, name)
  <1>1. /\ Control[kind].result[act] \in Answers
        /\ Control[kind].result[act] \in Followed \/ op \in Untouching \cup Finding
    BY TablesKnown DEF TableIsSound
  <1>2. Reach(op, name) \in SUBSET Name /\ (op \in Untouching => Reach(op, name) = {})
    BY DEF Reach
  <1>3. Mark(act) \in {"set", "clear", "keep"}
    BY DEF Mark
  <1>4. <<>> \in Seq(ReportSet)
    OBVIOUS
  <1>5. /\ t.answer = Control[kind].result[act] /\ t.effect = Reach(op, name)
        /\ (t.hidden <=> op \in Finding) /\ t.ran = FALSE /\ t.name = name
    BY DEF TaskFor
  <1>6. t \in TaskSet
    <2>1. (op \in Finding) \in BOOLEAN
      OBVIOUS
    <2> HIDE DEF op
    <2> QED BY <1>1, <1>2, <1>3, <1>4, <2>1 DEF TaskFor, TaskSet, op
  <1>7. Tells(t)
    BY <1>1, <1>2, <1>5 DEF Tells
  <1> QED BY <1>5, <1>6, <1>7 DEF Brings

LEMMA ListingIsSound ==
    ASSUME TypeOK
    PROVE  /\ Listing \in TaskSet /\ Tells(Listing)
           /\ ~Listing.ran /\ Listing.answer = "list"
  <1>1. "GET_ALL_ENTITY_STATE" \in Acts(kind)
    <2>1. kind \in {"VIRT_DOMAIN", "VIRT_NETWORK", "VIRT_STORAGE_POOL", "VIRT_STORAGE_VOLUME",
                    "VIRT_SECRET", "VIRT_INTERFACE", "VIRT_NETWORK_FILTER"}
      BY TablesKnown DEF Control
    <2> QED BY <2>1 DEF Acts, Control, DomResult, NetResult, PoolResult, VolResult, SecretResult,
               IfaceResult, FilterResult, DomRun, NetRun, PoolRun, VolRun, SecretRun, IfaceRun,
               FilterRun
  <1>2. NoName \in Name \cup {NoName}
    OBVIOUS
  <1> QED BY <1>1, <1>2, TaskIsSound, TablesKnown DEF Listing, TableIsSound

\* An order comes after what is outstanding.
LEMMA Appended ==
    ASSUME NEW s \in Seq(TaskSet), NEW t \in TaskSet
    PROVE  /\ Append(s, t) \in Seq(TaskSet)
           /\ Len(Append(s, t)) = Len(s) + 1 /\ Len(s) \in Nat
           /\ DOMAIN Append(s, t) = 1 .. Len(s) + 1 /\ DOMAIN s = 1 .. Len(s)
           /\ \A i \in 1 .. Len(s) : Append(s, t)[i] = s[i]
           /\ Append(s, t)[Len(s) + 1] = t
           /\ Last(Append(s, t)) = t
  BY DEF Last

\* A listing that has just been ordered makes the list true.
LEMMA ListingAgrees ==
    ASSUME TypeOK, UNCHANGED kind, NEW s \in Seq(TaskSet), tasks' = Append(s, Listing)
    PROVE  /\ Agrees(tasks)'
           /\ tasks' \in Seq(TaskSet)
           /\ (\A i \in DOMAIN s : Tells(s[i])) => ChangesAreTold'
           /\ Len(tasks') = Len(s) + 1 /\ Last(tasks').answer = "list"
  <1>1. Listing \in TaskSet /\ Tells(Listing) /\ ~Listing.ran /\ Listing.answer = "list"
    BY ListingIsSound
  <1> DEFINE n == Len(s) + 1
  <1>2. /\ tasks' \in Seq(TaskSet) /\ Len(tasks') = n /\ Len(s) \in Nat
        /\ DOMAIN tasks' = 1 .. n /\ DOMAIN s = 1 .. Len(s)
        /\ \A i \in 1 .. Len(s) : tasks'[i] = s[i]
        /\ tasks'[n] = Listing /\ Last(tasks') = Listing
    BY <1>1, Appended
  <1>3. n \in Listings(tasks')
    BY <1>1, <1>2 DEF Listings
  <1>4. LastIsTrue(tasks)'
    <2> SUFFICES ASSUME NEW i \in Listings(tasks'), \A j \in Listings(tasks') : j <= i
                 PROVE  ~tasks'[i].ran
      BY DEF LastIsTrue, IsLast
    <2>1. i \in 1 .. n /\ n <= i
      BY <1>2, <1>3 DEF Listings
    <2>2. i = n
      BY <1>2, <2>1
    <2> QED BY <1>1, <1>2, <2>2
  <1>5. Agrees(tasks)'
    BY <1>3, <1>4 DEF Agrees
  <1>6. ASSUME \A i \in DOMAIN s : Tells(s[i]) PROVE ChangesAreTold'
    <2> SUFFICES ASSUME NEW i \in 1 .. n PROVE Tells(tasks'[i])
      BY <1>2 DEF ChangesAreTold, Tells
    <2>1. CASE i = n
      BY <1>1, <1>2, <2>1
    <2>2. CASE i \in 1 .. Len(s)
      BY <1>2, <1>6, <2>2
    <2> QED BY <1>2, <2>1, <2>2
  <1> QED BY <1>1, <1>2, <1>5, <1>6

\* Any other order leaves the listings as they are, or is one.
LEMMA OrderAgrees ==
    ASSUME TypeOK, ChangesAreTold, UNCHANGED <<kind, world, rows>>,
           NEW act \in Acts(kind), NEW name \in Name \cup {NoName},
           tasks' = Append(tasks, TaskFor(act, name))
    PROVE  /\ Agrees(tasks) => Agrees(tasks)'
           /\ tasks' \in Seq(TaskSet) /\ ChangesAreTold'
           /\ Len(tasks') = Len(tasks) + 1 /\ Last(tasks').name = name
  <1> DEFINE t == TaskFor(act, name)
             n == Len(tasks) + 1
  <1>1. t \in TaskSet /\ Tells(t) /\ ~t.ran /\ t.name = name
    BY TaskIsSound
  <1> HIDE DEF t
  <1>2. /\ tasks \in Seq(TaskSet)
        /\ tasks' \in Seq(TaskSet) /\ Len(tasks') = n /\ Len(tasks) \in Nat
        /\ DOMAIN tasks' = 1 .. n /\ DOMAIN tasks = 1 .. Len(tasks)
        /\ \A i \in 1 .. Len(tasks) : tasks'[i] = tasks[i]
        /\ tasks'[n] = t /\ Last(tasks') = t
    BY <1>1, Appended DEF TypeOK, t
  <1>3. ChangesAreTold'
    <2> SUFFICES ASSUME NEW i \in 1 .. n PROVE Tells(tasks'[i])
      BY <1>2 DEF ChangesAreTold, Tells
    <2>1. CASE i = n
      BY <1>1, <1>2, <2>1
    <2>2. CASE i \in 1 .. Len(tasks)
      BY <1>2, <2>2 DEF ChangesAreTold
    <2> QED BY <1>2, <2>1, <2>2
  <1>4. ASSUME NEW i \in DOMAIN tasks, Brings(tasks[i]) PROVE Agrees(tasks)'
    <2>1. i \in DOMAIN tasks' /\ tasks'[i] = tasks[i]
      BY <1>2
    <2> QED BY <1>4, <2>1 DEF Agrees, Brings
  <1>5. ASSUME LastIsTrue(tasks), Listings(tasks) = {} => RowsTrue(rows) PROVE Agrees(tasks)'
    <2>1. \A i \in 1 .. Len(tasks) : i \in Listings(tasks') <=> i \in Listings(tasks)
      BY <1>2 DEF Listings
    <2>2. Listings(tasks') \subseteq 1 .. n /\ Listings(tasks) \subseteq 1 .. Len(tasks)
      BY <1>2 DEF Listings
    <2>3. LastIsTrue(tasks)'
      <3> SUFFICES ASSUME NEW i \in Listings(tasks'), \A j \in Listings(tasks') : j <= i
                   PROVE  ~tasks'[i].ran \/ RowsTrue(tasks[i].report)'
        BY DEF LastIsTrue, IsLast
      <3>1. CASE i = n
        BY <1>1, <1>2, <3>1
      <3>2. CASE i \in 1 .. Len(tasks)
        <4>1. i \in Listings(tasks) /\ IsLast(i, tasks)
          BY <2>1, <2>2, <3>2 DEF IsLast
        <4>2. ~tasks[i].ran \/ RowsTrue(tasks[i].report)
          BY <1>5, <4>1 DEF LastIsTrue
        <4>3. tasks'[i] = tasks[i]
          BY <1>2, <3>2
        <4> QED BY <4>2, <4>3 DEF RowsTrue, Present
      <3> QED BY <1>2, <2>2, <3>1, <3>2
    <2>4. Listings(tasks') = {} => RowsTrue(rows)'
      <3>1. Listings(tasks') = {} => Listings(tasks) = {}
        BY <2>1, <2>2
      <3> QED BY <1>5, <3>1 DEF RowsTrue, Present
    <2> QED BY <2>3, <2>4 DEF Agrees
  <1> QED BY <1>1, <1>2, <1>3, <1>4, <1>5 DEF Agrees

----------------------------------------------------------------------------
(* What the user does.                                                     *)

\* What MenuActsOnItsEntity says of a step that acts on the entity name.
ActsOn(name) ==
    /\ Len(tasks') = Len(tasks) + 1 /\ Last(tasks').answer # "list"
           => Last(tasks').name = name
    /\ dialog' # dialog /\ dialog = NoDialog => dialog'.name = name

MenuStep == menu.open /\ menu.of # NoRow /\ ~menu.relisted => ActsOn(menu.of.name)

LEMMA RowFields ==
    ASSUME TypeOK, NEW i \in DOMAIN rows
    PROVE  rows[i] \in RowSet /\ rows[i].name \in Name
  <1>1. rows[i] \in RowSet
    BY DEF TypeOK
  <1> QED BY <1>1 DEF RowSet

LEMMA AgreementKept ==
    ASSUME UNCHANGED <<world, rows, tasks>>
    PROVE  Agrees(tasks)' <=> Agrees(tasks)
  <1>1. \A s : RowsTrue(s)' <=> RowsTrue(s)
    BY DEF RowsTrue, Present
  <1> QED BY <1>1 DEF Agrees, LastIsTrue, IsLast, Listings, RowsTrue, Present, Brings

\* A branch of execAction orders a task for its entity, opens a dialog for it, orders
\* a listing, or leaves all that to the main window.
LEMMA PerformKeeps ==
    ASSUME Inv, ~crashed,
           NEW what \in Orders(Acts(kind)), NEW name \in Name \cup {NoName},
           what.how = "dialogAndRow" => current \in DOMAIN rows,
           Perform(what, name),
           UNCHANGED <<kind, world, rows, stale>>,
           current' \in Nat, menu' \in MenuSet, ~menu'.open, events' \in Nat
    PROVE  Inv' /\ ActsOn(name)
  <1> USE DEF Inv
  <1>0. /\ UNCHANGED kind /\ UNCHANGED world /\ UNCHANGED rows /\ UNCHANGED stale
        /\ UNCHANGED crashed /\ ~crashed'
    BY DEF Perform
  <1>a. /\ kind \in Kinds /\ world \in [Name -> Condition]' /\ rows \in Seq(RowSet)
        /\ usable \in BOOLEAN /\ dialog \in DialogSet' /\ tasks \in Seq(TaskSet)
        /\ stale \in BOOLEAN /\ overtaken \in BOOLEAN /\ crashed \in BOOLEAN /\ Len(tasks) \in Nat
    BY <1>0 DEF TypeOK, Condition, DialogSet, Acts
  <1>1. CASE what.how = "reload" /\ ReloadState(tasks) /\ UNCHANGED dialog
    <2>1. /\ Agrees(tasks)' /\ tasks' \in Seq(TaskSet) /\ ChangesAreTold'
          /\ Len(tasks') = Len(tasks) + 1 /\ Last(tasks').answer = "list"
      BY <1>0, <1>1, <1>a, ListingAgrees DEF ReloadState, ChangesAreTold
    <2>2. usable' \in BOOLEAN /\ overtaken' \in BOOLEAN
      BY <1>1 DEF ReloadState
    <2>3. TypeOK'
      BY <1>0, <1>1, <1>a, <2>1, <2>2 DEF TypeOK
    <2>4. AtWork'
      BY <1>0, <1>1 DEF AtWork, MenuIsOfRow, DialogKnowsRow, CrashNeedsRelist
    <2> QED BY <1>1, <2>1, <2>3, <2>4 DEF AgreesAtLast, ActsOn
  <1>2. CASE \E act \in what.acts : AddNewTask(act, name, tasks) /\ UNCHANGED <<usable, dialog>>
    <2>1. PICK act \in what.acts : AddNewTask(act, name, tasks) /\ UNCHANGED <<usable, dialog>>
      BY <1>2
    <2>2. act \in Acts(kind)
      BY DEF Orders
    <2>3. /\ Agrees(tasks) => Agrees(tasks)'
          /\ tasks' \in Seq(TaskSet) /\ ChangesAreTold'
          /\ Len(tasks') = Len(tasks) + 1 /\ Last(tasks').name = name
      BY <1>0, <2>1, <2>2, OrderAgrees DEF AddNewTask
    <2>4. UNCHANGED overtaken /\ UNCHANGED usable /\ UNCHANGED dialog
      BY <2>1 DEF AddNewTask
    <2>5. TypeOK'
      BY <1>0, <1>a, <2>3, <2>4 DEF TypeOK
    <2>6. AtWork'
      BY <1>0, <2>4 DEF AtWork, MenuIsOfRow, DialogKnowsRow, CrashNeedsRelist
    <2>7. AgreesAtLast'
      BY <1>0, <2>3, <2>4 DEF AgreesAtLast
    <2> QED BY <2>3, <2>4, <2>5, <2>6, <2>7 DEF ActsOn
  <1>3. CASE UNCHANGED tasks /\ UNCHANGED <<usable, overtaken>>
             /\ (dialog' = DialogFor(what, name, current) \/ UNCHANGED dialog)
    <2>1. Agrees(tasks)' <=> Agrees(tasks)
      BY <1>0, <1>3, AgreementKept
    <2>2. ChangesAreTold'
      BY <1>3 DEF ChangesAreTold, Tells
    <2>3. /\ DialogFor(what, name, current) \in DialogSet
          /\ DialogFor(what, name, current).what = what
          /\ DialogFor(what, name, current).row = current
          /\ DialogFor(what, name, current).name = name
      BY DEF TypeOK, DialogFor, DialogSet
    <2>4. DialogSet' = DialogSet
      BY <1>0 DEF DialogSet, Acts
    <2>5. TypeOK'
      BY <1>0, <1>3, <1>a, <2>3, <2>4 DEF TypeOK
    <2>6. DialogKnowsRow'
      BY <1>0, <1>3, <2>3 DEF AtWork, DialogKnowsRow
    <2>7. AtWork'
      BY <1>0, <2>6 DEF AtWork, MenuIsOfRow, CrashNeedsRelist
    <2>8. AgreesAtLast'
      BY <1>0, <1>3, <2>1 DEF AgreesAtLast
    <2> QED BY <1>3, <1>a, <2>2, <2>3, <2>5, <2>7, <2>8 DEF ActsOn
  <1> QED BY <1>1, <1>2, <1>3 DEF Perform

\* execAction acts on the current row, if there is one.
LEMMA ExecKeeps ==
    ASSUME Inv, ~crashed, NEW method, ExecAction(method),
           UNCHANGED <<kind, world, rows, stale>>,
           current' \in Nat, menu' \in MenuSet, ~menu'.open, events' \in Nat
    PROVE  Inv' /\ (current \in DOMAIN rows => ActsOn(rows[current].name))
  <1>1. /\ Branch(Control[kind].exec, method) \in Orders(Acts(kind))
        /\ Branch(Control[kind].noRow, method) \in Orders(Acts(kind))
        /\ Branch(Control[kind].noRow, method).how # "dialogAndRow"
    BY TablesKnown DEF Inv, TableIsSound, PlainOrders
  <1>2. CASE current \in DOMAIN rows
    <2>1. rows[current].name \in Name \cup {NoName}
      BY <1>2, RowFields DEF Inv
    <2> QED BY <1>1, <1>2, <2>1, PerformKeeps DEF ExecAction
  <1>3. CASE current \notin DOMAIN rows
    <2>1. NoName \in Name \cup {NoName}
      OBVIOUS
    <2> QED BY <1>1, <1>3, <2>1, PerformKeeps DEF ExecAction
  <1> QED BY <1>2, <1>3

LEMMA NoRowIsNone == NoRow \notin RowSet /\ NoMenu \in MenuSet /\ ~NoMenu.open
  BY ControlsAssumption DEF NoRow, RowSet, NoMenu, MenuSet

\* A choice from a menu acts on the entity whose menu it is.
LEMMA ChooseKeeps ==
    ASSUME Inv, NEW method, ChooseFromMenu(method)
    PROVE  Inv' /\ MenuStep
  <1>1. /\ ~crashed /\ menu.open /\ menu' = NoMenu /\ ExecAction(method)
        /\ UNCHANGED <<kind, world, rows, stale>> /\ current' = current /\ events' = events
    BY DEF ChooseFromMenu
  <1>2. current' \in Nat /\ menu' \in MenuSet /\ ~menu'.open /\ events' \in Nat
    BY <1>1, NoRowIsNone DEF Inv, TypeOK
  <1>3. Inv' /\ (current \in DOMAIN rows => ActsOn(rows[current].name))
    BY <1>1, <1>2, ExecKeeps
  <1> QED BY <1>1, <1>3 DEF Inv, AtWork, MenuIsOfRow, MenuStep

LEMMA TriggerKeeps ==
    ASSUME Inv, NEW method, DetectTriggeredAction(method)
    PROVE  Inv' /\ MenuStep
  <1>1. /\ ~crashed /\ ~menu.open /\ menu' = menu /\ ExecAction(method)
        /\ UNCHANGED <<kind, world, rows, stale>> /\ current' = current /\ events' = events + 1
    BY DEF DetectTriggeredAction, Act, AtHand
  <1>2. current' \in Nat /\ menu' \in MenuSet /\ ~menu'.open /\ events' \in Nat
    BY <1>1 DEF Inv, TypeOK
  <1>3. Inv'
    BY <1>1, <1>2, ExecKeeps
  <1> QED BY <1>1, <1>3 DEF MenuStep

LEMMA DoubleClickKeeps ==
    ASSUME Inv, NEW i \in DOMAIN rows, EntityDoubleClicked(i)
    PROVE  Inv' /\ MenuStep
  <1>1. /\ ~crashed /\ ~menu.open /\ menu' = menu
        /\ Perform(Control[kind].double, rows[i].name)
        /\ UNCHANGED <<kind, world, rows, stale>> /\ current' = i /\ events' = events + 1
    BY DEF EntityDoubleClicked, Act, AtHand
  <1>2. current' \in Nat /\ menu' \in MenuSet /\ ~menu'.open /\ events' \in Nat
    BY <1>1 DEF Inv, TypeOK
  <1>3. Control[kind].double \in Orders(Acts(kind)) /\ Control[kind].double.how # "dialogAndRow"
    BY TablesKnown DEF Inv, TableIsSound, PlainOrders
  <1>4. rows[i].name \in Name \cup {NoName}
    BY RowFields DEF Inv
  <1>5. Inv'
    BY <1>1, <1>2, <1>3, <1>4, PerformKeeps
  <1> QED BY <1>1, <1>5 DEF MenuStep

LEMMA NewEntityKeeps ==
    ASSUME Inv, NEW what, NewVirtEntityFromXML(what)
    PROVE  Inv' /\ MenuStep
  <1>1. /\ ~crashed /\ ~menu.open /\ menu' = menu /\ what \in Control[kind].new
        /\ Perform(what, NoName)
        /\ UNCHANGED <<kind, world, rows, stale>> /\ current' = current /\ events' = events + 1
    BY DEF NewVirtEntityFromXML, Act, AtHand
  <1>2. current' \in Nat /\ menu' \in MenuSet /\ ~menu'.open /\ events' \in Nat
    BY <1>1 DEF Inv, TypeOK
  <1>3. what \in Orders(Acts(kind)) /\ what.how # "dialogAndRow"
    BY <1>1, TablesKnown DEF Inv, TableIsSound, PlainOrders
  <1>4. NoName \in Name \cup {NoName}
    OBVIOUS
  <1>5. Inv'
    BY <1>1, <1>2, <1>3, <1>4, PerformKeeps
  <1> QED BY <1>1, <1>5 DEF MenuStep

\* Steps that touch neither the tasks nor what the list shows.
LEMMA AsideKeeps ==
    ASSUME Inv, AtWork', current' \in Nat, menu' \in MenuSet, dialog' \in DialogSet,
           events' \in Nat, crashed' \in BOOLEAN,
           UNCHANGED <<kind, world, rows, usable, tasks, stale, overtaken>>
    PROVE  Inv'
  <1> USE DEF Inv
  <1>1. /\ UNCHANGED kind /\ UNCHANGED world /\ UNCHANGED rows /\ UNCHANGED usable
        /\ UNCHANGED tasks /\ UNCHANGED stale /\ UNCHANGED overtaken
    OBVIOUS
  <1>2. Condition' = Condition /\ DialogSet' = DialogSet
    BY <1>1 DEF Condition, DialogSet, Acts
  <1>3. TypeOK'
    BY <1>1, <1>2 DEF TypeOK
  <1>4. Agrees(tasks)' <=> Agrees(tasks)
    BY <1>1, AgreementKept
  <1>5. AgreesAtLast'
    BY <1>1, <1>4 DEF AgreesAtLast
  <1>6. ChangesAreTold'
    BY <1>1 DEF ChangesAreTold, Tells
  <1> QED BY <1>3, <1>5, <1>6

\* Clicks choose the row that a menu is for.
LEMMA ClickKeeps ==
    ASSUME Inv,
           \/ \E i \in DOMAIN rows : SelectRow(i) \/ EntityClicked(i)
           \/ ClickedBesideRows
    PROVE  Inv' /\ MenuStep
  <1> USE DEF AtHand
  <1>0. TypeOK /\ AtWork /\ rows \in Seq(RowSet)
    BY DEF Inv, TypeOK
  <1>1. ASSUME NEW i \in DOMAIN rows, SelectRow(i) PROVE Inv' /\ MenuStep
    <2>1. /\ ~menu.open /\ dialog = NoDialog /\ current' = i /\ i \in Nat
          /\ UNCHANGED <<kind, world, rows, usable, tasks, stale, overtaken>>
          /\ UNCHANGED menu /\ UNCHANGED dialog /\ UNCHANGED crashed /\ UNCHANGED events
          /\ UNCHANGED rows
      BY <1>0, <1>1 DEF SelectRow, ghosts
    <2>2. AtWork'
      BY <1>0, <2>1 DEF AtWork, MenuIsOfRow, DialogKnowsRow, CrashNeedsRelist
    <2> QED BY <1>0, <2>1, <2>2, AsideKeeps DEF TypeOK, MenuStep
  <1>2. ASSUME NEW i \in DOMAIN rows, EntityClicked(i) PROVE Inv' /\ MenuStep
    <2>1. /\ ~menu.open /\ dialog = NoDialog /\ current' = i /\ i \in Nat
          /\ UNCHANGED <<kind, world, rows, usable, tasks, stale, overtaken>>
          /\ UNCHANGED dialog /\ UNCHANGED crashed /\ events' = events + 1
          /\ UNCHANGED rows
          /\ menu' = MenuOf(rows[i])
      BY <1>0, <1>2 DEF EntityClicked, ghosts, Act
    <2>2. menu' \in MenuSet /\ menu'.of = rows[i]
      BY <1>0, <2>1, RowFields DEF MenuOf, MenuSet
    <2>3. AtWork'
      BY <1>0, <2>1, <2>2 DEF AtWork, MenuIsOfRow, DialogKnowsRow, CrashNeedsRelist
    <2> QED BY <1>0, <2>1, <2>2, <2>3, AsideKeeps DEF TypeOK, MenuStep
  <1>3. CASE ClickedBesideRows
    <2>1. /\ ~menu.open /\ dialog = NoDialog
          /\ UNCHANGED <<kind, world, rows, usable, tasks, stale, overtaken>>
          /\ UNCHANGED dialog /\ UNCHANGED crashed /\ events' = events + 1
          /\ UNCHANGED rows /\ UNCHANGED current
          /\ menu' = MenuOf(NoRow)
      BY <1>3 DEF ClickedBesideRows, ghosts, Act
    <2>2. menu' \in MenuSet /\ menu'.of = NoRow
      BY <2>1 DEF MenuOf, MenuSet
    <2>3. AtWork'
      BY <1>0, <2>1, <2>2 DEF AtWork, MenuIsOfRow, DialogKnowsRow, CrashNeedsRelist
    <2> QED BY <1>0, <2>1, <2>2, <2>3, AsideKeeps DEF TypeOK, MenuStep
  <1> QED BY <1>1, <1>2, <1>3

\* No dialog is the one of a signal, so that it is not one that reads its row again.
LEMMA NoDialogTyped == ASSUME TypeOK PROVE NoDialog \in DialogSet
  <1>1. Signal \in Orders(Acts(kind))
    BY DEF Signal, Orders, Ways
  <1> QED BY <1>1 DEF NoDialog, DialogSet

\* A menu or a dialog is left.
LEMMA LeaveKeeps ==
    ASSUME Inv, CloseMenu \/ CancelDialog
    PROVE  Inv' /\ MenuStep
  <1>0. TypeOK /\ AtWork
    BY DEF Inv
  <1>1. CASE CloseMenu
    <2>1. /\ UNCHANGED <<kind, world, rows, usable, tasks, stale, overtaken>>
          /\ UNCHANGED dialog /\ UNCHANGED crashed /\ UNCHANGED events /\ UNCHANGED current
          /\ UNCHANGED rows /\ UNCHANGED tasks
          /\ menu' = NoMenu
      BY <1>1 DEF CloseMenu, ghosts
    <2>2. AtWork' /\ menu' \in MenuSet
      BY <1>0, <2>1, NoRowIsNone DEF AtWork, MenuIsOfRow, DialogKnowsRow, CrashNeedsRelist
    <2>3. Len(tasks') # Len(tasks) + 1
      BY <1>0, <2>1 DEF TypeOK
    <2> QED BY <1>0, <2>1, <2>2, <2>3, AsideKeeps DEF TypeOK, MenuStep, ActsOn
  <1>2. CASE CancelDialog
    <2>1. /\ UNCHANGED <<kind, world, rows, usable, tasks, stale, overtaken>>
          /\ UNCHANGED menu /\ UNCHANGED crashed /\ UNCHANGED events /\ UNCHANGED current
          /\ UNCHANGED rows /\ UNCHANGED tasks /\ ~crashed
          /\ dialog # NoDialog /\ dialog' = NoDialog
      BY <1>2 DEF CancelDialog, ghosts
    <2>2. AtWork' /\ ~menu.open
      BY <1>0, <2>1 DEF AtWork, MenuIsOfRow, DialogKnowsRow, CrashNeedsRelist
    <2>3. dialog' \in DialogSet
      BY <1>0, <2>1, NoDialogTyped
    <2> QED BY <1>0, <2>1, <2>2, <2>3, AsideKeeps DEF TypeOK, MenuStep
  <1> QED BY <1>1, <1>2

\* An accepted dialog orders its task, or reads its row again: where the list has
\* not been filled since, the row is still there.
LEMMA AcceptKeeps ==
    ASSUME Inv, AcceptDialog
    PROVE  Inv' /\ MenuStep
  <1> DEFINE order == \E act \in dialog.what.acts : AddNewTask(act, dialog.name, tasks)
             beyond == dialog.what.how = "dialogAndRow" /\ dialog.row \notin DOMAIN rows
  <1>0. /\ TypeOK /\ AtWork /\ ChangesAreTold /\ AgreesAtLast
        /\ UNCHANGED kind /\ UNCHANGED world /\ UNCHANGED rows /\ UNCHANGED current
        /\ UNCHANGED usable /\ UNCHANGED menu /\ UNCHANGED events /\ UNCHANGED stale
        /\ ~crashed /\ dialog # NoDialog
        /\ UNCHANGED <<kind, world, rows>>
    BY DEF Inv, AcceptDialog
  <1>1. ~menu.open
    BY <1>0 DEF AtWork, MenuIsOfRow
  <1>2. CASE order /\ dialog' = NoDialog /\ UNCHANGED crashed
    <2>1. PICK act \in dialog.what.acts : AddNewTask(act, dialog.name, tasks)
      BY <1>2
    <2>2. act \in Acts(kind) /\ dialog.name \in Name \cup {NoName}
      BY <1>0 DEF TypeOK, DialogSet, Orders
    <2>3. /\ Agrees(tasks) => Agrees(tasks)'
          /\ tasks' \in Seq(TaskSet) /\ ChangesAreTold'
      BY <1>0, <2>1, <2>2, OrderAgrees DEF AddNewTask
    <2>4. UNCHANGED overtaken
      BY <2>1 DEF AddNewTask
    <2>5. dialog' \in DialogSet /\ DialogSet' = DialogSet /\ Condition' = Condition
      BY <1>0, <1>2, NoDialogTyped DEF DialogSet, Acts, Condition
    <2>6. TypeOK'
      BY <1>0, <1>2, <2>3, <2>4, <2>5 DEF TypeOK
    <2>7. AtWork'
      BY <1>0, <1>1, <1>2 DEF AtWork, MenuIsOfRow, DialogKnowsRow, CrashNeedsRelist
    <2>8. AgreesAtLast'
      BY <1>0, <2>3, <2>4 DEF AgreesAtLast
    <2> QED BY <1>1, <2>3, <2>6, <2>7, <2>8 DEF Inv, MenuStep
  <1>3. CASE beyond /\ crashed' = TRUE /\ UNCHANGED <<dialog, tasks, overtaken>>
    <2>1. dialog.relisted
      BY <1>0, <1>3 DEF AtWork, DialogKnowsRow
    <2>2. AtWork'
      BY <1>0, <1>1, <1>3, <2>1 DEF AtWork, MenuIsOfRow, DialogKnowsRow, CrashNeedsRelist
    <2>3. Inv'
      BY <1>0, <1>3, <2>2, AsideKeeps DEF TypeOK
    <2> QED BY <1>1, <2>3 DEF MenuStep
  <1>4. CASE dialog' = NoDialog /\ UNCHANGED <<tasks, overtaken, crashed>>
    <2>1. AtWork' /\ dialog' \in DialogSet
      BY <1>0, <1>1, <1>4, NoDialogTyped DEF AtWork, MenuIsOfRow, DialogKnowsRow, CrashNeedsRelist
    <2>2. Inv'
      BY <1>0, <1>4, <2>1, AsideKeeps DEF TypeOK
    <2> QED BY <1>1, <2>2 DEF MenuStep
  <1> QED BY <1>2, <1>3, <1>4 DEF AcceptDialog

LEMMA ReloadKeeps ==
    ASSUME Inv, ReloadByItself
    PROVE  Inv' /\ MenuStep
  <1>0. /\ TypeOK /\ AtWork /\ ChangesAreTold
        /\ UNCHANGED kind /\ UNCHANGED world /\ UNCHANGED rows /\ UNCHANGED current
        /\ UNCHANGED dialog /\ UNCHANGED menu /\ UNCHANGED stale /\ UNCHANGED crashed
        /\ events' = events + 1 /\ ReloadState(tasks) /\ tasks \in Seq(TaskSet)
    BY DEF Inv, ReloadByItself, Act, TypeOK
  <1>1. /\ Agrees(tasks)' /\ tasks' \in Seq(TaskSet) /\ ChangesAreTold'
        /\ Last(tasks').answer = "list"
    BY <1>0, ListingAgrees DEF ReloadState, ChangesAreTold
  <1>2. usable' \in BOOLEAN /\ overtaken' \in BOOLEAN
    BY <1>0 DEF ReloadState
  <1>3. DialogSet' = DialogSet /\ Condition' = Condition
    BY <1>0 DEF DialogSet, Acts, Condition
  <1>4. TypeOK'
    BY <1>0, <1>1, <1>2, <1>3 DEF TypeOK
  <1>5. AtWork'
    BY <1>0 DEF AtWork, MenuIsOfRow, DialogKnowsRow, CrashNeedsRelist
  <1> QED BY <1>0, <1>1, <1>4, <1>5 DEF Inv, AgreesAtLast, MenuStep, ActsOn

\* Somebody else changes the hypervisor.
LEMMA WorldKeeps ==
    ASSUME Inv, WorldChanges
    PROVE  Inv' /\ MenuStep
  <1>0. /\ TypeOK /\ AtWork /\ ChangesAreTold
        /\ UNCHANGED kind /\ UNCHANGED rows /\ UNCHANGED current /\ UNCHANGED usable
        /\ UNCHANGED dialog /\ UNCHANGED menu /\ UNCHANGED overtaken /\ UNCHANGED crashed
        /\ UNCHANGED tasks
        /\ events' = events + 1 /\ stale' = TRUE /\ Changed(Name)
    BY DEF Inv, WorldChanges, Act, uiVars
  <1>1. DialogSet' = DialogSet /\ Condition' = Condition
    BY <1>0 DEF DialogSet, Acts, Condition
  <1>2. world' \in [Name -> Condition]
    BY <1>0 DEF TypeOK, Changed
  <1>3. TypeOK'
    BY <1>0, <1>1, <1>2 DEF TypeOK
  <1>4. AtWork' /\ ChangesAreTold' /\ AgreesAtLast'
    BY <1>0 DEF AtWork, MenuIsOfRow, DialogKnowsRow, CrashNeedsRelist, ChangesAreTold, Tells,
                AgreesAtLast
  <1>5. Len(tasks') # Len(tasks) + 1
    BY <1>0 DEF TypeOK
  <1> QED BY <1>0, <1>3, <1>4, <1>5 DEF Inv, MenuStep, ActsOn

----------------------------------------------------------------------------
(* What the tasks do.                                                      *)

\* A listing reports what the hypervisor has while it runs.
LEMMA ReportIsTrue ==
    ASSUME TypeOK, NEW names \in SetToSeqs(Present)
    PROVE  ReportOf(names) \in Seq(ReportSet) /\ RowsTrue(ReportOf(names))
  <1> DEFINE n == Cardinality(Present)
             report == ReportOf(names)
  <1>1. IsFiniteSet(Present) /\ Present \subseteq Name
    BY ControlsAssumption, FS_Subset DEF Present
  <1>2. /\ names \in [1 .. n -> Present] /\ n \in Nat
        /\ {names[i] : i \in 1 .. n} = Present
    BY <1>1, Ordered
  <1>3. /\ report = [i \in 1 .. n |-> [name |-> names[i], active |-> world[names[i]] = "active"]]
        /\ \A i \in 1 .. n : names[i] \in Name
    BY <1>1, <1>2 DEF ReportOf
  <1>4. \A i \in 1 .. n : /\ report[i] \in ReportSet
                          /\ report[i].name = names[i]
                          /\ report[i].active <=> world[names[i]] = "active"
    <2> TAKE i \in 1 .. n
    <2> DEFINE running == world[names[i]] = "active"
    <2>1. names[i] \in Name /\ running \in BOOLEAN
      BY <1>3
    <2>2. report[i] = [name |-> names[i], active |-> running]
      BY <1>3
    <2> HIDE DEF running, report
    <2>3. report[i].active <=> running
      <3>1. report[i].active = running
        BY <2>2
      <3> QED BY <3>1
    <2>4. report[i] \in ReportSet /\ report[i].name = names[i]
      BY <2>1, <2>2 DEF ReportSet
    <2> QED BY <2>3, <2>4 DEF running
  <1>5. DOMAIN report = 1 .. n
    BY <1>3
  <1> HIDE DEF report, n
  <1>6. report \in Seq(ReportSet) /\ Len(report) = n
    <2>1. report \in [1 .. n -> ReportSet]
      <3>1. report = [i \in 1 .. n |-> report[i]]
        BY <1>3
      <3> QED BY <1>4, <3>1
    <2> QED BY <1>2, <2>1
  <1>7. {report[i].name : i \in DOMAIN report} = Present
    BY <1>2, <1>4, <1>5
  <1> QED BY <1>4, <1>5, <1>6, <1>7 DEF RowsTrue, report, n

\* A task that runs keeps its place and what it is for.
Runs(i, ok, report) ==
    /\ tasks'[i].ran /\ (tasks'[i].ok <=> ok) /\ tasks'[i].report = report
    /\ tasks'[i].answer = tasks[i].answer /\ tasks'[i].effect = tasks[i].effect
    /\ tasks'[i].hidden = tasks[i].hidden
    /\ tasks' \in Seq(TaskSet) /\ Len(tasks') = Len(tasks)
    /\ DOMAIN tasks' = DOMAIN tasks
    /\ \A j \in DOMAIN tasks : j # i => tasks'[j] = tasks[j]
    /\ Listings(tasks') = Listings(tasks)

LEMMA RunsOn ==
    ASSUME TypeOK, NEW i \in DOMAIN tasks, NEW u \in TaskSet, u.ran,
           u.answer = tasks[i].answer, u.effect = tasks[i].effect, u.hidden = tasks[i].hidden,
           tasks' = [tasks EXCEPT ![i] = u]
    PROVE  Runs(i, u.ok, u.report)
  <1>1. /\ tasks \in Seq(TaskSet) /\ tasks' \in Seq(TaskSet) /\ Len(tasks') = Len(tasks)
        /\ DOMAIN tasks' = DOMAIN tasks
        /\ tasks'[i] = u
        /\ \A j \in DOMAIN tasks : j # i => tasks'[j] = tasks[j]
    BY DEF TypeOK
  <1>2. Listings(tasks') = Listings(tasks)
    BY <1>1 DEF Listings
  <1> QED BY <1>1, <1>2 DEF Runs

\* With its entities in hand, a task that has run takes its place among the rest.
LEMMA TaskEndsWell ==
    ASSUME Inv, NEW i \in DOMAIN tasks, NEW ok, NEW report, Runs(i, ok, report), ~crashed,
           UNCHANGED <<kind, uiVars, events, overtaken, crashed>>,
           world' \in [Name -> Condition], stale' \in BOOLEAN, AgreesAtLast'
    PROVE  Inv' /\ MenuStep
  <1>0. /\ TypeOK /\ AtWork /\ ChangesAreTold
        /\ UNCHANGED kind /\ UNCHANGED rows /\ UNCHANGED current /\ UNCHANGED usable
        /\ UNCHANGED dialog /\ UNCHANGED menu /\ UNCHANGED overtaken /\ UNCHANGED crashed
        /\ UNCHANGED events
    BY DEF Inv, uiVars
  <1>1. DialogSet' = DialogSet /\ Condition' = Condition /\ tasks' \in Seq(TaskSet)
    BY <1>0 DEF DialogSet, Acts, Condition, Runs
  <1>2. TypeOK'
    BY <1>0, <1>1 DEF TypeOK
  <1>3. AtWork'
    BY <1>0 DEF AtWork, MenuIsOfRow, DialogKnowsRow, CrashNeedsRelist
  <1>4. ChangesAreTold'
    <2> SUFFICES ASSUME NEW j \in DOMAIN tasks PROVE Tells(tasks'[j])
      BY DEF Runs, ChangesAreTold, Tells
    <2>1. Tells(tasks[j])
      BY <1>0 DEF ChangesAreTold
    <2> QED BY <2>1 DEF Runs, Tells
  <1>5. Len(tasks') # Len(tasks) + 1
    <2>1. Len(tasks') = Len(tasks)
      BY DEF Runs
    <2> QED BY <1>0, <2>1 DEF TypeOK
  <1> QED BY <1>0, <1>2, <1>3, <1>4, <1>5 DEF Inv, MenuStep, ActsOn

\* A listing that runs reads the hypervisor as it is; one that fails reads nothing.
LEMMA ListingKeeps ==
    ASSUME Inv, NEW i \in DOMAIN tasks, ~tasks[i].ran, RunListing(i), ~crashed,
           UNCHANGED <<kind, uiVars, events, overtaken, crashed>>
    PROVE  Inv' /\ MenuStep
  <1> DEFINE t == tasks[i]
  <1>0. /\ TypeOK /\ AgreesAtLast /\ t \in TaskSet /\ t.answer = "list"
        /\ UNCHANGED world /\ UNCHANGED rows /\ UNCHANGED kind
        /\ world' \in [Name -> Condition] /\ UNCHANGED overtaken
    <2>1. TypeOK /\ AgreesAtLast /\ UNCHANGED rows /\ UNCHANGED kind /\ UNCHANGED overtaken
      BY DEF Inv, uiVars
    <2>2. t.answer = "list" /\ UNCHANGED world
      BY DEF RunListing
    <2> QED BY <2>1, <2>2 DEF TypeOK
  <1>1. ASSUME NEW names \in SetToSeqs(Present),
               tasks' = [tasks EXCEPT ![i].ran = TRUE, ![i].ok = TRUE, ![i].report = ReportOf(names)],
               stale' = (stale /\ \E j \in Listings(tasks) : tasks[j].ran)
        PROVE  Inv' /\ MenuStep
    <2> DEFINE u == [t EXCEPT !.ran = TRUE, !.ok = TRUE, !.report = ReportOf(names)]
    <2>1. ReportOf(names) \in Seq(ReportSet) /\ RowsTrue(ReportOf(names))
      BY <1>0, ReportIsTrue
    <2>2. /\ u \in TaskSet /\ u.ran /\ u.report = ReportOf(names) /\ u.answer = t.answer
          /\ u.effect = t.effect /\ u.hidden = t.hidden
      BY <1>0, <2>1 DEF TaskSet
    <2>3. tasks' = [tasks EXCEPT ![i] = u]
      BY <1>1
    <2> HIDE DEF u
    <2>4. Runs(i, u.ok, ReportOf(names))
      BY <1>0, <2>2, <2>3, RunsOn
    <2>5. RowsTrue(tasks[i].report)' /\ i \in Listings(tasks)
      <3> DEFINE report == ReportOf(names)
      <3> HIDE DEF report
      <3>1. ASSUME NEW s, RowsTrue(s) PROVE /\ {s[j].name : j \in DOMAIN s} = Present'
                                           /\ Len(s) = Cardinality(Present')
                                           /\ \A j \in DOMAIN s : s[j].active <=> world'[s[j].name] = "active"
        BY <1>0, <3>1 DEF RowsTrue, Present
      <3>2. tasks'[i].report = report
        BY <2>4 DEF Runs, report
      <3>3. RowsTrue(report)
        BY <2>1 DEF report
      <3> QED BY <1>0, <3>1, <3>2, <3>3 DEF RowsTrue, Listings
    <2>6. AgreesAtLast'
      <3> SUFFICES ASSUME ~stale', ~overtaken PROVE Agrees(tasks)'
        BY <1>0 DEF AgreesAtLast
      <3>1. ASSUME NEW j \in DOMAIN tasks, Brings(tasks[j]) PROVE Agrees(tasks)'
        <4>1. j # i
          BY <1>0, <3>1 DEF Brings
        <4>2. j \in DOMAIN tasks' /\ tasks'[j] = tasks[j]
          BY <2>4, <4>1 DEF Runs
        <4> QED BY <3>1, <4>2 DEF Agrees, Brings
      <3>2. ASSUME \/ LastIsTrue(tasks)
                   \/ \A j \in Listings(tasks) : ~tasks[j].ran
            PROVE  Agrees(tasks)'
        <4>1. LastIsTrue(tasks)'
          <5> SUFFICES ASSUME NEW j \in Listings(tasks'), IsLast(j, tasks)'
                       PROVE  ~tasks'[j].ran \/ RowsTrue(tasks[j].report)'
            BY DEF LastIsTrue
          <5>1. j \in Listings(tasks) /\ IsLast(j, tasks)
            BY <2>4 DEF Runs, IsLast
          <5>2. CASE j = i
            BY <2>5, <5>2
          <5>3. CASE j # i
            <6>1. ~tasks[j].ran \/ RowsTrue(tasks[j].report)
              BY <3>2, <5>1 DEF LastIsTrue
            <6>2. tasks'[j] = tasks[j]
              BY <2>4, <5>1, <5>3 DEF Runs, Listings
            <6> QED BY <1>0, <6>1, <6>2 DEF RowsTrue, Present
          <5> QED BY <5>2, <5>3
        <4>2. Listings(tasks') # {}
          BY <2>4, <2>5 DEF Runs
        <4> QED BY <4>1, <4>2 DEF Agrees
      <3>3. CASE stale
        BY <1>1, <3>2, <3>3
      <3>4. CASE ~stale
        <4>1. Agrees(tasks)
          BY <1>0, <3>4 DEF AgreesAtLast
        <4> QED BY <3>1, <3>2, <4>1 DEF Agrees
      <3> QED BY <3>3, <3>4
    <2>7. stale' \in BOOLEAN
      BY <1>1
    <2> QED BY <1>0, <2>4, <2>6, <2>7, TaskEndsWell
  <1>2. ASSUME tasks' = [tasks EXCEPT ![i].ran = TRUE], stale' = TRUE
        PROVE  Inv' /\ MenuStep
    <2> DEFINE u == [t EXCEPT !.ran = TRUE]
    <2>1. /\ u \in TaskSet /\ u.ran /\ u.answer = t.answer
          /\ u.effect = t.effect /\ u.hidden = t.hidden
      BY <1>0 DEF TaskSet
    <2>2. tasks' = [tasks EXCEPT ![i] = u]
      BY <1>2
    <2> HIDE DEF u
    <2>3. Runs(i, u.ok, u.report)
      BY <1>0, <2>1, <2>2, RunsOn
    <2>4. AgreesAtLast' /\ stale' \in BOOLEAN
      BY <1>2 DEF AgreesAtLast
    <2> QED BY <1>0, <2>3, <2>4, TaskEndsWell
  <1> QED BY <1>1, <1>2 DEF RunListing

\* An action that runs changes what it is for, and its answer will be followed by a
\* listing then; or it finds what others have done.
LEMMA ActionKeeps ==
    ASSUME Inv, NEW i \in DOMAIN tasks, ~tasks[i].ran, RunAction(i), ~crashed,
           UNCHANGED <<kind, uiVars, events, overtaken, crashed>>
    PROVE  Inv' /\ MenuStep
  <1> DEFINE t == tasks[i]
  <1>0. /\ TypeOK /\ AgreesAtLast /\ t \in TaskSet /\ t.answer # "list" /\ Tells(t)
        /\ UNCHANGED rows /\ UNCHANGED kind /\ UNCHANGED overtaken
    <2>1. /\ TypeOK /\ AgreesAtLast /\ ChangesAreTold
          /\ UNCHANGED rows /\ UNCHANGED kind /\ UNCHANGED overtaken
      BY DEF Inv, uiVars
    <2>2. t.answer # "list"
      BY DEF RunAction
    <2> QED BY <2>1, <2>2 DEF TypeOK, ChangesAreTold
  \* Where the hypervisor stays as it is, so does what is outstanding.
  <1>1. ASSUME NEW ok, NEW report, Runs(i, ok, report), UNCHANGED world, Agrees(tasks)
        PROVE  Agrees(tasks)'
    <2>0. \A s : RowsTrue(s)' <=> RowsTrue(s)
      BY <1>0, <1>1 DEF RowsTrue, Present
    <2>1. ASSUME NEW j \in DOMAIN tasks, Brings(tasks[j]) PROVE Agrees(tasks)'
      <3>1. j # i
        BY <2>1 DEF Brings
      <3>2. j \in DOMAIN tasks' /\ tasks'[j] = tasks[j]
        BY <1>1, <3>1 DEF Runs
      <3> QED BY <2>1, <3>2 DEF Agrees, Brings
    <2>2. ASSUME LastIsTrue(tasks), Listings(tasks) = {} => RowsTrue(rows) PROVE Agrees(tasks)'
      <3>1. LastIsTrue(tasks)'
        <4> SUFFICES ASSUME NEW j \in Listings(tasks'), IsLast(j, tasks)'
                     PROVE  ~tasks'[j].ran \/ RowsTrue(tasks[j].report)'
          BY DEF LastIsTrue
        <4>1. j \in Listings(tasks) /\ IsLast(j, tasks)
          BY <1>1 DEF Runs, IsLast
        <4>2. tasks'[j] = tasks[j]
          BY <1>0, <1>1, <4>1 DEF Runs, Listings
        <4>3. ~tasks[j].ran \/ RowsTrue(tasks[j].report)
          BY <2>2, <4>1 DEF LastIsTrue
        <4> QED BY <1>0, <1>1, <4>2, <4>3 DEF RowsTrue, Present
      <3>2. Listings(tasks') = {} => RowsTrue(rows)'
        BY <1>0, <1>1, <2>2 DEF Runs, RowsTrue, Present
      <3> QED BY <3>1, <3>2 DEF Agrees
    <2> QED BY <1>1, <2>1, <2>2 DEF Agrees
  <1>2. ASSUME tasks' = [tasks EXCEPT ![i].ran = TRUE], UNCHANGED <<world, stale>>
        PROVE  Inv' /\ MenuStep
    <2> DEFINE u == [t EXCEPT !.ran = TRUE]
    <2>1. /\ u \in TaskSet /\ u.ran /\ u.answer = t.answer
          /\ u.effect = t.effect /\ u.hidden = t.hidden
      BY <1>0 DEF TaskSet
    <2>2. tasks' = [tasks EXCEPT ![i] = u]
      BY <1>2
    <2> HIDE DEF u
    <2>3. Runs(i, u.ok, u.report)
      BY <1>0, <2>1, <2>2, RunsOn
    <2>4. UNCHANGED world /\ UNCHANGED stale
      BY <1>2
    <2>5. Agrees(tasks) => Agrees(tasks)'
      BY <1>1, <2>3, <2>4
    <2>6. AgreesAtLast'
      BY <1>0, <2>4, <2>5 DEF AgreesAtLast
    <2>7. world' \in [Name -> Condition] /\ stale' \in BOOLEAN
      BY <1>0, <2>4 DEF TypeOK
    <2> QED BY <1>0, <2>3, <2>6, <2>7, TaskEndsWell
  <1>3. ASSUME tasks' = [tasks EXCEPT ![i].ran = TRUE, ![i].ok = TRUE],
               stale' = (stale \/ t.hidden), Changed(t.effect) \/ UNCHANGED world
        PROVE  Inv' /\ MenuStep
    <2> DEFINE u == [t EXCEPT !.ran = TRUE, !.ok = TRUE]
    <2>1. /\ u \in TaskSet /\ u.ran /\ u.answer = t.answer
          /\ u.effect = t.effect /\ u.hidden = t.hidden /\ u.ok
      BY <1>0 DEF TaskSet
    <2>2. tasks' = [tasks EXCEPT ![i] = u]
      BY <1>3
    <2> HIDE DEF u
    <2>3. Runs(i, u.ok, u.report)
      BY <1>0, <2>1, <2>2, RunsOn
    <2>4. stale' \in BOOLEAN
      <3>1. stale \in BOOLEAN /\ t.hidden \in BOOLEAN
        BY <1>0 DEF TypeOK, TaskSet
      <3> QED BY <1>3, <3>1
    <2>5. world' \in [Name -> Condition]
      <3>1. t.effect \subseteq Name
        BY <1>0 DEF TaskSet
      <3> QED BY <1>0, <1>3, <3>1 DEF TypeOK, Changed
    <2>6. AgreesAtLast'
      <3> SUFFICES ASSUME ~stale', ~overtaken PROVE Agrees(tasks)'
        BY <1>0 DEF AgreesAtLast
      <3>1. ~stale /\ ~t.hidden
        BY <1>3
      <3>2. Agrees(tasks)
        BY <1>0, <3>1 DEF AgreesAtLast
      <3>3. CASE UNCHANGED world
        BY <1>1, <2>3, <3>2, <3>3
      <3>4. CASE Changed(t.effect)
        <4>1. t.effect # {}
          BY <3>4 DEF Changed
        <4>2. t.answer \in Followed
          BY <1>0, <3>1, <4>1 DEF Tells
        <4>3. i \in DOMAIN tasks' /\ tasks'[i] = u
          BY <1>0, <2>1, <2>2, <2>3 DEF Runs, TypeOK
        <4>4. Brings(u)
          BY <2>1, <4>2 DEF Brings, Followed
        <4> QED BY <4>3, <4>4 DEF Agrees, Brings
      <3> QED BY <1>3, <3>3, <3>4
    <2> QED BY <1>0, <2>3, <2>4, <2>5, <2>6, TaskEndsWell
  <1>4. \/ tasks' = [tasks EXCEPT ![i].ran = TRUE] /\ UNCHANGED <<world, stale>>
        \/ /\ tasks' = [tasks EXCEPT ![i].ran = TRUE, ![i].ok = TRUE]
           /\ stale' = (stale \/ t.hidden)
           /\ Changed(t.effect) \/ UNCHANGED world
    BY DEF RunAction
  <1> QED BY <1>2, <1>3, <1>4

----------------------------------------------------------------------------
(* Answers.                                                                *)

\* Where a task stands before the one at i has been answered.
Place(j, i) == IF j < i THEN j ELSE j + 1

LEMMA RestShifts ==
    ASSUME TypeOK, NEW i \in DOMAIN tasks, NEW rest, rest = RemoveAt(tasks, i)
    PROVE  /\ rest \in Seq(TaskSet) /\ Len(rest) = Len(tasks) - 1 /\ Len(tasks) \in Nat
           /\ \A j \in DOMAIN rest : /\ Place(j, i) \in DOMAIN tasks /\ Place(j, i) # i
                                     /\ rest[j] = tasks[Place(j, i)]
                                     /\ j \in Nat
           /\ \A k \in DOMAIN tasks : k # i => \E j \in DOMAIN rest : k = Place(j, i)
           /\ \A j, k \in DOMAIN rest : j <= k => Place(j, i) <= Place(k, i)
           /\ \A k \in DOMAIN tasks : k \in Nat
  <1>1. tasks \in Seq(TaskSet) /\ i \in 1 .. Len(tasks) /\ Len(tasks) \in Nat
        /\ DOMAIN tasks = 1 .. Len(tasks)
    BY DEF TypeOK
  <1>2. /\ rest \in Seq(TaskSet)
        /\ Len(rest) = Len(tasks) - 1
        /\ \A j \in 1 .. i - 1 : rest[j] = tasks[j]
        /\ \A j \in i .. Len(tasks) - 1 : rest[j] = tasks[j + 1]
    BY <1>1, Answered
  <1>3. DOMAIN rest = 1 .. Len(tasks) - 1
    BY <1>2
  <1>4. \A j \in DOMAIN rest : /\ Place(j, i) \in DOMAIN tasks /\ Place(j, i) # i
                               /\ rest[j] = tasks[Place(j, i)]
                               /\ j \in Nat
    BY <1>1, <1>2, <1>3 DEF Place
  <1>5. ASSUME NEW k \in DOMAIN tasks, k # i PROVE \E j \in DOMAIN rest : k = Place(j, i)
    <2>1. CASE k < i
      <3>1. k \in DOMAIN rest /\ k = Place(k, i)
        BY <1>1, <1>3, <2>1 DEF Place
      <3> QED BY <3>1
    <2>2. CASE i < k
      <3>1. k - 1 \in DOMAIN rest /\ k = Place(k - 1, i)
        BY <1>1, <1>3, <2>2 DEF Place
      <3> QED BY <3>1
    <2> QED BY <1>1, <1>5, <2>1, <2>2
  <1>6. \A j, k \in DOMAIN rest : j <= k => Place(j, i) <= Place(k, i)
    BY <1>1, <1>3 DEF Place
  <1> QED BY <1>1, <1>2, <1>4, <1>5, <1>6

\* The listings that are left are those there were, in their order.
LEMMA RestListings ==
    ASSUME TypeOK, NEW i \in DOMAIN tasks, NEW rest, rest = RemoveAt(tasks, i)
    PROVE  /\ \A j \in DOMAIN rest : j \in Listings(rest) <=> Place(j, i) \in Listings(tasks)
           /\ Listings(rest) = {} => Listings(tasks) \subseteq {i}
           /\ \A j \in Listings(rest) :
                  IsLast(j, rest) => \A k \in Listings(tasks) : k # i => k <= Place(j, i)
  <1>0. /\ \A j \in DOMAIN rest : /\ Place(j, i) \in DOMAIN tasks
                                  /\ rest[j] = tasks[Place(j, i)]
        /\ \A k \in DOMAIN tasks : k # i => \E j \in DOMAIN rest : k = Place(j, i)
        /\ \A j, k \in DOMAIN rest : j <= k => Place(j, i) <= Place(k, i)
    BY RestShifts
  <1>1. \A j \in DOMAIN rest : j \in Listings(rest) <=> Place(j, i) \in Listings(tasks)
    BY <1>0 DEF Listings
  <1>2. ASSUME NEW k \in Listings(tasks), k # i
        PROVE  \E j \in Listings(rest) : k = Place(j, i) /\ j \in DOMAIN rest
    <2>1. PICK j \in DOMAIN rest : k = Place(j, i)
      BY <1>0, <1>2 DEF Listings
    <2> QED BY <1>1, <1>2, <2>1
  <1>3. ASSUME NEW j \in Listings(rest), IsLast(j, rest), NEW k \in Listings(tasks), k # i
        PROVE  k <= Place(j, i)
    <2>1. PICK m \in Listings(rest) : k = Place(m, i) /\ m \in DOMAIN rest
      BY <1>2, <1>3
    <2>2. m <= j /\ j \in DOMAIN rest
      BY <1>3, <2>1 DEF IsLast, Listings
    <2> QED BY <1>0, <2>1, <2>2
  <1> QED BY <1>1, <1>2, <1>3

\* Whoever is not answered goes on bringing a listing.
LEMMA RestBrings ==
    ASSUME TypeOK, NEW i \in DOMAIN tasks, tasks' = RemoveAt(tasks, i),
           NEW k \in DOMAIN tasks, k # i, Brings(tasks[k])
    PROVE  Agrees(tasks)'
  <1>1. PICK j \in DOMAIN tasks' : k = Place(j, i) /\ tasks'[j] = tasks[k]
    BY RestShifts
  <1> QED BY <1>1 DEF Agrees, Brings

\* An answer that is not followed by a listing, and is none, leaves things as they are.
LEMMA RestAgrees ==
    ASSUME TypeOK, NEW i \in DOMAIN tasks, tasks' = RemoveAt(tasks, i), Agrees(tasks),
           UNCHANGED world, UNCHANGED rows, tasks[i].answer # "list", ~Brings(tasks[i])
    PROVE  Agrees(tasks)'
  <1>1. ASSUME LastIsTrue(tasks), Listings(tasks) = {} => RowsTrue(rows) PROVE Agrees(tasks)'
    <2>0. i \notin Listings(tasks)
      BY DEF Listings
    <2>1. LastIsTrue(tasks)'
      <3> SUFFICES ASSUME NEW j \in Listings(tasks'), IsLast(j, tasks')
                   PROVE  ~tasks'[j].ran \/ RowsTrue(tasks[j].report)'
        BY DEF LastIsTrue, IsLast
      <3>1. j \in DOMAIN tasks' /\ tasks'[j] = tasks[Place(j, i)]
        BY RestShifts DEF Listings
      <3>2. Place(j, i) \in Listings(tasks) /\ IsLast(Place(j, i), tasks)
        BY <2>0, <3>1, RestListings DEF IsLast
      <3>3. ~tasks[Place(j, i)].ran \/ RowsTrue(tasks[Place(j, i)].report)
        BY <1>1, <3>2 DEF LastIsTrue
      <3> QED BY <3>1, <3>3 DEF RowsTrue, Present
    <2>2. Listings(tasks') = {} => Listings(tasks) = {}
      BY <2>0, RestListings
    <2>3. Listings(tasks') = {} => RowsTrue(rows)'
      BY <1>1, <2>2 DEF RowsTrue, Present
    <2> QED BY <2>1, <2>3 DEF Agrees
  <1>2. ASSUME NEW k \in DOMAIN tasks, Brings(tasks[k]) PROVE Agrees(tasks)'
    BY <1>2, RestBrings
  <1> QED BY <1>1, <1>2 DEF Agrees

\* The rows are what the listing has reported.
LEMMA FilledIsReport ==
    ASSUME TypeOK, NEW report \in Seq(ReportSet)
    PROVE  /\ Filled(report) \in Seq(RowSet)
           /\ DOMAIN Filled(report) = DOMAIN report /\ Len(Filled(report)) = Len(report)
           /\ \A j \in DOMAIN report : /\ Filled(report)[j].name = report[j].name
                                       /\ Filled(report)[j].active <=> report[j].active
  <1> DEFINE n == Len(report)
             old == Resized(rows, n)
             new == Filled(report)
  <1>1. n \in Nat /\ DOMAIN report = 1 .. n /\ rows \in Seq(RowSet)
    BY DEF TypeOK
  <1>2. new = [j \in 1 .. n |-> [name |-> report[j].name, active |-> report[j].active,
                                 changing |-> old[j].changing]]
    BY <1>1 DEF Filled
  <1> HIDE DEF new, old, n
  <1>3. ASSUME NEW j \in 1 .. n
        PROVE  /\ new[j] \in RowSet
               /\ new[j].name = report[j].name /\ new[j].active = report[j].active
    <2>1. report[j] \in ReportSet
      BY <1>1, <1>3
    <2>2. report[j].name \in Name /\ report[j].active \in BOOLEAN
      BY <2>1 DEF ReportSet
    <2>3. old[j].changing \in BOOLEAN
      BY <1>1, <1>3, Marked DEF old
    <2> QED BY <1>2, <1>3, <2>2, <2>3 DEF RowSet
  <1>4. new \in Seq(RowSet) /\ DOMAIN new = 1 .. n /\ Len(new) = n
    <2>1. new \in [1 .. n -> RowSet]
      <3>1. DOMAIN new = 1 .. n /\ new = [j \in 1 .. n |-> new[j]]
        BY <1>2
      <3> QED BY <1>3, <3>1
    <2> QED BY <1>1, <2>1
  <1>5. DOMAIN new = DOMAIN report /\ Len(new) = Len(report)
    BY <1>1, <1>4 DEF n
  <1>6. \A j \in DOMAIN report : new[j].name = report[j].name /\ (new[j].active <=> report[j].active)
    BY <1>1, <1>3
  <1> QED BY <1>4, <1>5, <1>6 DEF new

\* A listing that is answered, and was overtaken by none, is what the list shows then.
LEMMA ListAgrees ==
    ASSUME TypeOK, NEW i \in DOMAIN tasks, tasks[i].ran, tasks[i].answer = "list",
           tasks' = RemoveAt(tasks, i), rows' = Filled(tasks[i].report), UNCHANGED world,
           Agrees(tasks), \A j \in Listings(tasks) : ~ (j < i)
    PROVE  Agrees(tasks)'
  <1>1. ASSUME NEW k \in DOMAIN tasks, Brings(tasks[k]) PROVE Agrees(tasks)'
    <2>1. k # i
      BY <1>1 DEF Brings
    <2> QED BY <1>1, <2>1, RestBrings
  <1>2. ASSUME LastIsTrue(tasks) PROVE Agrees(tasks)'
    <2>0. i \in Listings(tasks) /\ \A k \in DOMAIN tasks : k \in Nat
      BY RestShifts DEF Listings
    <2>1. LastIsTrue(tasks)'
      <3> SUFFICES ASSUME NEW j \in Listings(tasks'), IsLast(j, tasks')
                   PROVE  ~tasks'[j].ran \/ RowsTrue(tasks[j].report)'
        BY DEF LastIsTrue, IsLast
      <3>1. /\ j \in DOMAIN tasks' /\ tasks'[j] = tasks[Place(j, i)] /\ Place(j, i) # i
            /\ Place(j, i) \in DOMAIN tasks
        BY RestShifts DEF Listings
      <3>2. Place(j, i) \in Listings(tasks) /\ \A k \in Listings(tasks) : k # i => k <= Place(j, i)
        BY <3>1, RestListings
      <3>3. i <= Place(j, i)
        BY <2>0, <3>1, <3>2
      <3>4. IsLast(Place(j, i), tasks)
        BY <3>2, <3>3 DEF IsLast
      <3>5. ~tasks[Place(j, i)].ran \/ RowsTrue(tasks[Place(j, i)].report)
        BY <1>2, <3>2, <3>4 DEF LastIsTrue
      <3> QED BY <3>1, <3>5 DEF RowsTrue, Present
    <2>2. ASSUME Listings(tasks') = {} PROVE RowsTrue(rows)'
      <3> DEFINE report == tasks[i].report
      <3>1. Listings(tasks) \subseteq {i}
        BY <2>2, RestListings
      <3>2. IsLast(i, tasks)
        BY <2>0, <3>1 DEF IsLast
      <3>3. RowsTrue(report)
        BY <1>2, <2>0, <3>2 DEF LastIsTrue
      <3>4. tasks[i] \in TaskSet
        BY DEF TypeOK
      <3>5. report \in Seq(ReportSet)
        BY <3>4 DEF TaskSet
      <3> HIDE DEF report
      <3>6. /\ DOMAIN rows' = DOMAIN report /\ Len(rows') = Len(report)
            /\ \A j \in DOMAIN report : /\ rows'[j].name = report[j].name
                                        /\ rows'[j].active <=> report[j].active
        BY <3>5, FilledIsReport DEF report
      <3>7. {rows'[j].name : j \in DOMAIN rows'} = {report[j].name : j \in DOMAIN report}
        BY <3>6
      <3> QED BY <3>3, <3>6, <3>7 DEF RowsTrue, Present
    <2> QED BY <2>1, <2>2 DEF Agrees
  <1> QED BY <1>1, <1>2 DEF Agrees

\* A dialog and a menu that the list is filled under are marked so.
LEMMA RelistedTyped ==
    ASSUME TypeOK
    PROVE  /\ [menu EXCEPT !.relisted = menu.open] \in MenuSet
           /\ [dialog EXCEPT !.relisted = dialog # NoDialog] \in DialogSet
           /\ dialog = NoDialog => [dialog EXCEPT !.relisted = dialog # NoDialog] = NoDialog
           /\ dialog # NoDialog => [dialog EXCEPT !.relisted = dialog # NoDialog].relisted
  <1>1. [menu EXCEPT !.relisted = menu.open] \in MenuSet
    BY DEF TypeOK, MenuSet
  <1> DEFINE shown == dialog # NoDialog
  <1>2. shown \in BOOLEAN
    OBVIOUS
  <1>3. dialog = NoDialog => [dialog EXCEPT !.relisted = FALSE] = NoDialog
    <2>1. [NoDialog EXCEPT !.relisted = FALSE] = NoDialog
      <3>1. NoDialog \in DialogSet /\ NoDialog.relisted = FALSE
        BY NoDialogTyped DEF NoDialog
      <3> QED BY <3>1 DEF DialogSet
    <2> QED BY <2>1
  <1>4. [dialog EXCEPT !.relisted = TRUE].relisted
    BY DEF TypeOK, DialogSet
  <1>5. [dialog EXCEPT !.relisted = TRUE] \in DialogSet /\ [dialog EXCEPT !.relisted = FALSE] \in DialogSet
    BY DEF TypeOK, DialogSet
  <1>6. CASE shown
    <2>1. [dialog EXCEPT !.relisted = shown] = [dialog EXCEPT !.relisted = TRUE]
      BY <1>6
    <2> QED BY <1>1, <1>4, <1>5, <1>6, <2>1
  <1>7. CASE ~shown
    <2>1. [dialog EXCEPT !.relisted = shown] = [dialog EXCEPT !.relisted = FALSE]
      BY <1>7
    <2> QED BY <1>1, <1>3, <1>5, <1>7, <2>1
  <1> QED BY <1>6, <1>7

\* The others keep what they tell.
LEMMA RestTells ==
    ASSUME TypeOK, ChangesAreTold, NEW i \in DOMAIN tasks, NEW rest, rest = RemoveAt(tasks, i)
    PROVE  \A j \in DOMAIN rest : Tells(rest[j])
  BY RestShifts DEF ChangesAreTold

LEMMA ListKeeps ==
    ASSUME Inv, NEW i \in DOMAIN tasks, ~crashed, tasks[i].ran, tasks[i].answer = "list",
           ReceiveList(i, RemoveAt(tasks, i)),
           UNCHANGED <<kind, world, current, events, stale, crashed>>
    PROVE  Inv' /\ MenuStep
  <1>0. /\ TypeOK /\ AtWork /\ ChangesAreTold /\ AgreesAtLast
        /\ UNCHANGED kind /\ UNCHANGED world /\ UNCHANGED current /\ UNCHANGED events
        /\ UNCHANGED stale /\ UNCHANGED crashed
    BY DEF Inv
  <1>1. /\ rows' = Filled(tasks[i].report) /\ usable' = TRUE
        /\ menu' = [menu EXCEPT !.relisted = menu.open]
        /\ dialog' = [dialog EXCEPT !.relisted = dialog # NoDialog]
        /\ tasks' = RemoveAt(tasks, i)
        /\ overtaken' = (overtaken \/ \E j \in Listings(tasks) : j < i)
    BY DEF ReceiveList
  <1>2. rows' \in Seq(RowSet)
    <2>1. tasks[i] \in TaskSet
      BY <1>0 DEF TypeOK
    <2>2. tasks[i].report \in Seq(ReportSet)
      BY <2>1 DEF TaskSet
    <2> QED BY <1>0, <1>1, <2>2, FilledIsReport
  <1>3. /\ menu' \in MenuSet /\ dialog' \in DialogSet
        /\ dialog = NoDialog => dialog' = NoDialog
        /\ dialog # NoDialog => dialog'.relisted
    BY <1>0, <1>1, RelistedTyped
  <1>4. tasks' \in Seq(TaskSet) /\ Len(tasks') # Len(tasks) + 1
    BY <1>0, <1>1, RestShifts
  <1>5. TypeOK'
    <2>1. DialogSet' = DialogSet /\ Condition' = Condition
      BY <1>0 DEF DialogSet, Acts, Condition
    <2>2. overtaken' \in BOOLEAN
      BY <1>0, <1>1 DEF TypeOK
    <2> QED BY <1>0, <1>1, <1>2, <1>3, <1>4, <2>1, <2>2 DEF TypeOK
  <1>6. ChangesAreTold'
    BY <1>0, <1>1, RestTells DEF ChangesAreTold, Tells
  <1>7. AgreesAtLast'
    <2> SUFFICES ASSUME ~stale, ~overtaken' PROVE Agrees(tasks)'
      BY <1>0 DEF AgreesAtLast
    <2>1. Agrees(tasks) /\ \A j \in Listings(tasks) : ~ (j < i)
      BY <1>0, <1>1 DEF AgreesAtLast
    <2> QED BY <1>0, <1>1, <2>1, ListAgrees
  <1>8. AtWork'
    <2>1. menu'.open => menu.open /\ menu'.relisted
      BY <1>0, <1>1 DEF TypeOK, MenuSet
    <2>2. MenuIsOfRow'
      BY <1>0, <1>3, <2>1 DEF AtWork, MenuIsOfRow
    <2>3. DialogKnowsRow' /\ CrashNeedsRelist'
      BY <1>0, <1>3 DEF DialogKnowsRow, CrashNeedsRelist
    <2> QED BY <2>2, <2>3 DEF AtWork
  <1> QED BY <1>3, <1>4, <1>5, <1>6, <1>7, <1>8 DEF Inv, MenuStep, ActsOn

\* The answer that marks a row leaves every row its name.
LEMMA MarkingTyped ==
    ASSUME TypeOK, NEW i \in DOMAIN tasks, NEW rest, ReceiveChanging(i, rest)
    PROVE  /\ rows' \in Seq(RowSet) /\ DOMAIN rows' = DOMAIN rows
           /\ \A r \in DOMAIN rows : rows'[r].name = rows[r].name
           /\ ReloadState(rest) /\ UNCHANGED menu /\ UNCHANGED dialog
  <1>0. ReloadState(rest) /\ UNCHANGED menu /\ UNCHANGED dialog
    BY DEF ReceiveChanging
  <1> DEFINE mark == tasks[i].mark = "set"
             found == {r \in DOMAIN rows : rows[r].name = tasks[i].name}
             marked == found # {}
  <1>1. rows \in Seq(RowSet) /\ DOMAIN rows = 1 .. Len(rows) /\ Len(rows) \in Nat /\ mark \in BOOLEAN
    BY DEF TypeOK
  <1>2. CASE rows' = rows
    BY <1>0, <1>1, <1>2
  <1>3. CASE rows' = [r \in DOMAIN rows |-> IF found # {} /\ r = Min(found)
                                            THEN [rows[r] EXCEPT !.changing = mark] ELSE rows[r]]
    <2>1. \A row \in RowSet : /\ [row EXCEPT !.changing = mark] \in RowSet
                              /\ [row EXCEPT !.changing = mark].name = row.name
      <3> HIDE DEF mark
      <3> QED BY <1>1 DEF RowSet
    <2>2. \A r \in DOMAIN rows : rows[r] \in RowSet
      BY <1>1
    <2> HIDE DEF mark, found
    <2>3. \A r \in DOMAIN rows : rows'[r] \in RowSet /\ rows'[r].name = rows[r].name
      BY <1>3, <2>1, <2>2
    <2>4. rows' \in [1 .. Len(rows) -> RowSet]
      BY <1>1, <1>3, <2>3
    <2>5. rows' \in Seq(RowSet)
      BY <1>1, <2>4
    <2>6. DOMAIN rows' = DOMAIN rows
      BY <1>3
    <2> QED BY <1>0, <2>3, <2>5, <2>6
  <1> QED BY <1>2, <1>3 DEF ReceiveChanging

\* Answers that are followed by a new listing.
LEMMA ReloadingKeeps ==
    ASSUME Inv, NEW i \in DOMAIN tasks, ~crashed, ReloadState(RemoveAt(tasks, i)),
           rows' \in Seq(RowSet), DOMAIN rows' = DOMAIN rows,
           \A r \in DOMAIN rows : rows'[r].name = rows[r].name,
           UNCHANGED menu, UNCHANGED dialog,
           UNCHANGED <<kind, world, current, events, stale, crashed>>
    PROVE  Inv' /\ MenuStep
  <1> DEFINE rest == RemoveAt(tasks, i)
  <1>0. /\ TypeOK /\ AtWork /\ ChangesAreTold
        /\ UNCHANGED kind /\ UNCHANGED world /\ UNCHANGED current /\ UNCHANGED events
        /\ UNCHANGED stale /\ UNCHANGED crashed
    BY DEF Inv
  <1>1. rest \in Seq(TaskSet) /\ \A j \in DOMAIN rest : Tells(rest[j])
    BY <1>0, RestShifts, RestTells
  <1>2. tasks' = Append(rest, Listing) /\ usable' = FALSE /\ overtaken' \in BOOLEAN
    BY DEF ReloadState
  <1> HIDE DEF rest
  <1>3. /\ Agrees(tasks)' /\ tasks' \in Seq(TaskSet) /\ ChangesAreTold'
        /\ Last(tasks').answer = "list"
    BY <1>0, <1>1, <1>2, ListingAgrees
  <1>4. DialogSet' = DialogSet /\ Condition' = Condition
    BY <1>0 DEF DialogSet, Acts, Condition
  <1>5. TypeOK'
    BY <1>0, <1>2, <1>3, <1>4 DEF TypeOK
  <1>6. AtWork'
    BY <1>0 DEF AtWork, MenuIsOfRow, DialogKnowsRow, CrashNeedsRelist
  <1> QED BY <1>3, <1>5, <1>6 DEF Inv, AgreesAtLast, MenuStep, ActsOn

\* And those that are not.
LEMMA QuietAnswerKeeps ==
    ASSUME Inv, NEW i \in DOMAIN tasks, ~crashed, tasks' = RemoveAt(tasks, i),
           tasks[i].answer # "list", ~Brings(tasks[i]),
           UNCHANGED <<rows, menu, dialog, usable, overtaken>>,
           UNCHANGED <<kind, world, current, events, stale, crashed>>
    PROVE  Inv' /\ MenuStep
  <1>0. /\ TypeOK /\ AtWork /\ ChangesAreTold /\ AgreesAtLast
        /\ UNCHANGED kind /\ UNCHANGED world /\ UNCHANGED current /\ UNCHANGED events
        /\ UNCHANGED stale /\ UNCHANGED crashed /\ UNCHANGED rows /\ UNCHANGED menu
        /\ UNCHANGED dialog /\ UNCHANGED usable /\ UNCHANGED overtaken
    BY DEF Inv
  <1>1. tasks' \in Seq(TaskSet) /\ Len(tasks') # Len(tasks) + 1
    BY <1>0, RestShifts
  <1>2. DialogSet' = DialogSet /\ Condition' = Condition
    BY <1>0 DEF DialogSet, Acts, Condition
  <1>3. TypeOK'
    BY <1>0, <1>1, <1>2 DEF TypeOK
  <1>4. ChangesAreTold'
    BY <1>0, RestTells DEF ChangesAreTold, Tells
  <1>5. AgreesAtLast'
    BY <1>0, RestAgrees DEF AgreesAtLast
  <1>6. AtWork'
    BY <1>0 DEF AtWork, MenuIsOfRow, DialogKnowsRow, CrashNeedsRelist
  <1> QED BY <1>0, <1>1, <1>3, <1>4, <1>5, <1>6 DEF Inv, MenuStep, ActsOn

LEMMA AnswerKeeps ==
    ASSUME Inv, NEW i \in DOMAIN tasks, ResultReceiver(i)
    PROVE  Inv' /\ MenuStep
  <1> DEFINE rest == RemoveAt(tasks, i)
  <1>0. /\ ~crashed /\ tasks[i].ran
        /\ UNCHANGED <<kind, world, current, events, stale, crashed>>
    BY DEF ResultReceiver
  <1>1. CASE tasks[i].answer = "list" /\ ReceiveList(i, rest)
    BY <1>0, <1>1, ListKeeps
  <1>2. CASE tasks[i].answer = "changing" /\ ReceiveChanging(i, rest)
    BY <1>0, <1>2, MarkingTyped, ReloadingKeeps DEF Inv
  <1>3. CASE ReceiveOther(i, rest, TRUE)
    <2>1. ReloadState(rest) /\ UNCHANGED rows /\ UNCHANGED menu /\ UNCHANGED dialog
      BY <1>3 DEF ReceiveOther
    <2>2. rows' \in Seq(RowSet)
      BY <2>1 DEF Inv, TypeOK
    <2> QED BY <1>0, <2>1, <2>2, ReloadingKeeps
  <1>4. CASE tasks[i].answer # "list" /\ ~Brings(tasks[i]) /\ ReceiveOther(i, rest, FALSE)
    BY <1>0, <1>4, QuietAnswerKeeps DEF ReceiveOther
  <1>5. CASE tasks[i].answer = "reload" /\ ReceiveOther(i, rest, tasks[i].ok)
    <2>1. tasks[i].ok \in BOOLEAN
      <3>1. tasks[i] \in TaskSet
        BY DEF Inv, TypeOK
      <3> QED BY <3>1 DEF TaskSet
    <2>2. CASE tasks[i].ok
      <3>1. ReceiveOther(i, rest, TRUE)
        BY <1>5, <2>2 DEF ReceiveOther
      <3> QED BY <1>3, <3>1
    <2>3. CASE ~tasks[i].ok
      <3>1. ReceiveOther(i, rest, FALSE)
        BY <1>5, <2>3 DEF ReceiveOther
      <3> QED BY <1>4, <1>5, <2>3, <3>1 DEF Brings
    <2> QED BY <2>2, <2>3
  <1>6. CASE tasks[i].answer \in {"show", "editor", "none"} /\ ReceiveOther(i, rest, FALSE)
    BY <1>4, <1>6 DEF Brings
  <1> QED BY <1>1, <1>2, <1>3, <1>5, <1>6 DEF ResultReceiver

----------------------------------------------------------------------------
(* The theorems.                                                           *)

LEMMA Initially == Init => Inv
  <1> SUFFICES ASSUME Init PROVE Inv
    OBVIOUS
  <1>1. /\ kind \in Kinds /\ world \in [Name -> Condition] /\ rows = <<>> /\ current = 0
        /\ usable = FALSE /\ menu = NoMenu /\ dialog = NoDialog /\ tasks = <<Listing>>
        /\ events = 0 /\ stale = FALSE /\ overtaken = FALSE /\ crashed = FALSE
    BY DEF Init
  <1>2. kind \in DOMAIN Control /\ TableIsSound(kind)
    BY <1>1, ControlsAssumption, TablesAreSound
  \* What the control orders first of all.
  <1>3. /\ Listing \in TaskSet /\ Listing.effect = {}
        /\ ~Listing.ran /\ Listing.answer = "list"
    <2>1. /\ kind \in {"VIRT_DOMAIN", "VIRT_NETWORK", "VIRT_STORAGE_POOL", "VIRT_STORAGE_VOLUME",
                       "VIRT_SECRET", "VIRT_INTERFACE", "VIRT_NETWORK_FILTER"}
          /\ Control[kind].result["GET_ALL_ENTITY_STATE"] = "list"
      BY <1>2 DEF Control, TableIsSound
    <2>2. <<kind, "GET_ALL_ENTITY_STATE">> \in Untouching
      BY <2>1 DEF Untouching, ReadsAndTransfers, Operation, Run, DomRun, NetRun, PoolRun, VolRun,
                  SecretRun, IfaceRun, FilterRun
    <2>3. <<>> \in Seq(ReportSet) /\ (<<kind, "GET_ALL_ENTITY_STATE">> \in Finding) \in BOOLEAN
      OBVIOUS
    <2> QED BY <2>1, <2>2, <2>3 DEF Listing, TaskFor, TaskSet, Reach, Mark, Answers
  <1>4. /\ tasks \in Seq(TaskSet) /\ DOMAIN tasks = {1} /\ tasks[1] = Listing
        /\ rows \in Seq(RowSet)
    BY <1>1, <1>3
  <1>5. NoDialog \in DialogSet
    BY DEF NoDialog, DialogSet, Signal, Orders, Ways
  <1>6. TypeOK
    BY <1>1, <1>4, <1>5, NoRowIsNone DEF TypeOK
  <1>7. ChangesAreTold
    BY <1>3, <1>4 DEF ChangesAreTold, Tells
  <1>8. Listings(tasks) = {1}
    BY <1>3, <1>4 DEF Listings
  <1>9. AgreesAtLast
    BY <1>3, <1>4, <1>8 DEF AgreesAtLast, Agrees, LastIsTrue
  <1>10. AtWork
    BY <1>1, NoRowIsNone DEF AtWork, MenuIsOfRow, DialogKnowsRow, CrashNeedsRelist
  <1> QED BY <1>6, <1>7, <1>9, <1>10 DEF Inv

LEMMA StepKeeps == Inv /\ [Next]_vars => Inv' /\ (MenuStep \/ UNCHANGED vars)
  <1> SUFFICES ASSUME Inv, [Next]_vars PROVE Inv' /\ (MenuStep \/ UNCHANGED vars)
    OBVIOUS
  <1>1. ASSUME NEW i \in DOMAIN rows, SelectRow(i) \/ EntityClicked(i) PROVE Inv' /\ MenuStep
    BY <1>1, ClickKeeps
  <1>2. ASSUME NEW i \in DOMAIN rows, EntityDoubleClicked(i) PROVE Inv' /\ MenuStep
    BY <1>2, DoubleClickKeeps
  <1>3. CASE ClickedBesideRows
    BY <1>3, ClickKeeps
  <1>4. ASSUME NEW method, ChooseFromMenu(method) \/ DetectTriggeredAction(method)
        PROVE  Inv' /\ MenuStep
    BY <1>4, ChooseKeeps, TriggerKeeps
  <1>5. CASE CloseMenu \/ CancelDialog
    BY <1>5, LeaveKeeps
  <1>6. ASSUME NEW what, NewVirtEntityFromXML(what) PROVE Inv' /\ MenuStep
    BY <1>6, NewEntityKeeps
  <1>7. CASE AcceptDialog
    BY <1>7, AcceptKeeps
  <1>8. CASE ReloadByItself
    BY <1>8, ReloadKeeps
  <1>9. CASE WorldChanges
    BY <1>9, WorldKeeps
  <1>10. ASSUME NEW i \in DOMAIN tasks, RunTask(i) PROVE Inv' /\ MenuStep
    <2>1. /\ ~crashed /\ ~tasks[i].ran
          /\ RunListing(i) \/ RunAction(i)
          /\ UNCHANGED <<kind, uiVars, events, overtaken, crashed>>
      BY <1>10 DEF RunTask
    <2> QED BY <2>1, ListingKeeps, ActionKeeps
  <1>11. ASSUME NEW i \in DOMAIN tasks, ResultReceiver(i) PROVE Inv' /\ MenuStep
    BY <1>11, AnswerKeeps
  <1>12. CASE UNCHANGED vars
    <2>1. /\ UNCHANGED <<kind, world, rows, usable, tasks, stale, overtaken>>
          /\ UNCHANGED rows /\ UNCHANGED current /\ UNCHANGED menu /\ UNCHANGED dialog
          /\ UNCHANGED events /\ UNCHANGED crashed
      BY <1>12 DEF vars, uiVars, ghosts
    <2>2. TypeOK /\ AtWork
      BY DEF Inv
    <2>3. AtWork'
      BY <2>1, <2>2 DEF AtWork, MenuIsOfRow, DialogKnowsRow, CrashNeedsRelist
    <2> QED BY <1>12, <2>1, <2>2, <2>3, AsideKeeps DEF TypeOK
  <1> QED BY <1>1, <1>2, <1>3, <1>4, <1>5, <1>6, <1>7, <1>8, <1>9, <1>10, <1>11, <1>12 DEF Next

\* Whatever users, timers, tasks and other clients do in between, when nothing is
\* outstanding, nobody else has changed the hypervisor since and no listing was
\* overtaken, resultReceiver has filled the list with the hypervisor's entities.
THEOREM ListShowsTruth == Spec => []ShownIsTrue
  <1>1. Inv => ShownIsTrue
    <2> SUFFICES ASSUME Inv, tasks = <<>>, ~stale, ~overtaken
                 PROVE  /\ {r.name : r \in ToSet(rows)} = Present
                        /\ Len(rows) = Cardinality(Present)
                        /\ \A r \in ToSet(rows) : r.active <=> world[r.name] = "active"
      BY DEF ShownIsTrue
    <2>1. DOMAIN tasks = {} /\ Listings(tasks) = {}
      BY DEF Listings
    <2>2. RowsTrue(rows)
      BY <2>1 DEF Inv, AgreesAtLast, Agrees
    <2>3. {r.name : r \in ToSet(rows)} = {rows[i].name : i \in DOMAIN rows}
      BY DEF ToSet
    <2> QED BY <2>2, <2>3 DEF RowsTrue, ToSet
  <1> QED BY <1>1, Initially, StepKeeps, PTL DEF Spec

\* SAVE_ENTITY reads its row again after its file dialog; it reads beyond the list
\* only when the list has been filled while the dialog was open.
THEOREM CrashIsRelisted == Spec => []CrashNeedsRelist
  <1>1. Inv => CrashNeedsRelist
    BY DEF Inv, AtWork
  <1> QED BY <1>1, Initially, StepKeeps, PTL DEF Spec

\* execAction takes the current row, not the one that the menu was opened on; they
\* are the same until the list is filled again.
THEOREM MenuHitsItsEntity == Spec => MenuActsOnItsEntity
  <1>1. Inv /\ [Next]_vars => Inv'
    BY StepKeeps
  <1>2. Inv /\ [Next]_vars =>
          [menu.open /\ menu.of # NoRow /\ ~menu.relisted =>
              /\ Len(tasks') = Len(tasks) + 1 /\ Last(tasks').answer # "list"
                     => Last(tasks').name = menu.of.name
              /\ dialog' # dialog /\ dialog = NoDialog => dialog'.name = menu.of.name]_vars
    BY StepKeeps DEF MenuStep, ActsOn
  <1> QED BY <1>1, <1>2, Initially, PTL DEF Spec, MenuActsOnItsEntity
=============================================================================
