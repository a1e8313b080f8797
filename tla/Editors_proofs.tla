--------------------------- MODULE Editors_proofs ---------------------------
(***************************************************************************)
(* Proofs about the windows that edit descriptions, for any kinds of       *)
(* devices, any forms, tabs and lists, and any number of operations: what  *)
(* the list of devices holds, what of the work in the panel reaches it,    *)
(* and that a form that says it is saved would write what is saved.        *)
(***************************************************************************)
EXTENDS Editors, FiniteSetTheorems, SequenceTheorems, WellFoundedInduction, TLAPS

----------------------------------------------------------------------------
(* The least and the greatest of some rows.                                *)

LEMMA LeastExists ==
    ASSUME NEW S, S \subseteq Nat, S # {}
    PROVE  \E m \in S : \A k \in S : m <= k
  <1>1. PICK m \in S : \A k \in S : <<k, m>> \notin OpToRel(<, Nat)
    BY WFMin, NatLessThanWellFounded, Zenon
  <1>2. \A k \in S : ~(k < m)
    BY <1>1, Zenon DEF OpToRel
  <1> QED BY <1>2

LEMMA MinOfRows ==
    ASSUME NEW S, S \subseteq Nat, S # {}
    PROVE  D!Min(S) \in S
  <1>1. \E m \in S : \A k \in S : m =< k
    BY LeastExists
  <1> QED BY <1>1, Zenon DEF D!Min

LEMMA GreatestExists ==
    ASSUME NEW n \in Nat, NEW S, S \subseteq 0 .. n, S # {}
    PROVE  \E x \in S : \A k \in S : x >= k
  <1> DEFINE B == {m \in Nat : \A k \in S : k <= m}
  <1>1. n \in B
    OBVIOUS
  <1>2. PICK m \in B : \A k \in B : m <= k
    BY <1>1, LeastExists
  <1>3. m \in S
    <2> SUFFICES ASSUME m \notin S PROVE FALSE
      OBVIOUS
    <2>1. PICK i \in S : TRUE
      OBVIOUS
    <2>2. m \in Nat /\ m # 0 /\ \A k \in S : k <= m /\ k # m /\ k \in Nat
      BY <1>2, <2>1
    <2>3. m - 1 \in B
      BY <2>2
    <2> QED BY <1>2, <2>2, <2>3
  <1> QED BY <1>2, <1>3

LEMMA MaxOfRows ==
    ASSUME NEW n \in Nat, NEW S, S \subseteq 0 .. n, 0 \in S
    PROVE  D!Max(S) \in S
  <1>1. \E x \in S : \A k \in S : x >= k
    BY GreatestExists
  <1> QED BY <1>1, Zenon DEF D!Max

LEMMA MaxOfSome ==
    ASSUME NEW n \in Nat, NEW S, S \subseteq 1 .. n, S # {}
    PROVE  /\ Max(S) \in S /\ Max(S) \in Nat /\ Max(S) <= n
           /\ \A k \in S : k <= Max(S)
  <1>1. S \subseteq 0 .. n /\ S \subseteq Nat
    OBVIOUS
  <1>2. \E x \in S : \A k \in S : x >= k
    BY <1>1, GreatestExists
  <1>3. Max(S) \in S /\ \A k \in S : Max(S) >= k
    BY <1>2, Zenon DEF Max
  <1>4. \A m \in S : m \in Nat /\ m <= n
    OBVIOUS
  <1> DEFINE x == Max(S)
  <1>5. x \in S /\ \A k \in S : x >= k
    BY <1>3
  <1> HIDE DEF x
  <1>6. x \in S /\ x \in Nat /\ x <= n /\ \A k \in S : k <= x
    BY <1>4, <1>5
  <1> QED BY <1>6 DEF x

----------------------------------------------------------------------------
(* Rows that go and come.                                                  *)

LEMMA ListOf == ASSUME NEW S, NEW s \in Seq(S) PROVE IsList(s) /\ Len(s) \in Nat /\ DOMAIN s = 1 .. Len(s)
  <1>1. /\ Len(s) \in Nat /\ DOMAIN s = 1 .. Len(s) /\ s \in [1 .. Len(s) -> S]
    BY LenProperties
  <1> DEFINE T == {s[i] : i \in DOMAIN s}
  <1>2. s \in [1 .. Len(s) -> T]
    BY <1>1
  <1>3. s \in Seq(T)
    BY <1>1, <1>2, SeqDef
  <1> QED BY <1>1, <1>3 DEF IsList

LEMMA Removed ==
    ASSUME NEW s, IsList(s), NEW r \in 1 .. Len(s)
    PROVE  /\ IsList(D!RemoveAt(s, r))
           /\ Len(D!RemoveAt(s, r)) = Len(s) - 1
           /\ DOMAIN D!RemoveAt(s, r) = 1 .. Len(s) - 1
           /\ \A j \in 1 .. Len(s) - 1 : D!RemoveAt(s, r)[j] = IF j < r THEN s[j] ELSE s[j + 1]
  <1> DEFINE S == {s[i] : i \in DOMAIN s}
             a == SubSeq(s, 1, r - 1)
             b == SubSeq(s, r + 1, Len(s))
  <1>1. /\ s \in Seq(S) /\ Len(s) \in Nat /\ r \in Nat /\ r >= 1 /\ r <= Len(s)
        /\ \A j \in 1 .. Len(s) : s[j] \in S
    <2>1. s \in Seq(S)
      BY DEF IsList
    <2> HIDE DEF S
    <2>2. Len(s) \in Nat /\ \A j \in 1 .. Len(s) : s[j] \in S
      BY <2>1, LenProperties, ElementOfSeq
    <2> QED BY <2>1, <2>2
  <1> HIDE DEF S
  <1>2. /\ a \in Seq(S) /\ Len(a) = r - 1
        /\ \A j \in 1 .. r - 1 : a[j] = s[j]
    <2>1. \A j \in 1 .. r - 1 : s[j] \in S /\ 1 + j - 1 = j
      BY <1>1
    <2>2. /\ a \in Seq(S)
          /\ Len(a) = IF 1 <= r - 1 THEN r - 1 - 1 + 1 ELSE 0
          /\ \A j \in 1 .. r - 1 - 1 + 1 : a[j] = s[1 + j - 1]
      BY <1>1, <2>1, SubSeqProperties
    <2> HIDE DEF a
    <2> QED BY <1>1, <2>1, <2>2
  <1>3. /\ b \in Seq(S) /\ Len(b) = Len(s) - r
        /\ \A j \in 1 .. Len(s) - r : b[j] = s[r + 1 + j - 1]
    <2>1. \A j \in r + 1 .. Len(s) : s[j] \in S
      BY <1>1
    <2>2. /\ b \in Seq(S)
          /\ Len(b) = IF r + 1 <= Len(s) THEN Len(s) - (r + 1) + 1 ELSE 0
          /\ \A j \in 1 .. Len(s) - (r + 1) + 1 : b[j] = s[r + 1 + j - 1]
      BY <1>1, <2>1, SubSeqProperties
    <2> HIDE DEF b
    <2> QED BY <1>1, <2>2
  <1>4. D!RemoveAt(s, r) = a \o b
    BY DEF D!RemoveAt
  <1> HIDE DEF a, b
  <1>5. /\ a \o b \in Seq(S) /\ Len(a \o b) = Len(a) + Len(b)
        /\ \A j \in 1 .. Len(a) + Len(b) :
               (a \o b)[j] = IF j <= Len(a) THEN a[j] ELSE b[j - Len(a)]
    BY <1>2, <1>3, ConcatProperties
  <1>6. ASSUME NEW j \in 1 .. Len(s) - 1 PROVE (a \o b)[j] = IF j < r THEN s[j] ELSE s[j + 1]
    <2>1. CASE j < r
      BY <1>1, <1>2, <1>3, <1>5, <2>1
    <2>2. CASE ~(j < r)
      <3>1. j \in 1 .. Len(a) + Len(b) /\ ~(j <= Len(a)) /\ Len(a) = r - 1
        BY <1>1, <1>2, <1>3, <2>2
      <3>2. j - (r - 1) \in 1 .. Len(s) - r /\ r + 1 + (j - (r - 1)) - 1 = j + 1
        BY <1>1, <2>2
      <3>3. b[j - (r - 1)] = s[j + 1]
        BY <1>3, <3>2
      <3> QED BY <1>5, <2>2, <3>1, <3>3
    <2> QED BY <2>1, <2>2
  <1>7. Len(a \o b) = Len(s) - 1
    BY <1>1, <1>2, <1>3, <1>5
  <1>8. IsList(a \o b) /\ DOMAIN (a \o b) = 1 .. Len(s) - 1
    BY <1>5, <1>7, ListOf
  <1> QED BY <1>4, <1>6, <1>7, <1>8

LEMMA Inserted ==
    ASSUME NEW s, IsList(s), NEW r \in 1 .. Len(s) + 1, NEW x
    PROVE  /\ IsList(D!InsertAt(s, r, x))
           /\ Len(D!InsertAt(s, r, x)) = Len(s) + 1
           /\ DOMAIN D!InsertAt(s, r, x) = 1 .. Len(s) + 1
           /\ \A j \in 1 .. Len(s) + 1 :
                  D!InsertAt(s, r, x)[j] = IF j < r THEN s[j] ELSE IF j = r THEN x ELSE s[j - 1]
  <1> DEFINE S == {s[i] : i \in DOMAIN s}
             T == S \cup {x}
             a == SubSeq(s, 1, r - 1)
             m == <<x>>
             b == SubSeq(s, r, Len(s))
  <1>1. /\ Len(s) \in Nat /\ r \in Nat /\ r >= 1 /\ r <= Len(s) + 1
        /\ \A j \in 1 .. Len(s) : s[j] \in T
    <2>1. s \in Seq(S)
      BY DEF IsList
    <2> HIDE DEF S
    <2>2. Len(s) \in Nat /\ \A j \in 1 .. Len(s) : s[j] \in S
      BY <2>1, LenProperties, ElementOfSeq
    <2> QED BY <2>2
  <1>m. m \in Seq(T) /\ Len(m) = 1 /\ m[1] = x
    <2>3. x \in T
      OBVIOUS
    <2> HIDE DEF T
    <2> QED BY <2>3
  <1> HIDE DEF T
  <1>2. /\ a \in Seq(T) /\ Len(a) = r - 1
        /\ \A j \in 1 .. r - 1 : a[j] = s[j]
    <2>1. \A j \in 1 .. r - 1 : s[j] \in T /\ 1 + j - 1 = j
      BY <1>1
    <2>2. /\ a \in Seq(T)
          /\ Len(a) = IF 1 <= r - 1 THEN r - 1 - 1 + 1 ELSE 0
          /\ \A j \in 1 .. r - 1 - 1 + 1 : a[j] = s[1 + j - 1]
      BY <1>1, <2>1, SubSeqProperties
    <2> HIDE DEF a
    <2> QED BY <1>1, <2>1, <2>2
  <1>3. /\ b \in Seq(T) /\ Len(b) = Len(s) - r + 1
        /\ \A j \in 1 .. Len(s) - r + 1 : b[j] = s[r + j - 1]
    <2>1. \A j \in r .. Len(s) : s[j] \in T
      BY <1>1
    <2>2. /\ b \in Seq(T)
          /\ Len(b) = IF r <= Len(s) THEN Len(s) - r + 1 ELSE 0
          /\ \A j \in 1 .. Len(s) - r + 1 : b[j] = s[r + j - 1]
      BY <1>1, <2>1, SubSeqProperties
    <2> HIDE DEF b
    <2> QED BY <1>1, <2>2
  <1>4. D!InsertAt(s, r, x) = a \o m \o b
    BY DEF D!InsertAt
  <1> HIDE DEF a, b, m
  <1> DEFINE am == a \o m
  <1>5. /\ am \in Seq(T) /\ Len(am) = r
        /\ \A j \in 1 .. r : am[j] = IF j < r THEN s[j] ELSE x
    <2>1. /\ am \in Seq(T) /\ Len(am) = Len(a) + Len(m)
          /\ \A j \in 1 .. Len(a) + Len(m) : am[j] = IF j <= Len(a) THEN a[j] ELSE m[j - Len(a)]
      BY <1>2, <1>m, ConcatProperties
    <2> HIDE DEF am
    <2>2. ASSUME NEW j \in 1 .. r PROVE am[j] = IF j < r THEN s[j] ELSE x
      <3>1. CASE j < r
        BY <1>1, <1>2, <1>m, <2>1, <3>1
      <3>2. CASE ~(j < r)
        <4>1. j = r /\ j - Len(a) = 1 /\ ~(j <= Len(a)) /\ j \in 1 .. Len(a) + Len(m)
          BY <1>1, <1>2, <1>m, <3>2
        <4> QED BY <1>m, <2>1, <4>1
      <3> QED BY <3>1, <3>2
    <2>3. Len(am) = r
      BY <1>1, <1>2, <1>m, <2>1
    <2> QED BY <2>1, <2>2, <2>3
  <1> HIDE DEF am
  <1>6. /\ am \o b \in Seq(T) /\ Len(am \o b) = Len(am) + Len(b)
        /\ \A j \in 1 .. Len(am) + Len(b) :
               (am \o b)[j] = IF j <= Len(am) THEN am[j] ELSE b[j - Len(am)]
    BY <1>3, <1>5, ConcatProperties
  <1>7. Len(am \o b) = Len(s) + 1
    BY <1>1, <1>3, <1>5, <1>6
  <1>8. ASSUME NEW j \in 1 .. Len(s) + 1
        PROVE  (am \o b)[j] = IF j < r THEN s[j] ELSE IF j = r THEN x ELSE s[j - 1]
    <2>1. CASE j <= r
      <3>1. j \in 1 .. r /\ j <= Len(am) /\ j \in 1 .. Len(am) + Len(b)
        BY <1>1, <1>3, <1>5, <2>1
      <3>2. (am \o b)[j] = am[j] /\ am[j] = IF j < r THEN s[j] ELSE x
        BY <1>5, <1>6, <3>1
      <3>3. ~(j < r) => j = r
        BY <1>1, <2>1
      <3> QED BY <3>2, <3>3
    <2>2. CASE ~(j <= r)
      <3>1. /\ j \in 1 .. Len(am) + Len(b) /\ ~(j <= Len(am)) /\ Len(am) = r
            /\ j - r \in 1 .. Len(s) - r + 1 /\ r + (j - r) - 1 = j - 1
            /\ ~(j < r) /\ j # r
        BY <1>1, <1>3, <1>5, <2>2
      <3>2. (am \o b)[j] = b[j - r] /\ b[j - r] = s[j - 1]
        BY <1>3, <1>6, <3>1
      <3> QED BY <3>1, <3>2
    <2> QED BY <2>1, <2>2
  <1>9. IsList(am \o b) /\ DOMAIN (am \o b) = 1 .. Len(s) + 1
    BY <1>6, <1>7, ListOf
  <1>10. D!InsertAt(s, r, x) = am \o b
    BY <1>4 DEF am
  <1> QED BY <1>7, <1>8, <1>9, <1>10

----------------------------------------------------------------------------
(* What the list holds.                                                    *)

Ids(d) == {d[i].id : i \in DOMAIN d}

\* The devices of d are numbered from 1, each is there once, and G are those that
\* are not.
Holds(d, G) ==
    /\ IsFiniteSet(G)
    /\ G \subseteq 1 .. Len(d) + Cardinality(G)
    /\ \A i, j \in DOMAIN d : d[i].id = d[j].id => i = j
    /\ Ids(d) = (1 .. Len(d) + Cardinality(G)) \ G

\* A list of numbered devices.
IsDevices(d) == IsList(d) /\ \A i \in DOMAIN d : d[i].id \in Nat \ {0}

LEMMA RowsOf == ASSUME NEW d, IsDevices(d) PROVE Len(d) \in Nat /\ DOMAIN d = 1 .. Len(d)
  BY ListOf DEF IsDevices, IsList

LEMMA HoldsCounts ==
    ASSUME NEW d, IsDevices(d), NEW G, Holds(d, G)
    PROVE  IsFiniteSet(Ids(d)) /\ Cardinality(Ids(d)) = Len(d) /\ Cardinality(G) \in Nat
  <1> DEFINE N == Len(d) + Cardinality(G)
  <1>1. Len(d) \in Nat /\ Cardinality(G) \in Nat /\ N \in Nat
    BY RowsOf, FS_CardinalityType DEF Holds
  <1>2. IsFiniteSet(1 .. N) /\ Cardinality(1 .. N) = N
    BY <1>1, FS_Interval
  <1> DEFINE f == [i \in 1 .. Len(d) |-> d[i].id]
  <1>3. DOMAIN d = 1 .. Len(d)
    BY RowsOf
  <1>4. f \in Bijection(1 .. Len(d), Ids(d))
    <2>1. f \in [1 .. Len(d) -> Ids(d)]
      BY <1>3 DEF Ids
    <2>2. \A i, j \in 1 .. Len(d) : f[i] = f[j] => i = j
      BY <1>3 DEF Holds
    <2>3. \A x \in Ids(d) : \E i \in 1 .. Len(d) : f[i] = x
      BY <1>3 DEF Ids
    <2> HIDE DEF f
    <2> QED BY <2>1, <2>2, <2>3 DEF Bijection, Injection, Surjection, IsInjective
  <1>5. ExistsBijection(1 .. Len(d), Ids(d))
    BY <1>4 DEF ExistsBijection
  <1>6. IsFiniteSet(Ids(d)) /\ Cardinality(Ids(d)) = Len(d)
    BY <1>1, <1>5, FS_CountingElements, FS_NatBijection
  <1> QED BY <1>1, <1>6

\* A device that goes is among those that are not there.
LEMMA HoldsLess ==
    ASSUME NEW d, IsDevices(d), NEW r \in DOMAIN d
    PROVE  /\ IsDevices(D!RemoveAt(d, r))
           /\ Len(D!RemoveAt(d, r)) = Len(d) - 1
           /\ \A G : Holds(d, G) => /\ d[r].id \notin G
                                    /\ Holds(D!RemoveAt(d, r), G \cup {d[r].id})
                                    /\ Cardinality(G \cup {d[r].id}) = Cardinality(G) + 1
  <1> DEFINE left == D!RemoveAt(d, r)
  <1>1. Len(d) \in Nat /\ DOMAIN d = 1 .. Len(d) /\ IsList(d)
    BY RowsOf DEF IsDevices
  <1>2. /\ IsList(left) /\ Len(left) = Len(d) - 1 /\ DOMAIN left = 1 .. Len(d) - 1
        /\ \A j \in 1 .. Len(d) - 1 : left[j] = IF j < r THEN d[j] ELSE d[j + 1]
    BY <1>1, Removed
  <1> HIDE DEF left
  <1>3. IsDevices(left)
    <2>1. ASSUME NEW j \in 1 .. Len(d) - 1 PROVE left[j].id \in Nat \ {0}
      <3>1. j \in DOMAIN d /\ j + 1 \in DOMAIN d /\ left[j] \in {d[j], d[j + 1]}
        BY <1>1, <1>2
      <3> QED BY <3>1 DEF IsDevices
    <2> QED BY <1>2, <2>1 DEF IsDevices
  <1>4. ASSUME NEW G, Holds(d, G)
        PROVE  /\ d[r].id \notin G
               /\ Holds(left, G \cup {d[r].id})
               /\ Cardinality(G \cup {d[r].id}) = Cardinality(G) + 1
    <2> DEFINE o == d[r].id
               H == G \cup {o}
    <2>1. o \notin G /\ o \in Ids(d)
      BY <1>4 DEF Holds, Ids
    <2>2. IsFiniteSet(H) /\ Cardinality(H) = Cardinality(G) + 1 /\ Cardinality(G) \in Nat
      BY <1>4, <2>1, FS_AddElement, FS_CardinalityType DEF Holds
    <2>3. Len(left) + Cardinality(H) = Len(d) + Cardinality(G)
      BY <1>1, <1>2, <2>2
    <2>4. H \subseteq 1 .. Len(left) + Cardinality(H)
      BY <1>4, <2>1, <2>3 DEF Holds
    <2>5. \A i, j \in DOMAIN left : left[i].id = left[j].id => i = j
      <3> SUFFICES ASSUME NEW i \in DOMAIN left, NEW j \in DOMAIN left, left[i].id = left[j].id
                   PROVE  i = j
        OBVIOUS
      <3> DEFINE p == IF i < r THEN i ELSE i + 1
                 q == IF j < r THEN j ELSE j + 1
      <3>1. p \in DOMAIN d /\ q \in DOMAIN d /\ left[i] = d[p] /\ left[j] = d[q]
        BY <1>1, <1>2
      <3>2. p = q
        BY <1>4, <3>1 DEF Holds
      <3>3. i \in Nat /\ j \in Nat /\ r \in Nat
        BY <1>1, <1>2
      <3> QED BY <3>2, <3>3
    <2>6. Ids(left) = Ids(d) \ {o}
      <3>1. ASSUME NEW i \in DOMAIN left PROVE left[i].id \in Ids(d) \ {o}
        <4> DEFINE p == IF i < r THEN i ELSE i + 1
        <4>1. p \in DOMAIN d /\ left[i] = d[p] /\ p # r
          BY <1>1, <1>2
        <4> QED BY <1>4, <4>1 DEF Holds, Ids
      <3>2. ASSUME NEW i \in DOMAIN d, d[i].id # o PROVE d[i].id \in Ids(left)
        <4> DEFINE p == IF i < r THEN i ELSE i - 1
        <4>1. i # r
          BY <3>2
        <4>2. p \in DOMAIN left /\ left[p] = d[i]
          BY <1>1, <1>2, <4>1
        <4> QED BY <4>2 DEF Ids
      <3>3. Ids(left) \subseteq Ids(d) \ {o}
        BY <3>1 DEF Ids
      <3>4. Ids(d) \ {o} \subseteq Ids(left)
        BY <3>2 DEF Ids
      <3> QED BY <3>3, <3>4
    <2> HIDE DEF o, H
    <2>7. Ids(left) = (1 .. Len(left) + Cardinality(H)) \ H
      BY <1>4, <2>3, <2>6 DEF Holds, H
    <2>8. Holds(left, H)
      BY <2>2, <2>4, <2>5, <2>7 DEF Holds
    <2> QED BY <2>1, <2>2, <2>8 DEF o, H
  <1> QED BY <1>2, <1>3, <1>4 DEF left

\* A device that comes is one of those that are not there, or has the next number.
LEMMA HoldsMore ==
    ASSUME NEW d, IsDevices(d), NEW r \in 1 .. Len(d) + 1, NEW x, x.id \in Nat \ {0}
    PROVE  /\ IsDevices(D!InsertAt(d, r, x))
           /\ Len(D!InsertAt(d, r, x)) = Len(d) + 1
           /\ r \in DOMAIN D!InsertAt(d, r, x) /\ D!InsertAt(d, r, x)[r] = x
           /\ \A G : Holds(d, G) /\ x.id \in G => Holds(D!InsertAt(d, r, x), G \ {x.id})
           /\ \A G : Holds(d, G) /\ x.id = 1 + Len(d) + Cardinality(G) => Holds(D!InsertAt(d, r, x), G)
  <1> DEFINE more == D!InsertAt(d, r, x)
  <1>1. Len(d) \in Nat /\ DOMAIN d = 1 .. Len(d) /\ IsList(d)
    BY RowsOf DEF IsDevices
  <1>2. /\ IsList(more) /\ Len(more) = Len(d) + 1 /\ DOMAIN more = 1 .. Len(d) + 1
        /\ \A j \in 1 .. Len(d) + 1 : more[j] = IF j < r THEN d[j] ELSE IF j = r THEN x ELSE d[j - 1]
    BY <1>1, Inserted
  <1> HIDE DEF more
  <1>3. IsDevices(more)
    <2>1. \A j \in 1 .. Len(d) + 1 : more[j].id \in Nat \ {0}
      BY <1>1, <1>2 DEF IsDevices
    <2> QED BY <1>2, <2>1 DEF IsDevices
  <1>4. r \in DOMAIN more /\ more[r] = x
    BY <1>1, <1>2
  <1>5. Ids(more) = Ids(d) \cup {x.id}
    <2>1. ASSUME NEW i \in DOMAIN more PROVE more[i].id \in Ids(d) \cup {x.id}
      <3>1. i < r \/ i = r \/ (~(i < r) /\ i # r)
        OBVIOUS
      <3>2. CASE i < r
        <4>1. i \in DOMAIN d /\ more[i] = d[i]
          BY <1>1, <1>2, <3>2
        <4> QED BY <4>1 DEF Ids
      <3>3. CASE i = r
        BY <1>4, <3>3
      <3>4. CASE ~(i < r) /\ i # r
        <4>1. i - 1 \in DOMAIN d /\ more[i] = d[i - 1]
          BY <1>1, <1>2, <3>4
        <4> QED BY <4>1 DEF Ids
      <3> QED BY <3>1, <3>2, <3>3, <3>4
    <2>2. ASSUME NEW i \in DOMAIN d PROVE d[i].id \in Ids(more)
      <3> DEFINE p == IF i < r THEN i ELSE i + 1
      <3>1. p \in DOMAIN more /\ more[p] = d[i]
        BY <1>1, <1>2
      <3> QED BY <3>1 DEF Ids
    <2>3. x.id \in Ids(more)
      BY <1>4 DEF Ids
    <2>4. Ids(more) \subseteq Ids(d) \cup {x.id}
      BY <2>1 DEF Ids
    <2>5. Ids(d) \subseteq Ids(more)
      BY <2>2 DEF Ids
    <2> QED BY <2>3, <2>4, <2>5
  <1>6. ASSUME NEW G, Holds(d, G), x.id \notin Ids(d)
        PROVE  \A i, j \in DOMAIN more : more[i].id = more[j].id => i = j
    <2> SUFFICES ASSUME NEW i \in DOMAIN more, NEW j \in DOMAIN more, more[i].id = more[j].id
                 PROVE  i = j
      OBVIOUS
    <2>1. i \in 1 .. Len(d) + 1 /\ j \in 1 .. Len(d) + 1 /\ r \in Nat
      BY <1>1, <1>2
    <2> DEFINE p == IF i < r THEN i ELSE i - 1
               q == IF j < r THEN j ELSE j - 1
    <2>2. i # r => p \in DOMAIN d /\ more[i] = d[p]
      BY <1>1, <1>2, <2>1
    <2>3. j # r => q \in DOMAIN d /\ more[j] = d[q]
      BY <1>1, <1>2, <2>1
    <2>4. i # r => more[i].id # x.id
      BY <1>6, <2>2 DEF Ids
    <2>5. j # r => more[j].id # x.id
      BY <1>6, <2>3 DEF Ids
    <2>6. CASE i # r /\ j # r
      <3>1. d[p].id = d[q].id
        BY <2>2, <2>3, <2>6
      <3>2. p = q
        BY <1>6, <2>2, <2>3, <2>6, <3>1 DEF Holds
      <3> QED BY <2>1, <2>6, <3>2
    <2> QED BY <1>4, <2>4, <2>5, <2>6
  <1>7. ASSUME NEW G, Holds(d, G), x.id \in G PROVE Holds(more, G \ {x.id})
    <2> DEFINE H == G \ {x.id}
    <2>1. IsFiniteSet(H) /\ Cardinality(H) = Cardinality(G) - 1 /\ Cardinality(G) \in Nat
      BY <1>7, FS_RemoveElement, FS_CardinalityType DEF Holds
    <2>2. Len(more) + Cardinality(H) = Len(d) + Cardinality(G)
      BY <1>1, <1>2, <2>1
    <2>3. x.id \notin Ids(d)
      BY <1>7 DEF Holds
    <2>4. Ids(more) = (1 .. Len(more) + Cardinality(H)) \ H
      BY <1>5, <1>7, <2>2 DEF Holds
    <2>5. H \subseteq 1 .. Len(more) + Cardinality(H)
      BY <1>7, <2>2 DEF Holds
    <2> HIDE DEF H
    <2>6. Holds(more, H)
      BY <1>6, <1>7, <2>1, <2>3, <2>4, <2>5 DEF Holds
    <2> QED BY <2>6 DEF H
  <1>8. ASSUME NEW G, Holds(d, G), x.id = 1 + Len(d) + Cardinality(G) PROVE Holds(more, G)
    <2>1. Cardinality(G) \in Nat /\ IsFiniteSet(G)
      BY <1>8, FS_CardinalityType DEF Holds
    <2>2. Len(more) + Cardinality(G) = x.id
      BY <1>1, <1>2, <1>8, <2>1
    <2> DEFINE N == Len(d) + Cardinality(G)
    <2>3. N \in Nat /\ x.id = N + 1 /\ G \subseteq 1 .. N /\ Ids(d) = (1 .. N) \ G
      BY <1>1, <1>8, <2>1 DEF Holds
    <2>4. x.id \notin Ids(d)
      BY <2>3
    <2>5. Ids(more) = (1 .. x.id) \ G
      BY <1>5, <2>3
    <2>6. G \subseteq 1 .. x.id
      BY <2>3
    <2> QED BY <1>6, <1>8, <2>1, <2>2, <2>4, <2>5, <2>6 DEF Holds
  <1> QED BY <1>2, <1>3, <1>4, <1>7, <1>8 DEF more

\* The list as it is read is numbered.
LEMMA HoldsDetected ==
    ASSUME NEW list, IsList(list)
    PROVE  IsDevices(D!Detected(list).devices) /\ Holds(D!Detected(list).devices, {})
  <1> DEFINE d == [i \in DOMAIN list |-> [id |-> i, kind |-> list[i][1], doc |-> list[i][2]]]
             T == {d[i] : i \in DOMAIN list}
  <1>1. Len(list) \in Nat /\ DOMAIN list = 1 .. Len(list)
    BY ListOf DEF IsList
  <1>2. d \in [1 .. Len(list) -> T]
    BY <1>1
  <1>3. d \in Seq(T)
    BY <1>1, <1>2, SeqDef
  <1>4. IsList(d) /\ Len(d) = Len(list) /\ DOMAIN d = 1 .. Len(list)
    <2> HIDE DEF T
    <2>1. IsList(d) /\ DOMAIN d = 1 .. Len(d) /\ Len(d) \in Nat
      BY <1>3, ListOf
    <2>2. DOMAIN d = 1 .. Len(list)
      OBVIOUS
    <2> HIDE DEF d
    <2>3. \A a, b \in Nat : 1 .. a = 1 .. b => a = b
      <3> SUFFICES ASSUME NEW a \in Nat, NEW b \in Nat, 1 .. a = 1 .. b PROVE a = b
        OBVIOUS
      <3>1. a # 0 => a \in 1 .. b
        BY a \in 1 .. a \/ a = 0
      <3>2. b # 0 => b \in 1 .. a
        BY b \in 1 .. b \/ b = 0
      <3> QED BY <3>1, <3>2
    <2> QED BY <1>1, <2>1, <2>2, <2>3
  <1>5. \A i \in 1 .. Len(list) : d[i].id = i
    BY <1>1
  <1> HIDE DEF d
  <1>6. IsDevices(d)
    BY <1>1, <1>4, <1>5 DEF IsDevices
  <1>7. IsFiniteSet({}) /\ Cardinality({}) = 0
    BY FS_EmptySet
  <1>8. Ids(d) = 1 .. Len(list)
    BY <1>4, <1>5 DEF Ids
  <1>9. Holds(d, {})
    BY <1>1, <1>4, <1>5, <1>7, <1>8 DEF Holds
  <1> QED BY <1>6, <1>9 DEF D!Detected, d

----------------------------------------------------------------------------
(* The list and the panel.                                                 *)

IsForm(f) ==
    f.of # 0 =>
        /\ f.of \in Nat
        /\ DOMAIN f = {"of", "kind", "row", "read", "settled", "shown", "first", "current"}
IsPanel(p) == DOMAIN p = {"form", "saved", "changed"} /\ IsForm(p.form)
IsPast(q)  == DOMAIN q = {"since", "spoilt", "gone"} /\ IsFiniteSet(q.gone)
IsEditor(e) ==
    /\ DOMAIN e = {"devices", "current", "panel", "past"}
    /\ IsDevices(e.devices) /\ e.current \in 0 .. Len(e.devices)
    /\ IsPanel(e.panel) /\ IsPast(e.past)

\* The list is whole, unless a save has spoilt it.
Whole(e) == IsEditor(e) /\ (~e.past.spoilt => Holds(e.devices, e.past.gone))

\* The row that the panel remembers is that of its device, unless something has
\* happened to the rows since.
RowIsRight(e) ==
    e.panel.form.of # 0 /\ e.past.since = "nothing" /\ ~e.past.spoilt =>
        /\ e.panel.form.row \in DOMAIN e.devices
        /\ e.devices[e.panel.form.row].id = e.panel.form.of
Good(e) == Whole(e) /\ RowIsRight(e)

\* t has the list of e, and what has happened to it.
SameRows(e, t) == t.devices = e.devices /\ t.current = e.current /\ t.past = e.past

\* t is e without its row r.
Takes(e, r, t) ==
    /\ IsEditor(t) /\ t.devices = D!RemoveAt(e.devices, r) /\ t.panel = e.panel /\ t.past = e.past
    /\ t.current = IF e.current > r \/ e.current > Len(e.devices) - 1 THEN e.current - 1 ELSE e.current

LEMMA TakeItemDoes ==
    ASSUME NEW e, IsEditor(e), NEW r \in DOMAIN e.devices
    PROVE  Takes(e, r, D!TakeItem(e, r))
  <1> DEFINE left == D!RemoveAt(e.devices, r)
             c == IF e.current > r \/ e.current > Len(left) THEN e.current - 1 ELSE e.current
             t == [e EXCEPT !.devices = left, !.current = c]
  <1>1. IsDevices(left) /\ Len(left) = Len(e.devices) - 1
    BY HoldsLess DEF IsEditor
  <1>2. Len(e.devices) \in Nat /\ DOMAIN e.devices = 1 .. Len(e.devices) /\ e.current \in 0 .. Len(e.devices)
    BY RowsOf DEF IsEditor
  <1>3. D!TakeItem(e, r) = t
    BY DEF D!TakeItem
  <1> HIDE DEF left
  <1>4. c \in 0 .. Len(left)
    BY <1>1, <1>2
  <1>5. c = IF e.current > r \/ e.current > Len(e.devices) - 1 THEN e.current - 1 ELSE e.current
    BY <1>1
  <1> HIDE DEF c
  <1>6. /\ DOMAIN t = {"devices", "current", "panel", "past"}
        /\ t.devices = left /\ t.current = c /\ t.panel = e.panel /\ t.past = e.past
    BY DEF IsEditor
  <1> HIDE DEF t
  <1>7. IsEditor(t)
    BY <1>1, <1>4, <1>6 DEF IsEditor
  <1> QED BY <1>3, <1>5, <1>6, <1>7 DEF Takes, left

\* t is e without its row r, which is remembered.
Drops(e, r, t) ==
    /\ IsEditor(t) /\ t.devices = D!RemoveAt(e.devices, r) /\ t.panel = e.panel
    /\ t.past.since = e.past.since /\ t.past.spoilt = e.past.spoilt
    /\ t.past.gone = e.past.gone \cup {e.devices[r].id}
    /\ t.current = IF e.current > r \/ e.current > Len(e.devices) - 1 THEN e.current - 1 ELSE e.current

LEMMA ReplaceDoes ==
    ASSUME NEW e, IsEditor(e), NEW r \in DOMAIN e.devices
    PROVE  Drops(e, r, D!Replace(e, r))
  <1> DEFINE s == D!TakeItem(e, r)
             g == s.past.gone \cup {e.devices[r].id}
             t == [s EXCEPT !.past.gone = g]
  <1>1. /\ IsEditor(s) /\ s.devices = D!RemoveAt(e.devices, r) /\ s.panel = e.panel /\ s.past = e.past
        /\ s.current = IF e.current > r \/ e.current > Len(e.devices) - 1 THEN e.current - 1 ELSE e.current
    BY TakeItemDoes DEF Takes
  <1>2. D!Replace(e, r) = t
    BY DEF D!Replace
  <1> HIDE DEF s
  <1>3. IsFiniteSet(g)
    BY <1>1, FS_AddElement DEF IsEditor, IsPast
  <1>4. g = e.past.gone \cup {e.devices[r].id}
    BY <1>1
  <1> HIDE DEF g
  <1>5. /\ DOMAIN t = {"devices", "current", "panel", "past"} /\ DOMAIN t.past = {"since", "spoilt", "gone"}
        /\ t.devices = s.devices /\ t.current = s.current /\ t.panel = s.panel
        /\ t.past.since = s.past.since /\ t.past.spoilt = s.past.spoilt /\ t.past.gone = g
    BY <1>1 DEF IsEditor, IsPast
  <1> HIDE DEF t
  <1>6. IsEditor(t)
    BY <1>1, <1>3, <1>5 DEF IsEditor, IsPast
  <1> QED BY <1>1, <1>2, <1>4, <1>5, <1>6 DEF Drops

\* t is e with d in some row.
Places(e, d, t) ==
    /\ IsEditor(t) /\ t.panel = e.panel /\ t.past = e.past
    /\ \E row \in 1 .. Len(e.devices) + 1 :
          /\ t.devices = D!InsertAt(e.devices, row, d)
          /\ t.current = IF e.current >= row THEN e.current + 1 ELSE e.current

LEMMA PlacedDoes ==
    ASSUME NEW e, IsEditor(e), NEW d, d.id \in Nat \ {0}
    PROVE  Places(e, d, D!Placed(e, d))
  <1> DEFINE S == {0} \cup {i \in DOMAIN e.devices : Rank[e.devices[i].kind] <= Rank[d.kind]}
             row == D!PlaceFor(e.devices, d.kind)
             more == D!InsertAt(e.devices, row, d)
             c == IF e.current >= row THEN e.current + 1 ELSE e.current
             t == [e EXCEPT !.devices = more, !.current = c]
  <1>1. Len(e.devices) \in Nat /\ DOMAIN e.devices = 1 .. Len(e.devices) /\ e.current \in 0 .. Len(e.devices)
    BY RowsOf DEF IsEditor
  <1>2. row \in 1 .. Len(e.devices) + 1
    <2>1. S \subseteq 0 .. Len(e.devices) /\ 0 \in S
      BY <1>1
    <2>2. row = D!Max(S) + 1
      BY DEF D!PlaceFor
    <2> HIDE DEF S, row
    <2>3. D!Max(S) \in S
      BY <1>1, <2>1, MaxOfRows
    <2>4. D!Max(S) \in 0 .. Len(e.devices)
      BY <2>1, <2>3
    <2> QED BY <1>1, <2>2, <2>4
  <1>3. D!Placed(e, d) = t
    BY DEF D!Placed, D!InsertDevice
  <1> HIDE DEF row
  <1>4. IsDevices(more) /\ Len(more) = Len(e.devices) + 1
    BY <1>2, HoldsMore DEF IsEditor
  <1> HIDE DEF more
  <1>5. c \in 0 .. Len(more)
    BY <1>1, <1>2, <1>4
  <1> HIDE DEF c
  <1>6. /\ DOMAIN t = {"devices", "current", "panel", "past"}
        /\ t.devices = more /\ t.current = c /\ t.panel = e.panel /\ t.past = e.past
    BY DEF IsEditor
  <1> HIDE DEF t
  <1>7. IsEditor(t)
    BY <1>4, <1>5, <1>6 DEF IsEditor
  <1> QED BY <1>2, <1>3, <1>6, <1>7 DEF Places, more, c

\* t is e with d added, a new device or one that was taken out to be stored.
Adds(e, d, t) ==
    /\ IsEditor(t) /\ t.panel = e.panel
    /\ t.past.since = e.past.since /\ t.past.spoilt = e.past.spoilt
    /\ e.past.gone \subseteq t.past.gone
    /\ \E i \in DOMAIN t.devices : t.devices[i] = d
    /\ \/ /\ Holds(e.devices, e.past.gone)
          /\ d.id = 1 + Len(e.devices) + Cardinality(e.past.gone)
       \/ /\ Holds(e.devices, e.past.gone \cup {d.id})
          /\ d.id \notin e.past.gone
       => Holds(t.devices, t.past.gone)

\* The list is whole after a device has come in the place of another one.
LEMMA NewHeld ==
    ASSUME NEW e, IsEditor(e), NEW d, d.id \in Nat \ {0}, NEW m \in DOMAIN e.devices,
           NEW x, Drops(e, m, x), NEW t, Places(x, d, t)
    PROVE  Adds(e, d, t)
  <1> DEFINE G == e.past.gone
             o == e.devices[m].id
             l == x.devices
  <1>1. Len(e.devices) \in Nat /\ IsDevices(e.devices)
    BY RowsOf DEF IsEditor
  <1>2. /\ l = D!RemoveAt(e.devices, m) /\ x.past.gone = G \cup {o} /\ t.past = x.past
        /\ x.past.since = e.past.since /\ x.past.spoilt = e.past.spoilt
        /\ t.panel = e.panel /\ IsEditor(t) /\ IsDevices(l)
    BY DEF Drops, Places, IsEditor
  <1>3. PICK row \in 1 .. Len(l) + 1 : t.devices = D!InsertAt(l, row, d)
    BY DEF Places
  <1> HIDE DEF l
  <1>4. row \in DOMAIN t.devices /\ t.devices[row] = d
    <2>1. row \in DOMAIN D!InsertAt(l, row, d) /\ D!InsertAt(l, row, d)[row] = d
      BY <1>2, HoldsMore
    <2> QED BY <1>3, <2>1
  <1>5. \A H : Holds(l, H) /\ d.id \in H => Holds(t.devices, H \ {d.id})
    BY <1>2, <1>3, HoldsMore
  <1>6. \A H : Holds(l, H) /\ d.id = 1 + Len(l) + Cardinality(H) => Holds(t.devices, H)
    BY <1>2, <1>3, HoldsMore
  <1>7. \A H : Holds(e.devices, H) => /\ o \notin H /\ Holds(l, H \cup {o})
                                      /\ Cardinality(H \cup {o}) = Cardinality(H) + 1
    BY <1>1, <1>2, HoldsLess
  <1>8. Len(l) = Len(e.devices) - 1
    BY <1>1, <1>2, HoldsLess
  <1> HIDE DEF o, G
  <1>9. ASSUME Holds(e.devices, G), d.id = 1 + Len(e.devices) + Cardinality(G)
        PROVE  Holds(t.devices, G \cup {o})
    <2>1. Holds(l, G \cup {o}) /\ Cardinality(G \cup {o}) = Cardinality(G) + 1
      BY <1>7, <1>9
    <2>2. Cardinality(G) \in Nat
      BY <1>9, FS_CardinalityType DEF Holds
    <2>3. d.id = 1 + Len(l) + Cardinality(G \cup {o})
      BY <1>1, <1>8, <1>9, <2>1, <2>2
    <2> QED BY <1>6, <2>1, <2>3
  <1>10. ASSUME Holds(e.devices, G \cup {d.id}), d.id \notin G
         PROVE  Holds(t.devices, G \cup {o})
    <2> DEFINE H == G \cup {d.id}
    <2>1. o \notin H /\ Holds(l, H \cup {o})
      BY <1>7, <1>10
    <2>2. (H \cup {o}) \ {d.id} = G \cup {o} /\ d.id \in H \cup {o}
      BY <1>10, <2>1
    <2> HIDE DEF H
    <2> QED BY <1>5, <2>1, <2>2
  <1>11. t.past.gone = G \cup {o} /\ G \subseteq t.past.gone
    BY <1>2
  <1> QED BY <1>2, <1>4, <1>9, <1>10, <1>11 DEF Adds, G

LEMMA AddDoes ==
    ASSUME NEW e, IsEditor(e), NEW d, d.id \in Nat \ {0}
    PROVE  Adds(e, d, D!AddDeviceToUsedDevList(e, d))
  <1> DEFINE others == D!Others(e.devices, d.kind)
             t == D!AddDeviceToUsedDevList(e, d)
  <1>1. Len(e.devices) \in Nat /\ DOMAIN e.devices = 1 .. Len(e.devices) /\ IsDevices(e.devices)
    BY RowsOf DEF IsEditor
  <1>2. CASE others = {}
    <2>1. t = D!Placed(e, d)
      BY <1>2 DEF D!AddDeviceToUsedDevList
    <2> HIDE DEF t
    <2>2. Places(e, d, t)
      BY <2>1, PlacedDoes
    <2> DEFINE l == e.devices
    <2>3. PICK row \in 1 .. Len(l) + 1 : t.devices = D!InsertAt(l, row, d)
      BY <2>2 DEF Places
    <2> HIDE DEF l
    <2>4. IsDevices(l)
      BY <1>1 DEF l
    <2>5. row \in DOMAIN t.devices /\ t.devices[row] = d
      <3>1. row \in DOMAIN D!InsertAt(l, row, d) /\ D!InsertAt(l, row, d)[row] = d
        BY <2>4, HoldsMore
      <3> QED BY <2>3, <3>1
    <2>6. \A H : Holds(l, H) /\ d.id \in H => Holds(t.devices, H \ {d.id})
      BY <2>3, <2>4, HoldsMore
    <2>7. \A H : Holds(l, H) /\ d.id = 1 + Len(l) + Cardinality(H) => Holds(t.devices, H)
      BY <2>3, <2>4, HoldsMore
    <2>8. IsEditor(t) /\ t.panel = e.panel /\ t.past = e.past
      BY <2>2 DEF Places
    <2> DEFINE G == e.past.gone
    <2> HIDE DEF G
    <2>9. ASSUME Holds(l, G \cup {d.id}), d.id \notin G
          PROVE  Holds(t.devices, G)
      <3> DEFINE H == G \cup {d.id}
      <3>1. H \ {d.id} = G /\ d.id \in H
        BY <2>9
      <3> HIDE DEF H
      <3>2. Holds(l, H)
        BY <2>9 DEF H
      <3> QED BY <2>6, <3>1, <3>2
    <2>10. Holds(l, G) /\ d.id = 1 + Len(l) + Cardinality(G) => Holds(t.devices, G)
      BY <2>7
    <2>11. /\ IsEditor(t) /\ t.panel = e.panel /\ t.past.gone = G /\ e.past.gone = G
           /\ t.past.since = e.past.since /\ t.past.spoilt = e.past.spoilt
      BY <2>8 DEF G
    <2>12. Adds(e, d, t)
      BY <2>5, <2>9, <2>10, <2>11 DEF Adds, l
    <2> QED BY <2>12 DEF t
  <1>3. CASE others # {}
    <2> DEFINE m == D!Min(others)
               x == D!Replace(e, m)
    <2>1. t = D!Placed(x, d)
      BY <1>3 DEF D!AddDeviceToUsedDevList
    <2>2. m \in DOMAIN e.devices
      <3>1. others \subseteq DOMAIN e.devices
        BY DEF D!Others
      <3> HIDE DEF others
      <3> QED BY <1>1, <1>3, <3>1, MinOfRows
    <2> HIDE DEF m
    <2>3. Drops(e, m, x)
      BY <2>2, ReplaceDoes
    <2> HIDE DEF x, t
    <2>4. Places(x, d, t)
      BY <2>1, <2>3, PlacedDoes DEF Drops
    <2> QED BY <2>2, <2>3, <2>4, NewHeld DEF t
  <1> QED BY <1>2, <1>3
----------------------------------------------------------------------------
(* What stays in the list, and which device is current.                    *)

\* The devices of e that are not in t have gone.
KeepsRows(e, t) ==
    /\ e.past.gone \subseteq t.past.gone
    /\ \A i \in DOMAIN e.devices :
          e.devices[i].id \in t.past.gone \/ \E j \in DOMAIN t.devices : t.devices[j] = e.devices[i]

\* The current device of t is that of e.
KeepsCurrent(e, t) ==
    /\ e.current = 0 => t.current = 0
    /\ e.current # 0 => t.current \in DOMAIN t.devices /\ t.devices[t.current] = e.devices[e.current]

LEMMA RowsGoOn ==
    ASSUME NEW e, NEW x, NEW t, KeepsRows(e, x), KeepsRows(x, t)
    PROVE  KeepsRows(e, t)
  BY DEF KeepsRows

LEMMA RemovedRows ==
    ASSUME NEW l, IsDevices(l), NEW r \in DOMAIN l, NEW i \in DOMAIN l, i # r
    PROVE  \E j \in DOMAIN D!RemoveAt(l, r) :
               D!RemoveAt(l, r)[j] = l[i] /\ j = IF i > r THEN i - 1 ELSE i
  <1> DEFINE left == D!RemoveAt(l, r)
             j == IF i > r THEN i - 1 ELSE i
  <1>1. Len(l) \in Nat /\ DOMAIN l = 1 .. Len(l) /\ IsList(l)
    BY RowsOf DEF IsDevices
  <1>2. /\ DOMAIN left = 1 .. Len(l) - 1
        /\ \A k \in 1 .. Len(l) - 1 : left[k] = IF k < r THEN l[k] ELSE l[k + 1]
    BY <1>1, Removed
  <1> HIDE DEF left
  <1>3. j \in 1 .. Len(l) - 1 /\ (IF j < r THEN j ELSE j + 1) = i
    BY <1>1
  <1>4. left[j] = l[i]
    BY <1>2, <1>3
  <1> QED BY <1>2, <1>3, <1>4 DEF left

LEMMA InsertedRows ==
    ASSUME NEW l, IsDevices(l), NEW r \in 1 .. Len(l) + 1, NEW d, NEW i \in DOMAIN l
    PROVE  \E j \in DOMAIN D!InsertAt(l, r, d) :
               D!InsertAt(l, r, d)[j] = l[i] /\ j = IF i >= r THEN i + 1 ELSE i
  <1> DEFINE more == D!InsertAt(l, r, d)
             j == IF i >= r THEN i + 1 ELSE i
  <1>1. Len(l) \in Nat /\ DOMAIN l = 1 .. Len(l) /\ IsList(l)
    BY RowsOf DEF IsDevices
  <1>2. /\ DOMAIN more = 1 .. Len(l) + 1
        /\ \A k \in 1 .. Len(l) + 1 : more[k] = IF k < r THEN l[k] ELSE IF k = r THEN d ELSE l[k - 1]
    BY <1>1, Inserted
  <1> HIDE DEF more
  <1>3. j \in 1 .. Len(l) + 1 /\ j # r /\ (IF j < r THEN j ELSE j - 1) = i
    BY <1>1
  <1>4. more[j] = l[i]
    BY <1>2, <1>3
  <1> QED BY <1>2, <1>3, <1>4 DEF more

LEMMA DropsKeep ==
    ASSUME NEW e, IsEditor(e), NEW r \in DOMAIN e.devices, NEW t, Drops(e, r, t)
    PROVE  KeepsRows(e, t) /\ (e.current # r => KeepsCurrent(e, t))
  <1> DEFINE l == e.devices
             m == D!RemoveAt(l, r)
  <1>1. /\ IsDevices(l) /\ Len(l) \in Nat /\ DOMAIN l = 1 .. Len(l)
        /\ e.current \in 0 .. Len(l) /\ r \in DOMAIN l
    BY RowsOf DEF IsEditor
  <1>2. /\ t.devices = m /\ t.past.gone = e.past.gone \cup {l[r].id}
        /\ t.current = IF e.current > r \/ e.current > Len(l) - 1 THEN e.current - 1 ELSE e.current
    BY DEF Drops
  <1>3. \A i \in DOMAIN l : i # r =>
            \E j \in DOMAIN m : m[j] = l[i] /\ j = IF i > r THEN i - 1 ELSE i
    BY <1>1, RemovedRows
  <1> HIDE DEF m, l
  <1>4. \A i \in DOMAIN l : l[i].id \in t.past.gone \/ \E j \in DOMAIN t.devices : t.devices[j] = l[i]
    BY <1>2, <1>3
  <1>5. KeepsRows(e, t)
    BY <1>2, <1>4 DEF KeepsRows, l
  <1>6. ASSUME e.current # r, e.current # 0
        PROVE  t.current \in DOMAIN t.devices /\ t.devices[t.current] = l[e.current]
    <2>1. e.current \in DOMAIN l
      BY <1>1, <1>6
    <2>2. PICK j \in DOMAIN m : m[j] = l[e.current] /\ j = IF e.current > r THEN e.current - 1 ELSE e.current
      BY <1>3, <1>6, <2>1
    <2>3. t.current = j
      BY <1>1, <1>2, <1>6, <2>2
    <2> QED BY <1>2, <2>2, <2>3
  <1>7. e.current = 0 => t.current = 0
    BY <1>1, <1>2
  <1> QED BY <1>5, <1>6, <1>7 DEF KeepsCurrent, l

LEMMA PlacesKeep ==
    ASSUME NEW e, IsEditor(e), NEW d, NEW t, Places(e, d, t)
    PROVE  KeepsRows(e, t) /\ KeepsCurrent(e, t)
  <1> DEFINE l == e.devices
  <1>1. /\ IsDevices(l) /\ Len(l) \in Nat /\ DOMAIN l = 1 .. Len(l) /\ e.current \in 0 .. Len(l)
    BY RowsOf DEF IsEditor
  <1>2. PICK r \in 1 .. Len(l) + 1 :
            /\ t.devices = D!InsertAt(l, r, d)
            /\ t.current = IF e.current >= r THEN e.current + 1 ELSE e.current
    BY DEF Places
  <1>3. t.past = e.past
    BY DEF Places
  <1> HIDE DEF l
  <1>4. \A i \in DOMAIN l :
            \E j \in DOMAIN t.devices : t.devices[j] = l[i] /\ j = IF i >= r THEN i + 1 ELSE i
    <2>1. \A i \in DOMAIN l : \E j \in DOMAIN D!InsertAt(l, r, d) :
              D!InsertAt(l, r, d)[j] = l[i] /\ j = IF i >= r THEN i + 1 ELSE i
      BY <1>1, InsertedRows
    <2> QED BY <1>2, <2>1
  <1>5. KeepsRows(e, t)
    BY <1>3, <1>4 DEF KeepsRows, l
  <1>6. ASSUME e.current # 0
        PROVE  t.current \in DOMAIN t.devices /\ t.devices[t.current] = l[e.current]
    <2>1. e.current \in DOMAIN l
      BY <1>1, <1>6
    <2> QED BY <1>2, <1>4, <2>1
  <1>7. e.current = 0 => t.current = 0
    BY <1>1, <1>2
  <1> QED BY <1>5, <1>6, <1>7 DEF KeepsCurrent, l

LEMMA AddKeepsRows ==
    ASSUME NEW e, IsEditor(e), NEW d, d.id \in Nat \ {0}
    PROVE  /\ KeepsRows(e, D!AddDeviceToUsedDevList(e, d))
           /\ e.current \notin D!Others(e.devices, d.kind) => KeepsCurrent(e, D!AddDeviceToUsedDevList(e, d))
  <1> DEFINE others == D!Others(e.devices, d.kind)
             t == D!AddDeviceToUsedDevList(e, d)
  <1>1. CASE others = {}
    <2>1. t = D!Placed(e, d)
      BY <1>1 DEF D!AddDeviceToUsedDevList
    <2> HIDE DEF t
    <2>2. Places(e, d, t)
      BY <2>1, PlacedDoes
    <2>3. KeepsRows(e, t) /\ KeepsCurrent(e, t)
      BY <2>2, PlacesKeep
    <2> QED BY <2>3 DEF t
  <1>2. CASE others # {}
    <2> DEFINE m == D!Min(others)
               x == D!Replace(e, m)
    <2>1. t = D!Placed(x, d)
      BY <1>2 DEF D!AddDeviceToUsedDevList
    <2>2. m \in others /\ m \in DOMAIN e.devices
      <3>1. others \subseteq DOMAIN e.devices /\ DOMAIN e.devices \subseteq Nat
        BY RowsOf DEF D!Others, IsEditor
      <3> HIDE DEF others
      <3> QED BY <1>2, <3>1, MinOfRows
    <2> HIDE DEF m
    <2>3. Drops(e, m, x)
      BY <2>2, ReplaceDoes
    <2> HIDE DEF x, t
    <2>4. Places(x, d, t) /\ IsEditor(x)
      BY <2>1, <2>3, PlacedDoes DEF Drops
    <2>5. KeepsRows(e, x) /\ (e.current # m => KeepsCurrent(e, x))
      BY <2>2, <2>3, DropsKeep
    <2>6. KeepsRows(x, t) /\ KeepsCurrent(x, t)
      BY <2>4, PlacesKeep
    <2>7. KeepsRows(e, t)
      BY <2>5, <2>6, RowsGoOn
    <2>8. e.current # m => KeepsCurrent(e, t)
      <3>1. x.current \in DOMAIN x.devices => x.current # 0
        BY <2>4, RowsOf DEF IsEditor
      <3> QED BY <2>5, <2>6, <3>1 DEF KeepsCurrent
    <2> QED BY <2>2, <2>7, <2>8 DEF t
  <1> QED BY <1>1, <1>2

----------------------------------------------------------------------------
(* Leaving a device and showing the next one.                              *)

\* The list of e has device f as its panel holds it.
Stored(e, f) == \E i \in DOMAIN e.devices : e.devices[i].id = f.of /\ e.devices[i].doc = f.current

LEMMA StartStateDoes ==
    ASSUME NEW e, IsEditor(e)
    PROVE  /\ IsEditor(D!SetStartState(e)) /\ SameRows(e, D!SetStartState(e))
           /\ D!SetStartState(e).panel.form = e.panel.form /\ ~D!SetStartState(e).panel.changed
  BY DEF D!SetStartState, IsEditor, IsPanel, SameRows

\* t is e with its device stored.
Stores(e, t) ==
    /\ Whole(t) /\ Stored(t, e.panel.form) /\ e.past.gone \subseteq t.past.gone
    /\ ~t.panel.changed

LEMMA StoreDoes ==
    ASSUME NEW e, Good(e), e.panel.form.of # 0
    PROVE  Stores(e, D!Store(e, e.panel.form))
  <1> DEFINE f == e.panel.form
             s == D!SetStartState(e)
             x == [id |-> f.of, kind |-> f.kind, doc |-> f.current]
             u == [s EXCEPT !.past.spoilt = s.past.spoilt \/ s.past.since # "nothing"]
             v == D!TakeItem(u, f.row)
             t == D!AddDeviceToUsedDevList(v, x)
  <1>1. /\ IsEditor(s) /\ s.devices = e.devices /\ s.current = e.current /\ s.past = e.past
        /\ ~s.panel.changed
    <2>1. IsEditor(e)
      BY DEF Good, Whole
    <2> QED BY <2>1, StartStateDoes DEF SameRows
  <1>2. D!Store(e, f) = t
    BY DEF D!Store, D!SaveDeviceXMLDescription
  <1>3. x.id = f.of /\ x.doc = f.current /\ f.of \in Nat \ {0}
    BY DEF Good, Whole, IsEditor, IsPanel, IsForm
  <1> HIDE DEF s, x
  <1>4. /\ IsEditor(u) /\ u.devices = e.devices /\ u.past.gone = e.past.gone /\ ~u.panel.changed
        /\ u.past.spoilt <=> (e.past.spoilt \/ e.past.since # "nothing")
    <2>1. /\ DOMAIN u = {"devices", "current", "panel", "past"} /\ DOMAIN u.past = {"since", "spoilt", "gone"}
          /\ u.devices = s.devices /\ u.current = s.current /\ u.panel = s.panel /\ u.past.gone = s.past.gone
          /\ u.past.spoilt = (s.past.spoilt \/ s.past.since # "nothing")
      BY <1>1 DEF IsEditor, IsPast
    <2> HIDE DEF u
    <2>2. IsEditor(u)
      BY <1>1, <2>1 DEF IsEditor, IsPast
    <2> QED BY <1>1, <2>1, <2>2
  <1> HIDE DEF u
  <1>5. /\ IsEditor(v) /\ v.past = u.past /\ ~v.panel.changed
        /\ f.row \in DOMAIN e.devices => v.devices = D!RemoveAt(e.devices, f.row)
    <2>1. CASE f.row \in DOMAIN e.devices
      <3>1. Takes(u, f.row, v)
        BY <1>4, <2>1, TakeItemDoes
      <3> QED BY <1>4, <3>1 DEF Takes
    <2>2. CASE f.row \notin DOMAIN e.devices
      <3>1. v = u
        BY <1>4, <2>2 DEF D!TakeItem
      <3> QED BY <1>4, <2>2, <3>1
    <2> QED BY <2>1, <2>2
  <1> HIDE DEF v
  <1>6. Adds(v, x, t)
    BY <1>3, <1>5, AddDoes
  <1> HIDE DEF t
  <1>7. ASSUME ~t.past.spoilt PROVE Holds(t.devices, t.past.gone)
    <2>1. ~e.past.spoilt /\ e.past.since = "nothing"
      BY <1>4, <1>5, <1>6, <1>7 DEF Adds
    <2>2. /\ f.row \in DOMAIN e.devices /\ e.devices[f.row].id = f.of
          /\ Holds(e.devices, e.past.gone) /\ IsDevices(e.devices)
      BY <1>3, <2>1 DEF Good, Whole, RowIsRight, IsEditor
    <2>3. f.of \notin e.past.gone /\ Holds(D!RemoveAt(e.devices, f.row), e.past.gone \cup {f.of})
      BY <2>2, HoldsLess
    <2>4. x.id \notin v.past.gone /\ Holds(v.devices, v.past.gone \cup {x.id})
      BY <1>3, <1>4, <1>5, <2>2, <2>3
    <2> QED BY <1>6, <2>4 DEF Adds
  <1>8. Stored(t, f)
    BY <1>3, <1>6 DEF Stored, Adds
  <1>9. IsEditor(t) /\ e.past.gone \subseteq t.past.gone /\ ~t.panel.changed
    BY <1>4, <1>5, <1>6 DEF Adds
  <1> QED BY <1>2, <1>7, <1>8, <1>9 DEF Stores, Whole

\* t is e without the panel of its device.
Clears(e, t) ==
    /\ Good(t) /\ t.panel.form.of = 0
    /\ t.devices = e.devices /\ t.current = e.current
    /\ t.past.gone = e.past.gone /\ t.past.spoilt = e.past.spoilt
    /\ t.panel.changed = e.panel.changed

LEMMA ClearDoes ==
    ASSUME NEW e, Whole(e)
    PROVE  Clears(e, D!ClearDataEdit(e))
  <1> DEFINE t == D!ClearDataEdit(e)
  <1>1. /\ DOMAIN t = {"devices", "current", "panel", "past"}
        /\ DOMAIN t.panel = {"form", "saved", "changed"} /\ t.panel.form = D!NoForm
        /\ t.panel.changed = e.panel.changed
        /\ DOMAIN t.past = {"since", "spoilt", "gone"}
        /\ t.devices = e.devices /\ t.current = e.current
        /\ t.past.gone = e.past.gone /\ t.past.spoilt = e.past.spoilt
    BY DEF D!ClearDataEdit, Whole, IsEditor, IsPanel, IsPast
  <1> HIDE DEF t
  <1>2. t.panel.form.of = 0 /\ IsForm(t.panel.form)
    BY <1>1 DEF D!NoForm, IsForm
  <1>3. IsEditor(t)
    BY <1>1, <1>2 DEF Whole, IsEditor, IsPanel, IsPast
  <1>4. Good(t)
    BY <1>1, <1>2, <1>3 DEF Good, Whole, RowIsRight
  <1> QED BY <1>1, <1>2, <1>4 DEF Clears, t

\* What becomes of the panel keeps its device and the row.
LEMMA PanelChanges ==
    ASSUME NEW e, Good(e), NEW t, SameRows(e, t), DOMAIN t = {"devices", "current", "panel", "past"},
           DOMAIN t.panel = {"form", "saved", "changed"},
           \/ t.panel.form = e.panel.form
           \/ /\ DOMAIN t.panel.form = DOMAIN e.panel.form
              /\ t.panel.form.of = e.panel.form.of /\ t.panel.form.row = e.panel.form.row
    PROVE  Good(t) /\ t.panel.form.of = e.panel.form.of
  <1>1. IsForm(t.panel.form) /\ t.panel.form.of = e.panel.form.of /\ t.panel.form.row = e.panel.form.row
    BY DEF Good, Whole, IsEditor, IsPanel, IsForm
  <1>2. IsEditor(t)
    BY <1>1 DEF Good, Whole, IsEditor, IsPanel, SameRows
  <1> QED BY <1>1, <1>2 DEF Good, Whole, RowIsRight, SameRows

\* t is e with another panel of the same device.
Repaints(e, t) ==
    /\ Good(t) /\ SameRows(e, t) /\ t.panel.form.of = e.panel.form.of
    /\ ~e.panel.changed => ~t.panel.changed

LEMMA SaveDataDoes ==
    ASSUME NEW e, Good(e)
    PROVE  Repaints(e, D!SaveDeviceData(e))
  <1> DEFINE t == D!SaveDeviceData(e)
  <1>1. CASE e.panel.form.of = 0
    <2>1. /\ SameRows(e, t) /\ DOMAIN t = {"devices", "current", "panel", "past"}
          /\ DOMAIN t.panel = {"form", "saved", "changed"} /\ t.panel.form = e.panel.form
          /\ t.panel.changed = e.panel.changed
      BY <1>1 DEF D!SaveDeviceData, D!Open, Good, Whole, IsEditor, IsPanel, SameRows
    <2> HIDE DEF t
    <2> QED BY <2>1, PanelChanges DEF Repaints, t
  <1>2. CASE e.panel.form.of # 0
    <2>1. /\ SameRows(e, t) /\ DOMAIN t = {"devices", "current", "panel", "past"}
          /\ DOMAIN t.panel = {"form", "saved", "changed"} /\ DOMAIN t.panel.form = DOMAIN e.panel.form
          /\ t.panel.form.of = e.panel.form.of /\ t.panel.form.row = e.panel.form.row
          /\ t.panel.changed = e.panel.changed
      BY <1>2 DEF D!SaveDeviceData, D!Open, Good, Whole, IsEditor, IsPanel, IsForm, SameRows
    <2> HIDE DEF t
    <2> QED BY <2>1, PanelChanges DEF Repaints, t
  <1> QED BY <1>1, <1>2

LEMMA AskingDoes ==
    ASSUME NEW e, Good(e), NEW ok
    PROVE  Repaints(e, D!Asking(e, ok)) /\ (e.panel.saved => D!Asking(e, ok) = e)
  <1>1. CASE e.panel.saved
    BY <1>1 DEF D!Asking, Repaints, SameRows
  <1>2. CASE ~e.panel.saved /\ ok
    <2>1. D!Asking(e, ok) = D!SaveDeviceData(e)
      BY <1>2 DEF D!Asking
    <2> QED BY <1>2, <2>1, SaveDataDoes
  <1>3. CASE ~e.panel.saved /\ ~ok
    <2> DEFINE t == D!SetStartState(e)
    <2>1. D!Asking(e, ok) = t
      BY <1>3 DEF D!Asking
    <2>2. IsEditor(t) /\ SameRows(e, t) /\ t.panel.form = e.panel.form /\ ~t.panel.changed
      BY StartStateDoes DEF Good, Whole
    <2> HIDE DEF t
    <2>3. Good(t) /\ t.panel.form.of = e.panel.form.of
      BY <2>2, PanelChanges DEF IsEditor, IsPanel
    <2> QED BY <1>3, <2>1, <2>2, <2>3 DEF Repaints
  <1> QED BY <1>1, <1>2, <1>3

\* t is e with the panel closed: what was saved and changed in it is in the list.
Closes(e, t) ==
    /\ Good(t) /\ t.panel.form.of = 0 /\ e.past.gone \subseteq t.past.gone
    /\ D!Open(e.panel) /\ e.panel.saved /\ e.panel.changed => Stored(t, e.panel.form) /\ ~t.panel.changed
    /\ ~e.panel.changed => t.devices = e.devices /\ ~t.panel.changed

LEMMA CloseDoes ==
    ASSUME NEW e, Good(e), NEW ok
    PROVE  Closes(e, D!CloseDataEdit(e, ok))
  <1> DEFINE a == D!Asking(e, ok)
             b == D!Store(a, a.panel.form)
             c == IF D!Open(a.panel) /\ a.panel.changed THEN b ELSE a
             t == D!ClearDataEdit(c)
  <1>1. D!CloseDataEdit(e, ok) = t
    BY DEF D!CloseDataEdit, D!LeaveData, D!Leave
  <1>2. Repaints(e, a) /\ (e.panel.saved => a = e)
    BY AskingDoes
  <1> HIDE DEF a
  <1>3. a.panel.form.of # 0 => Stores(a, b)
    BY <1>2, StoreDoes DEF Repaints
  <1> HIDE DEF b
  <1>4. Whole(c) /\ e.past.gone \subseteq c.past.gone
    BY <1>2, <1>3 DEF D!Open, Good, Stores, Repaints, SameRows
  <1>5. /\ D!Open(e.panel) /\ e.panel.saved /\ e.panel.changed => Stored(c, e.panel.form) /\ ~c.panel.changed
        /\ ~e.panel.changed => c.devices = e.devices /\ ~c.panel.changed
    BY <1>2, <1>3 DEF D!Open, Stores, Repaints, SameRows
  <1> HIDE DEF c
  <1>6. Clears(c, t)
    BY <1>4, ClearDoes
  <1> HIDE DEF t
  <1> QED BY <1>1, <1>4, <1>5, <1>6 DEF Stored, Clears, Closes
----------------------------------------------------------------------------
(* Showing, deleting and adding a device.                                  *)

\* t shows device d, after the device shown so far was left as c.
ShowsForm(c, d, t) ==
    /\ Good(t) /\ t.panel.form.of = d.id
    /\ t.devices = c.devices /\ t.current = c.current /\ t.past.gone = c.past.gone
    /\ t.panel.changed = c.panel.changed

LEMMA ShowFormDoes ==
    ASSUME NEW e, IsEditor(e), NEW c, Good(c), NEW r \in DOMAIN e.devices
    PROVE  ShowsForm(c, e.devices[r], D!ShowForm(e, c, e.devices[r], r))
  <1> DEFINE d == e.devices[r]
             t == D!ShowForm(e, c, d, r)
  <1>1. d.id \in Nat \ {0}
    BY DEF IsEditor, IsDevices
  <1> HIDE DEF d
  <1>2. /\ DOMAIN t = {"devices", "current", "panel", "past"}
        /\ DOMAIN t.panel = {"form", "saved", "changed"} /\ t.panel.changed = c.panel.changed
        /\ DOMAIN t.past = {"since", "spoilt", "gone"}
        /\ t.devices = c.devices /\ t.current = c.current
        /\ t.past.gone = c.past.gone /\ t.past.spoilt = c.past.spoilt
        /\ t.past.since = "nothing" => c.devices = e.devices
    BY DEF D!ShowForm, Good, Whole, IsEditor, IsPanel, IsPast
  <1>3. /\ t.panel.form.of = d.id /\ t.panel.form.row = r
        /\ DOMAIN t.panel.form = {"of", "kind", "row", "read", "settled", "shown", "first", "current"}
    BY DEF D!ShowForm, Good, Whole, IsEditor, IsPanel
  <1> HIDE DEF t
  <1>4. IsForm(t.panel.form)
    BY <1>1, <1>3 DEF IsForm
  <1>5. IsEditor(t)
    BY <1>2, <1>4 DEF Good, Whole, IsEditor, IsPanel, IsPast
  <1>6. Good(t)
    BY <1>2, <1>3, <1>5 DEF Good, Whole, RowIsRight, d
  <1>7. ShowsForm(c, d, t)
    BY <1>2, <1>3, <1>6 DEF ShowsForm
  <1> QED BY <1>7 DEF t, d

\* t shows another device: what was saved and changed in the panel of e is in the list.
ShowsRow(e, r, t) ==
    /\ Good(t) /\ t.panel.form.of = e.devices[r].id /\ e.past.gone \subseteq t.past.gone
    /\ D!Open(e.panel) /\ e.panel.saved /\ e.panel.changed => Stored(t, e.panel.form)
    /\ ~D!Open(e.panel) => /\ t.devices = e.devices /\ t.past.gone = e.past.gone
                           /\ t.panel.changed = e.panel.changed

LEMMA ShowDoes ==
    ASSUME NEW e, Good(e), NEW r \in DOMAIN e.devices, NEW ok
    PROVE  ShowsRow(e, r, D!ShowDevice(e, r, ok))
  <1> DEFINE s == [e EXCEPT !.current = r]
             c == D!Closed(s, ok)
             t == D!ShowDevice(e, r, ok)
  <1>1. t = D!ShowForm(e, c, e.devices[r], r)
    BY DEF D!ShowDevice
  <1>2. Good(s) /\ s.devices = e.devices /\ s.panel = e.panel /\ s.past = e.past
    <2>1. /\ DOMAIN s = {"devices", "current", "panel", "past"}
          /\ s.devices = e.devices /\ s.panel = e.panel /\ s.past = e.past /\ s.current = r
      BY DEF Good, Whole, IsEditor
    <2>2. r \in 0 .. Len(e.devices)
      BY RowsOf DEF Good, Whole, IsEditor
    <2> HIDE DEF s
    <2> QED BY <2>1, <2>2 DEF Good, Whole, IsEditor, RowIsRight
  <1> HIDE DEF s
  <1>3. /\ Good(c) /\ e.past.gone \subseteq c.past.gone
        /\ D!Open(e.panel) /\ e.panel.saved /\ e.panel.changed => Stored(c, e.panel.form)
        /\ ~D!Open(e.panel) => c = s
    <2>1. CASE D!Open(s.panel)
      <3>1. c = D!CloseDataEdit(s, ok)
        BY <2>1 DEF D!Closed
      <3>2. Closes(s, c)
        BY <1>2, <3>1, CloseDoes
      <3> QED BY <1>2, <2>1, <3>2 DEF Closes
    <2>2. CASE ~D!Open(s.panel)
      <3>1. c = s
        BY <2>2 DEF D!Closed
      <3> QED BY <1>2, <2>2, <3>1
    <2> QED BY <2>1, <2>2
  <1> HIDE DEF c, t
  <1>4. ShowsForm(c, e.devices[r], t)
    BY <1>1, <1>3, ShowFormDoes DEF Good, Whole
  <1>5. ShowsRow(e, r, t)
    BY <1>2, <1>3, <1>4 DEF ShowsRow, ShowsForm, Stored
  <1> QED BY <1>5 DEF t

\* t is e without the current device, the next one shown.
TakesCurrent(e, t) ==
    /\ Good(t) /\ e.past.gone \cup {e.devices[e.current].id} \subseteq t.past.gone
    /\ KeepsRows(e, t) /\ t.panel.changed = e.panel.changed

LEMMA TakeCurrentDoes ==
    ASSUME NEW e, Whole(e), e.current # 0
    PROVE  TakesCurrent(e, D!TakeCurrent(e))
  <1> DEFINE r == e.current
             n == IF r < Len(e.devices) THEN r + 1 ELSE r - 1
             k == D!ClearDataEdit(e)
             w == D!NextShown(k, n)
             y == [w EXCEPT !.current = r]
             z == D!Replace(y, r)
             t == [z EXCEPT !.past.since = IF n = 0 THEN z.past.since ELSE "deleted"]
  <1>1. D!TakeCurrent(e) = t
    BY DEF D!TakeCurrent
  <1>2. /\ Len(e.devices) \in Nat /\ DOMAIN e.devices = 1 .. Len(e.devices)
        /\ r \in DOMAIN e.devices /\ (n = 0 \/ n \in DOMAIN e.devices)
    <2>1. Len(e.devices) \in Nat /\ DOMAIN e.devices = 1 .. Len(e.devices) /\ r \in 0 .. Len(e.devices) /\ r # 0
      BY RowsOf DEF Whole, IsEditor
    <2> QED BY <2>1
  <1> HIDE DEF n
  <1>3. Clears(e, k)
    BY ClearDoes
  <1> HIDE DEF k
  <1>4. /\ Good(w) /\ w.devices = e.devices /\ w.past.gone = e.past.gone
        /\ w.panel.changed = e.panel.changed
        /\ n = 0 => w.panel.form.of = 0
    <2>1. CASE n = 0
      <3>1. w = k
        BY <2>1 DEF D!NextShown
      <3> QED BY <1>3, <3>1 DEF Clears
    <2>2. CASE n # 0
      <3>1. w = D!ShowDevice(k, n, TRUE)
        BY <2>2 DEF D!NextShown
      <3>2. /\ Good(k) /\ k.devices = e.devices /\ ~D!Open(k.panel) /\ k.past.gone = e.past.gone
            /\ k.panel.changed = e.panel.changed
        BY <1>3 DEF Clears, D!Open
      <3>3. n \in DOMAIN k.devices
        BY <1>2, <2>2, <3>2
      <3> HIDE DEF w
      <3>4. ShowsRow(k, n, w)
        BY <3>1, <3>2, <3>3, ShowDoes
      <3> QED BY <2>2, <3>2, <3>4 DEF ShowsRow
    <2> QED BY <2>1, <2>2
  <1> HIDE DEF w
  <1>5. /\ IsEditor(y) /\ y.devices = e.devices /\ y.panel = w.panel /\ y.past = w.past
    <2>1. /\ DOMAIN y = {"devices", "current", "panel", "past"}
          /\ y.devices = w.devices /\ y.panel = w.panel /\ y.past = w.past /\ y.current = r
      BY <1>4 DEF Good, Whole, IsEditor
    <2>2. r \in 0 .. Len(e.devices)
      BY <1>2
    <2> HIDE DEF y
    <2> QED BY <1>4, <2>1, <2>2 DEF Good, Whole, IsEditor
  <1> HIDE DEF y
  <1>6. Drops(y, r, z)
    BY <1>2, <1>5, ReplaceDoes
  <1> HIDE DEF z
  <1> DEFINE o == e.devices[r].id
  <1>7. /\ IsEditor(z) /\ z.panel = w.panel /\ z.past.gone = e.past.gone \cup {o}
        /\ z.past.spoilt = w.past.spoilt /\ z.devices = D!RemoveAt(e.devices, r)
    BY <1>4, <1>5, <1>6 DEF Drops
  <1>8. ~z.past.spoilt => Holds(z.devices, z.past.gone)
    <2>1. ASSUME ~z.past.spoilt PROVE Holds(z.devices, z.past.gone)
      <3>1. Holds(e.devices, e.past.gone) /\ IsDevices(e.devices)
        BY <1>4, <1>7, <2>1 DEF Good, Whole, IsEditor
      <3>2. Holds(D!RemoveAt(e.devices, r), e.past.gone \cup {e.devices[r].id})
        BY <1>2, <3>1, HoldsLess
      <3> QED BY <1>7, <3>2
    <2> QED BY <2>1
  <1>9. KeepsRows(y, z)
    BY <1>2, <1>5, <1>6, DropsKeep
  <1>10. /\ DOMAIN t = {"devices", "current", "panel", "past"} /\ DOMAIN t.past = {"since", "spoilt", "gone"}
         /\ t.devices = z.devices /\ t.current = z.current /\ t.panel = z.panel
         /\ t.past.gone = z.past.gone /\ t.past.spoilt = z.past.spoilt
         /\ n # 0 => t.past.since = "deleted"
    BY <1>7 DEF IsEditor, IsPast
  <1> HIDE DEF t, o
  <1>11. IsEditor(t)
    BY <1>7, <1>10 DEF IsEditor, IsPast
  <1>12. t.panel.form.of # 0 /\ t.past.since = "nothing" => FALSE
    BY <1>4, <1>7, <1>10
  <1>13. Good(t)
    BY <1>8, <1>10, <1>11, <1>12 DEF Good, Whole, RowIsRight
  <1>14. KeepsRows(e, t)
    BY <1>4, <1>5, <1>9, <1>10 DEF KeepsRows
  <1>15. e.past.gone \cup {e.devices[e.current].id} \subseteq t.past.gone
    BY <1>7, <1>10 DEF o
  <1>16. t.panel.changed = e.panel.changed
    BY <1>4, <1>7, <1>10
  <1>17. TakesCurrent(e, t)
    BY <1>13, <1>14, <1>15, <1>16 DEF TakesCurrent
  <1> QED BY <1>1, <1>17

\* t is e with a new device, and the same panel.
PutIn(e, kind, t) ==
    /\ Good(t) /\ t.panel = e.panel /\ e.past.gone \subseteq t.past.gone /\ KeepsRows(e, t)
    /\ e.current \notin D!Others(e.devices, kind) => KeepsCurrent(e, t)

LEMMA SameCount == ASSUME NEW S PROVE D!Cardinality(S) = Cardinality(S)
  BY DEF D!Cardinality, Cardinality

LEMMA PutDoes ==
    ASSUME NEW e, Whole(e), NEW kind, NEW doc
    PROVE  PutIn(e, kind, D!Put(e, kind, doc))
  <1> DEFINE d == D!NewDevice(e, kind, doc)
             a == D!AddDeviceToUsedDevList(e, d)
             t == [a EXCEPT !.past.since = "added"]
  <1>1. D!Put(e, kind, doc) = t
    BY DEF D!Put
  <1>2. d.id = 1 + Len(e.devices) + Cardinality(e.past.gone) /\ d.kind = kind
    BY SameCount DEF D!NewDevice
  <1> HIDE DEF d
  <1>3. d.id \in Nat \ {0}
    <2>1. Len(e.devices) \in Nat /\ Cardinality(e.past.gone) \in Nat
      BY RowsOf, FS_CardinalityType DEF Whole, IsEditor, IsPast
    <2> QED BY <1>2, <2>1
  <1>4. Adds(e, d, a)
    BY <1>3, AddDoes DEF Whole
  <1>5. KeepsRows(e, a) /\ (e.current \notin D!Others(e.devices, kind) => KeepsCurrent(e, a))
    BY <1>2, <1>3, AddKeepsRows DEF Whole
  <1> HIDE DEF a
  <1>6. IsEditor(a) /\ (~a.past.spoilt => Holds(a.devices, a.past.gone))
    BY <1>2, <1>4 DEF Adds, Whole
  <1>7. /\ DOMAIN t = {"devices", "current", "panel", "past"} /\ DOMAIN t.past = {"since", "spoilt", "gone"}
        /\ t.devices = a.devices /\ t.current = a.current /\ t.panel = a.panel
        /\ t.past.gone = a.past.gone /\ t.past.spoilt = a.past.spoilt /\ t.past.since = "added"
    BY <1>6 DEF IsEditor, IsPast
  <1> HIDE DEF t
  <1>8. IsEditor(t)
    BY <1>6, <1>7 DEF IsEditor, IsPast
  <1>9. Good(t)
    BY <1>6, <1>7, <1>8 DEF Good, Whole, RowIsRight
  <1>10. KeepsRows(e, t) /\ (e.current \notin D!Others(e.devices, kind) => KeepsCurrent(e, t))
    BY <1>5, <1>7 DEF KeepsRows, KeepsCurrent
  <1> QED BY <1>1, <1>4, <1>7, <1>9, <1>10 DEF PutIn, Adds
----------------------------------------------------------------------------
(* The tab alone: the steps of DeviceEditor.                               *)

TabGood == Good(D!Now)

LEMMA NowIs ==
    /\ DOMAIN D!Now = {"devices", "current", "panel", "past"}
    /\ D!Now.devices = devices /\ D!Now.current = current /\ D!Now.panel = panel /\ D!Now.past = past
  BY DEF D!Now

LEMMA NowIsNext ==
    /\ DOMAIN D!Now' = {"devices", "current", "panel", "past"}
    /\ D!Now'.devices = devices' /\ D!Now'.current = current'
    /\ D!Now'.panel = panel' /\ D!Now'.past = past'
  BY DEF D!Now

\* An action that makes the tab what x is.
LEMMA BecomesGood ==
    ASSUME NEW x, Good(x), D!Become(x)
    PROVE  TabGood'
  <1> DEFINE n == D!Now'
  <1>1. /\ DOMAIN n = {"devices", "current", "panel", "past"}
        /\ n.devices = x.devices /\ n.current = x.current /\ n.panel = x.panel /\ n.past = x.past
    BY NowIsNext DEF D!Become
  <1> HIDE DEF n
  <1>2. Good(n)
    BY <1>1 DEF Good, Whole, IsEditor, RowIsRight
  <1> QED BY <1>2 DEF TabGood, n

\* A step after which the tab is as it should be, and nothing saved was dropped.
TabStep == TabGood' /\ StoresWhatIsSaved

\* An action that changes the panel, and not its device.
LEMMA PanelStep ==
    ASSUME TabGood, UNCHANGED <<devices, current, past>>,
           DOMAIN panel' = {"form", "saved", "changed"},
           \/ panel'.form = panel.form
           \/ /\ DOMAIN panel'.form = DOMAIN panel.form
              /\ panel'.form.of = panel.form.of /\ panel'.form.row = panel.form.row
    PROVE  TabStep
  <1> DEFINE e == D!Now
             n == D!Now'
  <1>1. /\ DOMAIN e = {"devices", "current", "panel", "past"}
        /\ e.devices = devices /\ e.current = current /\ e.panel = panel /\ e.past = past
    BY NowIs
  <1>2. /\ DOMAIN n = {"devices", "current", "panel", "past"}
        /\ n.devices = devices' /\ n.current = current' /\ n.panel = panel' /\ n.past = past'
    BY NowIsNext
  <1>3. Good(e)
    BY DEF TabGood
  <1> HIDE DEF e, n
  <1>4. SameRows(e, n)
    BY <1>1, <1>2 DEF SameRows
  <1>5. Good(n)
    BY <1>1, <1>2, <1>3, <1>4, PanelChanges
  <1>6. TabGood'
    BY <1>5 DEF TabGood, n
  <1>7. StoresWhatIsSaved
    BY DEF StoresWhatIsSaved, PanelShows
  <1> QED BY <1>6, <1>7 DEF TabStep

LEMMA PanelIs ==
    ASSUME TabGood
    PROVE  IsPanel(panel) /\ (D!Open(panel) => DOMAIN panel.form =
             {"of", "kind", "row", "read", "settled", "shown", "first", "current"})
  <1>1. IsPanel(panel)
    BY NowIs DEF TabGood, Good, Whole, IsEditor
  <1> QED BY <1>1 DEF IsPanel, IsForm, D!Open

LEMMA SelectKeeps ==
    ASSUME TabGood, NEW r \in DOMAIN devices, NEW ok, D!Select(r, ok)
    PROVE  TabStep
  <1> DEFINE e == D!Now
             t == D!ShowDevice(e, r, ok)
  <1>1. /\ e.devices = devices /\ e.panel = panel /\ e.past = past /\ Good(e)
    BY NowIs DEF TabGood
  <1>2. D!Become(t)
    BY DEF D!Select
  <1> HIDE DEF e
  <1>3. ShowsRow(e, r, t)
    BY <1>1, ShowDoes
  <1> HIDE DEF t
  <1>4. TabGood'
    BY <1>2, <1>3, BecomesGood DEF ShowsRow
  <1>5. D!Open(panel) /\ panel.saved /\ panel.changed =>
            \E i \in DOMAIN devices' : devices'[i].id = panel.form.of /\ devices'[i].doc = panel.form.current
    BY <1>1, <1>2, <1>3 DEF ShowsRow, Stored, D!Become
  <1> QED BY <1>4, <1>5 DEF TabStep, StoresWhatIsSaved, PanelShows, D!Open

LEMMA ReadKeeps ==
    ASSUME TabGood, D!DeviceDataProcessed
    PROVE  TabStep
  BY PanelIs, PanelStep DEF D!DeviceDataProcessed, IsPanel

LEMMA SettleKeeps ==
    ASSUME TabGood, D!Settle
    PROVE  TabStep
  BY PanelIs, PanelStep DEF D!Settle, IsPanel

LEMMA EditKeeps ==
    ASSUME TabGood, D!Edit
    PROVE  TabStep
  BY PanelIs, PanelStep DEF D!Edit, D!Shown, D!PanelOpen, IsPanel

LEMMA SaveKeeps ==
    ASSUME TabGood, D!Save
    PROVE  TabStep
  <1> DEFINE e == D!Now
             t == D!SaveDeviceData(e)
  <1>1. /\ e.devices = devices /\ e.panel = panel /\ Good(e)
    BY NowIs DEF TabGood
  <1>2. D!Become(t)
    BY DEF D!Save
  <1> HIDE DEF e
  <1>3. Repaints(e, t)
    BY <1>1, SaveDataDoes
  <1> HIDE DEF t
  <1>4. TabGood'
    BY <1>2, <1>3, BecomesGood DEF Repaints
  <1>5. panel'.form.of = panel.form.of
    BY <1>1, <1>2, <1>3 DEF Repaints, D!Become
  <1> QED BY <1>4, <1>5 DEF TabStep, StoresWhatIsSaved, PanelShows, D!Open

LEMMA RestoreKeeps ==
    ASSUME TabGood, D!PanelOpen, NEW doc, D!Restored(doc), UNCHANGED <<devices, current, past>>
    PROVE  TabStep
  BY PanelIs, PanelStep DEF D!Restored, D!PanelOpen, IsPanel

LEMMA CloseKeeps ==
    ASSUME TabGood, NEW ok, D!Close(ok)
    PROVE  TabStep
  <1> DEFINE e == D!Now
             t == D!CloseDataEdit(e, ok)
  <1>1. e.devices = devices /\ e.panel = panel /\ Good(e)
    BY NowIs DEF TabGood
  <1>2. D!Become(t)
    BY DEF D!Close
  <1> HIDE DEF e
  <1>3. Closes(e, t)
    BY <1>1, CloseDoes
  <1> HIDE DEF t
  <1>4. TabGood'
    BY <1>2, <1>3, BecomesGood DEF Closes
  <1>5. D!Open(panel) /\ panel.saved /\ panel.changed =>
            \E i \in DOMAIN devices' : devices'[i].id = panel.form.of /\ devices'[i].doc = panel.form.current
    BY <1>1, <1>2, <1>3 DEF Closes, Stored, D!Become
  <1> QED BY <1>4, <1>5 DEF TabStep, StoresWhatIsSaved, PanelShows, D!Open

LEMMA DeleteKeeps ==
    ASSUME TabGood, NEW ok, D!Delete(ok)
    PROVE  TabStep
  <1> DEFINE e == D!Now
             s == D!TakeCurrent(e)
             t == D!CloseDataEdit(s, ok)
  <1>1. e.devices = devices /\ e.panel = panel /\ e.current = current /\ Good(e)
    BY NowIs DEF TabGood
  <1>2. D!Become(t) /\ current # 0
    BY DEF D!Delete
  <1> HIDE DEF e
  <1>3. TakesCurrent(e, s)
    BY <1>1, <1>2, TakeCurrentDoes DEF Good
  <1> HIDE DEF s
  <1>4. Closes(s, t)
    BY <1>3, CloseDoes DEF TakesCurrent
  <1> HIDE DEF t
  <1>5. TabGood'
    BY <1>2, <1>4, BecomesGood DEF Closes
  <1>6. devices[current].id \in past'.gone
    BY <1>1, <1>2, <1>3, <1>4 DEF TakesCurrent, Closes, D!Become
  <1>7. StoresWhatIsSaved
    BY <1>2, <1>6 DEF StoresWhatIsSaved, Strayed, PanelShows, D!Open
  <1> QED BY <1>5, <1>7 DEF TabStep

LEMMA AddKeeps ==
    ASSUME TabGood, NEW accepted, NEW ok, D!AddDevice(accepted, ok)
    PROVE  TabStep
  <1> DEFINE e == D!Now
             p == D!Put(e, stack.device.kind, D!Write(NewFormOf[stack.device.kind], stack.device.shown))
             t == D!CloseDataEdit(p, ok)
  <1>1. e.devices = devices /\ e.panel = panel /\ Good(e)
    BY NowIs DEF TabGood
  <1>2. D!Become(t) \/ D!Become(e)
    BY DEF D!AddDevice
  <1>3. CASE D!Become(e)
    <2>1. TabGood'
      BY <1>1, <1>3, BecomesGood
    <2>2. panel'.form.of = panel.form.of
      BY <1>1, <1>3 DEF D!Become
    <2> QED BY <2>1, <2>2 DEF TabStep, StoresWhatIsSaved, PanelShows, D!Open
  <1>4. CASE D!Become(t)
    <2> HIDE DEF e
    <2>1. PutIn(e, stack.device.kind, p)
      BY <1>1, PutDoes DEF Good
    <2> HIDE DEF p
    <2>2. Closes(p, t)
      BY <2>1, CloseDoes DEF PutIn
    <2> HIDE DEF t
    <2>3. TabGood'
      BY <1>4, <2>2, BecomesGood DEF Closes
    <2>4. D!Open(panel) /\ panel.saved /\ panel.changed =>
              \E i \in DOMAIN devices' : devices'[i].id = panel.form.of /\ devices'[i].doc = panel.form.current
      BY <1>1, <1>4, <2>1, <2>2 DEF PutIn, Closes, Stored, D!Become
    <2> QED BY <2>3, <2>4 DEF TabStep, StoresWhatIsSaved, PanelShows, D!Open
  <1> QED BY <1>2, <1>3, <1>4

LEMMA StaysGood ==
    ASSUME TabGood, UNCHANGED <<devices, current, panel, past>>
    PROVE  TabStep
  BY PanelIs, PanelStep DEF IsPanel

LEMMA TabKeeps ==
    ASSUME TabGood, [D!Next]_D!vars
    PROVE  TabStep
  <1>1. ASSUME NEW r \in DOMAIN devices, NEW ok \in D!Answers, D!Select(r, ok) PROVE TabStep
    BY <1>1, SelectKeeps
  <1>2. CASE D!DeviceDataProcessed
    BY <1>2, ReadKeeps
  <1>3. CASE D!Settle
    BY <1>3, SettleKeeps
  <1>4. CASE D!Edit
    BY <1>4, EditKeeps
  <1>5. CASE D!Save
    BY <1>5, SaveKeeps
  <1>6. CASE D!Revert
    BY <1>6, RestoreKeeps DEF D!Revert
  <1>7. CASE D!Reset
    BY <1>7, RestoreKeeps DEF D!Reset
  <1>8. CASE D!ShowDeviceStack
    BY <1>8, StaysGood DEF D!ShowDeviceStack
  <1>9. ASSUME NEW k, D!ShowNewDevice(k) PROVE TabStep
    BY <1>9, StaysGood DEF D!ShowNewDevice
  <1>10. CASE D!NewDeviceProcessed
    BY <1>10, StaysGood DEF D!NewDeviceProcessed
  <1>11. CASE D!EditNewDevice
    BY <1>11, StaysGood DEF D!EditNewDevice
  <1>12. ASSUME NEW ok, D!Close(ok) PROVE TabStep
    BY <1>12, CloseKeeps
  <1>13. ASSUME NEW ok, D!Delete(ok) PROVE TabStep
    BY <1>13, DeleteKeeps
  <1>14. ASSUME NEW ok, NEW accepted, D!AddDevice(accepted, ok) PROVE TabStep
    BY <1>14, AddKeeps
  <1>15. CASE UNCHANGED D!vars
    BY <1>15, StaysGood DEF D!vars
  <1> QED BY <1>1, <1>2, <1>3, <1>4, <1>5, <1>6, <1>7, <1>8, <1>9, <1>10, <1>11, <1>12, <1>13, <1>14, <1>15
          DEF D!Next
----------------------------------------------------------------------------

\* A list as it was read: its devices are numbered, and none has gone.
LEMMA DetectedIsGood ==
    ASSUME NEW list, IsList(list)
    PROVE  Good(D!Detected(list))
  <1> DEFINE e == D!Detected(list)
             d == [i \in DOMAIN list |-> [id |-> i, kind |-> list[i][1], doc |-> list[i][2]]]
  <1>1. /\ DOMAIN e = {"devices", "current", "panel", "past"}
        /\ e.devices = d /\ e.current = 0
        /\ DOMAIN e.panel = {"form", "saved", "changed"} /\ e.panel.form.of = 0
        /\ DOMAIN e.past = {"since", "spoilt", "gone"} /\ e.past.gone = {} /\ ~e.past.spoilt
    BY DEF D!Detected, D!Nothing, D!NoForm
  <1>2. IsDevices(e.devices) /\ Holds(e.devices, {})
    BY HoldsDetected
  <1> HIDE DEF e
  <1> HIDE DEF d
  <1>3. IsFiniteSet({}) /\ Len(d) \in Nat
    BY <1>1, <1>2, FS_EmptySet, RowsOf
  <1>4. IsEditor(e)
    BY <1>1, <1>2, <1>3 DEF IsEditor, IsPanel, IsForm, IsPast
  <1>5. Good(e)
    BY <1>1, <1>2, <1>4 DEF Good, Whole, RowIsRight
  <1> QED BY <1>5 DEF e

LEMMA TabHolds ==
    ASSUME TabGood
    PROVE  DevicesAreKept
  <1> DEFINE G == past.gone
  <1>1. IsDevices(devices) /\ (~past.spoilt => Holds(devices, G))
    BY NowIs DEF TabGood, Good, Whole, IsEditor
  <1>2. SUFFICES ASSUME ~past.spoilt
                 PROVE  LET ids == {devices[i].id : i \in DOMAIN devices}
                        IN /\ Cardinality(ids) = Len(devices)
                           /\ ids = (1 .. (Len(devices) + Cardinality(G))) \ G
    BY DEF DevicesAreKept
  <1>3. Holds(devices, G) /\ Cardinality(Ids(devices)) = Len(devices)
    BY <1>1, <1>2, HoldsCounts
  <1>4. Ids(devices) = (1 .. (Len(devices) + Cardinality(G))) \ G
    BY <1>3 DEF Holds
  <1> HIDE DEF G
  <1> QED BY <1>3, <1>4, Zenon DEF Ids
----------------------------------------------------------------------------
(* The other tabs put an emulator into the list, and Ok closes the panel.  *)

\* t is e with another emulator.
Emulates(e, t) ==
    /\ Good(t) /\ KeepsRows(e, t) /\ t.panel.changed = e.panel.changed
    /\ e.current \notin D!Others(e.devices, "emulator") =>
           t.panel = e.panel /\ t.current \notin D!Others(t.devices, "emulator")

LEMMA SameKind ==
    ASSUME NEW e, IsEditor(e), NEW t, IsEditor(t), KeepsCurrent(e, t), NEW k,
           e.current \notin D!Others(e.devices, k)
    PROVE  t.current \notin D!Others(t.devices, k)
  <1>1. DOMAIN e.devices = 1 .. Len(e.devices) /\ DOMAIN t.devices = 1 .. Len(t.devices)
    BY RowsOf DEF IsEditor
  <1>2. CASE e.current = 0
    BY <1>1, <1>2 DEF KeepsCurrent, D!Others
  <1>3. CASE e.current # 0
    <2>1. e.current \in DOMAIN e.devices
      BY <1>1, <1>3 DEF IsEditor
    <2> QED BY <1>3, <2>1 DEF KeepsCurrent, D!Others
  <1> QED BY <1>2, <1>3

LEMMA SetEmulatorDoes ==
    ASSUME NEW e, Good(e), NEW doc
    PROVE  Emulates(e, D!SetEmulator(e, doc))
  <1> DEFINE old == D!Others(e.devices, "emulator")
             m == D!Min(old)
             x == IF old = {} THEN e ELSE IF m = e.current THEN D!TakeCurrent(e) ELSE D!Replace(e, m)
             t == D!Put(x, "emulator", doc)
  <1>1. D!SetEmulator(e, doc) = t
    BY DEF D!SetEmulator
  <1>2. old # {} => m \in old /\ m \in DOMAIN e.devices /\ m # 0
    <2>1. old \subseteq DOMAIN e.devices /\ DOMAIN e.devices = 1 .. Len(e.devices)
      BY RowsOf DEF D!Others, Good, Whole, IsEditor
    <2> HIDE DEF old
    <2>2. SUFFICES ASSUME old # {} PROVE m \in old
      BY <2>1
    <2>3. old \subseteq Nat
      BY <2>1
    <2> QED BY <2>2, <2>3, MinOfRows
  <1> HIDE DEF m
  <1>3. /\ Whole(x) /\ KeepsRows(e, x) /\ x.panel.changed = e.panel.changed
        /\ e.current \notin old => x.panel = e.panel /\ KeepsCurrent(e, x)
    <2>1. CASE old = {}
      <3>1. x = e
        BY <2>1
      <3>2. KeepsRows(e, e)
        BY DEF KeepsRows
      <3>3. KeepsCurrent(e, e)
        BY RowsOf DEF KeepsCurrent, Good, Whole, IsEditor
      <3> QED BY <3>1, <3>2, <3>3 DEF Good
    <2>2. CASE old # {} /\ m = e.current
      <3>1. x = D!TakeCurrent(e)
        BY <2>2
      <3> HIDE DEF x
      <3>2. TakesCurrent(e, x)
        BY <1>2, <2>2, <3>1, TakeCurrentDoes DEF Good
      <3> QED BY <1>2, <2>2, <3>2 DEF TakesCurrent, Good
    <2>3. CASE old # {} /\ m # e.current
      <3>1. x = D!Replace(e, m)
        BY <2>3
      <3> HIDE DEF x
      <3>2. IsEditor(e) /\ m \in DOMAIN e.devices
        BY <1>2, <2>3 DEF Good, Whole
      <3>3. Drops(e, m, x)
        BY <3>1, <3>2, ReplaceDoes
      <3>4. KeepsRows(e, x) /\ KeepsCurrent(e, x)
        BY <2>3, <3>2, <3>3, DropsKeep
      <3>5. ASSUME ~x.past.spoilt PROVE Holds(x.devices, x.past.gone)
        <4>1. Holds(e.devices, e.past.gone) /\ IsDevices(e.devices)
          BY <3>3, <3>5 DEF Drops, Good, Whole, IsEditor
        <4>2. Holds(D!RemoveAt(e.devices, m), e.past.gone \cup {e.devices[m].id})
          BY <3>2, <4>1, HoldsLess
        <4> QED BY <3>3, <4>2 DEF Drops
      <3> QED BY <3>3, <3>4, <3>5 DEF Drops, Whole
    <2> QED BY <2>1, <2>2, <2>3
  <1> HIDE DEF x
  <1>4. PutIn(x, "emulator", t)
    BY <1>3, PutDoes
  <1> HIDE DEF t
  <1>5. KeepsRows(e, t)
    BY <1>3, <1>4, RowsGoOn DEF PutIn
  <1>6. e.current \notin old => t.panel = e.panel /\ t.current \notin D!Others(t.devices, "emulator")
    <2>1. SUFFICES ASSUME e.current \notin old
                   PROVE  t.panel = e.panel /\ t.current \notin D!Others(t.devices, "emulator")
      OBVIOUS
    <2>2. IsEditor(e) /\ IsEditor(x) /\ IsEditor(t)
      BY <1>3, <1>4 DEF Good, Whole, PutIn
    <2>3. x.current \notin D!Others(x.devices, "emulator")
      BY <1>3, <2>1, <2>2, SameKind
    <2>4. t.current \notin D!Others(t.devices, "emulator")
      BY <1>4, <2>2, <2>3, SameKind DEF PutIn
    <2> QED BY <1>3, <1>4, <2>1, <2>4 DEF PutIn
  <1>7. t.panel.changed = e.panel.changed
    BY <1>3, <1>4 DEF PutIn
  <1>8. Emulates(e, t)
    BY <1>4, <1>5, <1>6, <1>7 DEF Emulates, PutIn
  <1> QED BY <1>1, <1>8

\* x is the window w after its tabs have told each other, or not.
IsWindow(w) == DOMAIN w = {"dev", "tabs"}
Turns(w, x) ==
    IsWindow(x) /\ (x.dev = w.dev \/ \E doc : x.dev = D!SetEmulator(w.dev, doc))

LEMMA ArchChangedTurns ==
    ASSUME NEW w, IsWindow(w), NEW t
    PROVE  Turns(w, ArchChanged(w, t))
  <1> DEFINE s == SetEmulator(w, "qemu")
  <1>1. IsWindow(s) /\ s.dev = D!SetEmulator(w.dev, Emulator["qemu"])
    BY DEF SetEmulator, IsWindow
  <1> HIDE DEF s
  <1>2. IsWindow(ToldCPU(s)) /\ ToldCPU(s).dev = s.dev
    BY <1>1 DEF ToldCPU, IsWindow
  <1>3. ArchChanged(w, t) = ToldCPU(s) \/ ArchChanged(w, t) = s
    BY DEF ArchChanged, s
  <1> QED BY <1>1, <1>2, <1>3 DEF Turns

LEMMA BootTurns ==
    ASSUME NEW w, IsWindow(w), NEW t, NEW s, NEW r
    PROVE  Turns(w, Boot(w, t, s, r))
  <1>1. Turns(w, w)
    BY DEF Turns
  <1>2. Turns(w, ArchChanged(w, t))
    BY ArchChangedTurns
  <1>3. Turns(w, SetEmulator(w, ""))
    BY DEF Turns, SetEmulator, IsWindow
  <1>4. Boot(w, t, s, r) \in {w, ArchChanged(w, t), SetEmulator(w, "")}
    BY DEF Boot
  <1> QED BY <1>1, <1>2, <1>3, <1>4

LEMMA ShowInTurns ==
    ASSUME NEW w, IsWindow(w), NEW t, NEW r
    PROVE  Turns(w, ShowIn(w, t, r))
  <1> DEFINE x == [w EXCEPT !.tabs[t].shown = r]
  <1>1. IsWindow(x) /\ x.dev = w.dev
    BY DEF IsWindow
  <1>2. ShowIn(w, t, r) = Boot(x, t, w.tabs[t].shown, r)
    BY DEF ShowIn
  <1> HIDE DEF x
  <1>3. Turns(x, Boot(x, t, w.tabs[t].shown, r))
    BY <1>1, BootTurns
  <1> QED BY <1>1, <1>2, <1>3 DEF Turns

LEMMA RevertTurns ==
    ASSUME NEW w, IsWindow(w), NEW t
    PROVE  Turns(w, RevertData(w, t))
  <1> DEFINE x == ShowIn(w, t, ReadTab(t, w.tabs[t].shown, w.tabs[t].current))
  <1>1. Turns(w, x)
    BY ShowInTurns
  <1>2. RevertData(w, t) = [x EXCEPT !.tabs[t].saved = TRUE]
    BY DEF RevertData
  <1> HIDE DEF x
  <1> QED BY <1>1, <1>2 DEF Turns, IsWindow

\* What was saved and changed in the panel when the tab was a is not lost in e.
Safe(a, e) ==
    \/ e.panel = a.panel /\ e.current \notin D!Others(e.devices, "emulator")
    \/ a.panel.form.of \in e.past.gone
    \/ Stored(e, a.panel.form) /\ ~e.panel.changed
Fits(a, w) ==
    /\ IsWindow(w) /\ Good(w.dev) /\ a.past.gone \subseteq w.dev.past.gone
    /\ D!Open(a.panel) /\ a.panel.saved /\ a.panel.changed => Safe(a, w.dev)

LEMMA FitsTurned ==
    ASSUME NEW a, NEW w, Fits(a, w), NEW x, Turns(w, x)
    PROVE  Fits(a, x)
  <1>1. CASE x.dev = w.dev
    BY <1>1 DEF Fits, Turns
  <1>2. ASSUME NEW doc, x.dev = D!SetEmulator(w.dev, doc) PROVE Fits(a, x)
    <2> DEFINE e == w.dev
               t == x.dev
    <2>1. Emulates(e, t)
      BY <1>2, SetEmulatorDoes DEF Fits
    <2>2. IsWindow(x) /\ Good(t) /\ a.past.gone \subseteq t.past.gone
      BY <2>1 DEF Emulates, KeepsRows, Fits, Turns
    <2>3. ASSUME Safe(a, e) PROVE Safe(a, t)
      <3>1. CASE e.panel = a.panel /\ e.current \notin D!Others(e.devices, "emulator")
        BY <2>1, <3>1 DEF Emulates, Safe
      <3>2. CASE a.panel.form.of \in e.past.gone
        BY <2>1, <3>2 DEF Emulates, KeepsRows, Safe
      <3>3. CASE Stored(e, a.panel.form) /\ ~e.panel.changed
        <4> DEFINE f == a.panel.form
        <4> HIDE DEF f
        <4>1. PICK i \in DOMAIN e.devices : e.devices[i].id = f.of /\ e.devices[i].doc = f.current
          BY <3>3 DEF Stored, f
        <4>2. f.of \in t.past.gone \/ Stored(t, f)
          BY <2>1, <4>1 DEF Emulates, KeepsRows, Stored
        <4> QED BY <2>1, <3>3, <4>2 DEF Emulates, Safe, f
      <3> QED BY <2>3, <3>1, <3>2, <3>3 DEF Safe
    <2> QED BY <2>2, <2>3 DEF Fits
  <1> QED BY <1>1, <1>2 DEF Turns

LEMMA FitsClosed ==
    ASSUME NEW a, NEW w, Fits(a, w), NEW t, NEW ok
    PROVE  Fits(a, CloseDataEdit(w, t, ok))
  <1>1. CASE t = "Devices"
    <2> DEFINE e == w.dev
               c == D!CloseDataEdit(e, ok)
               x == [w EXCEPT !.dev = c]
    <2>1. CloseDataEdit(w, t, ok) = x
      BY <1>1 DEF CloseDataEdit
    <2>2. IsWindow(x) /\ x.dev = c
      BY DEF Fits, IsWindow
    <2>3. Closes(e, c)
      BY CloseDoes DEF Fits
    <2> HIDE DEF c, x
    <2>4. ASSUME D!Open(a.panel), a.panel.saved, a.panel.changed, Safe(a, e) PROVE Safe(a, c)
      <3>1. CASE e.panel = a.panel
        BY <2>3, <2>4, <3>1 DEF Closes, Safe
      <3>2. CASE a.panel.form.of \in e.past.gone
        BY <2>3, <3>2 DEF Closes, Safe
      <3>3. CASE Stored(e, a.panel.form) /\ ~e.panel.changed
        BY <2>3, <3>3 DEF Closes, Safe, Stored
      <3> QED BY <2>4, <3>1, <3>2, <3>3 DEF Safe
    <2> QED BY <2>1, <2>2, <2>3, <2>4 DEF Fits, Closes
  <1>2. CASE t # "Devices" /\ (t \notin DOMAIN w.tabs \/ w.tabs[t].saved)
    BY <1>2 DEF CloseDataEdit
  <1>3. CASE t # "Devices" /\ ~(t \notin DOMAIN w.tabs \/ w.tabs[t].saved) /\ ok
    <2> DEFINE x == [w EXCEPT !.tabs[t] = SaveData(w.tabs[t], t)]
    <2>1. CloseDataEdit(w, t, ok) = x
      BY <1>3 DEF CloseDataEdit
    <2>2. IsWindow(x) /\ x.dev = w.dev
      BY DEF Fits, IsWindow
    <2> HIDE DEF x
    <2> QED BY <2>1, <2>2 DEF Fits
  <1>4. CASE t # "Devices" /\ ~(t \notin DOMAIN w.tabs \/ w.tabs[t].saved) /\ ~ok
    <2>1. CloseDataEdit(w, t, ok) = RevertData(w, t)
      BY <1>4 DEF CloseDataEdit
    <2>2. Turns(w, RevertData(w, t))
      BY RevertTurns DEF Fits
    <2> QED BY <2>1, <2>2, FitsTurned
  <1> QED BY <1>1, <1>2, <1>3, <1>4
----------------------------------------------------------------------------
(* Ok visits the tabs in their order: the fold of CloseDataEdit.           *)

\* What the fold over the rows s of a sequence is, g giving it for fewer rows.
Visit(g, s, seq, win, ok) ==
    IF s = {} THEN win
    ELSE CloseDataEdit(g[s \ {Max(s)}], seq[Max(s)], seq[Max(s)] \in ok)

\* The fold as a function of the rows visited.
IsVisit(g, rows, seq, win, ok) == g = [s \in SUBSET rows |-> Visit(g, s, seq, win, ok)]

\* There is such a function for each number of rows: that of one row more is made
\* from it.
LEMMA OneMore ==
    ASSUME NEW k \in Nat, NEW seq, NEW win, NEW ok, NEW g, IsVisit(g, 1 .. k, seq, win, ok)
    PROVE  \E h : IsVisit(h, 1 .. k + 1, seq, win, ok)
  <1> DEFINE n == k + 1
             h == [s \in SUBSET (1 .. n) |->
                       IF n \in s THEN CloseDataEdit(g[s \ {n}], seq[n], seq[n] \in ok) ELSE g[s]]
  <1>1. n \in Nat
    OBVIOUS
  <1>2. \A s \in SUBSET (1 .. n) : s \ {n} \in SUBSET (1 .. k)
    OBVIOUS
  <1>3. \A s \in SUBSET (1 .. k) : s \in SUBSET (1 .. n) /\ n \notin s
    OBVIOUS
  <1>4. \A s \in SUBSET (1 .. k) : h[s] = g[s]
    BY <1>3
  <1>5. ASSUME NEW s \in SUBSET (1 .. n) PROVE h[s] = Visit(h, s, seq, win, ok)
    <2>1. CASE n \in s
      <3>1. Max(s) \in Nat /\ Max(s) <= n /\ n <= Max(s)
        BY <1>1, <2>1, MaxOfSome
      <3>2. Max(s) = n
        BY <1>1, <3>1
      <3>3. h[s \ {n}] = g[s \ {n}]
        BY <1>2, <1>4
      <3>4. h[s] = CloseDataEdit(h[s \ {n}], seq[n], seq[n] \in ok)
        BY <2>1, <3>3
      <3> HIDE DEF h, n
      <3> QED BY <2>1, <3>2, <3>4 DEF Visit
    <2>2. CASE n \notin s
      <3>1. s \in SUBSET (1 .. k)
        BY <2>2
      <3>2. h[s] = g[s] /\ g[s] = Visit(g, s, seq, win, ok)
        BY <1>4, <3>1 DEF IsVisit
      <3> HIDE DEF h
      <3>3. CASE s = {}
        BY <3>2, <3>3 DEF Visit
      <3>4. CASE s # {}
        <4>1. s \ {Max(s)} \in SUBSET (1 .. k)
          BY <3>1
        <4>2. h[s \ {Max(s)}] = g[s \ {Max(s)}]
          BY <1>4, <4>1
        <4> QED BY <3>2, <3>4, <4>2 DEF Visit
      <3> QED BY <3>3, <3>4
    <2> QED BY <2>1, <2>2
  <1>6. h = [s \in SUBSET (1 .. n) |-> Visit(h, s, seq, win, ok)]
    <2>1. h = [s \in SUBSET (1 .. n) |-> h[s]]
      OBVIOUS
    <2> HIDE DEF h, n
    <2> QED BY <1>5, <2>1, Zenon
  <1> HIDE DEF h
  <1> QED BY <1>6 DEF IsVisit

LEMMA VisitExists ==
    ASSUME NEW seq, NEW win, NEW ok, NEW n \in Nat
    PROVE  \E g : IsVisit(g, 1 .. n, seq, win, ok)
  <1> DEFINE P(k) == \E g : IsVisit(g, 1 .. k, seq, win, ok)
             None == {k \in Nat : ~P(k)}
  <1> SUFFICES ASSUME n \in None PROVE FALSE
    OBVIOUS
  <1>1. PICK m \in None : \A k \in None : m <= k
    BY LeastExists
  <1>2. P(0)
    <2> DEFINE g == [s \in SUBSET (1 .. 0) |-> win]
    <2>1. \A s \in SUBSET (1 .. 0) : win = Visit(g, s, seq, win, ok)
      BY DEF Visit
    <2>2. g = [s \in SUBSET (1 .. 0) |-> Visit(g, s, seq, win, ok)]
      BY <2>1, Zenon
    <2> HIDE DEF g
    <2> QED BY <2>2 DEF IsVisit
  <1> HIDE DEF P
  <1>3. m \in Nat /\ ~P(m) /\ m # 0
    BY <1>1, <1>2
  <1>4. m - 1 \in Nat /\ P(m - 1)
    BY <1>1, <1>3
  <1>5. PICK g : IsVisit(g, 1 .. m - 1, seq, win, ok)
    BY <1>4 DEF P
  <1>6. \E h : IsVisit(h, 1 .. (m - 1) + 1, seq, win, ok)
    BY <1>4, <1>5, OneMore
  <1>7. (m - 1) + 1 = m
    BY <1>3
  <1> QED BY <1>3, <1>6, <1>7 DEF P

\* The window win after the tabs of seq were asked to close, those of ok with Ok.
Visited(win, seq, ok) == FoldLeft(LAMBDA w, t : CloseDataEdit(w, t, t \in ok), win, seq)

LEMMA Unfold ==
    ASSUME NEW win, NEW seq, NEW ok
    PROVE  Visited(win, seq, ok) =
               (CHOOSE g : IsVisit(g, DOMAIN seq, seq, win, ok))[DOMAIN seq]
  BY Zenon DEF Visited, FoldLeft, MapThenFoldSet, IsVisit, Visit

\* The windows that Ok goes through: h[i] after the first i tabs were asked.
Visits(win, seq, ok, h) ==
    /\ h[0] = win
    /\ \A i \in DOMAIN seq : h[i] = CloseDataEdit(h[i - 1], seq[i], seq[i] \in ok)

LEMMA VisitSteps ==
    ASSUME NEW win, NEW n \in Nat, NEW seq, DOMAIN seq = 1 .. n, NEW ok
    PROVE  \E h : Visits(win, seq, ok, h) /\ h[n] = Visited(win, seq, ok)
  <1> DEFINE g == CHOOSE h : IsVisit(h, DOMAIN seq, seq, win, ok)
  <1>1. \E h : IsVisit(h, DOMAIN seq, seq, win, ok)
    BY VisitExists
  <1>2. IsVisit(g, DOMAIN seq, seq, win, ok)
    BY <1>1, Zenon
  <1>3. Visited(win, seq, ok) = g[DOMAIN seq]
    BY Unfold, Zenon
  <1> HIDE DEF g
  <1>4. g = [s \in SUBSET (1 .. n) |-> Visit(g, s, seq, win, ok)]
    <2>1. IsVisit(g, 1 .. n, seq, win, ok)
      BY <1>2
    <2> QED BY <2>1 DEF IsVisit
  <1> DEFINE h == [i \in 0 .. n |-> g[1 .. i]]
  <1>5. h[0] = win
    <2>1. 1 .. 0 = {} /\ 1 .. 0 \in SUBSET (1 .. n) /\ 0 \in 0 .. n
      OBVIOUS
    <2>2. g[1 .. 0] = Visit(g, 1 .. 0, seq, win, ok)
      BY <1>4, <2>1
    <2> QED BY <2>1, <2>2 DEF Visit
  <1>6. ASSUME NEW i \in 1 .. n PROVE h[i] = CloseDataEdit(h[i - 1], seq[i], seq[i] \in ok)
    <2>1. 1 .. i \in SUBSET (1 .. n) /\ i \in Nat /\ i \in 1 .. i
      OBVIOUS
    <2>2. g[1 .. i] = Visit(g, 1 .. i, seq, win, ok)
      BY <1>4, <2>1
    <2>3. Max(1 .. i) = i
      <3>1. Max(1 .. i) \in Nat /\ Max(1 .. i) <= i /\ i <= Max(1 .. i)
        BY <2>1, MaxOfSome
      <3> QED BY <2>1, <3>1
    <2>4. (1 .. i) \ {i} = 1 .. i - 1
      BY <2>1
    <2>5. g[1 .. i] = CloseDataEdit(g[1 .. i - 1], seq[i], seq[i] \in ok)
      BY <2>1, <2>2, <2>3, <2>4 DEF Visit
    <2> QED BY <2>5
  <1>7. h[n] = Visited(win, seq, ok)
    BY <1>3
  <1> HIDE DEF h
  <1>8. Visits(win, seq, ok, h)
    BY <1>5, <1>6 DEF Visits
  <1> QED BY <1>7, <1>8

\* What holds of the window, and goes on to hold when a tab closes, holds after Ok.
LEMMA FitsVisited ==
    ASSUME NEW a, NEW win, Fits(a, win), NEW n \in Nat, NEW seq, DOMAIN seq = 1 .. n, NEW ok
    PROVE  Fits(a, Visited(win, seq, ok))
  <1>1. PICK h : Visits(win, seq, ok, h) /\ h[n] = Visited(win, seq, ok)
    BY VisitSteps
  <1> DEFINE Wrong == {k \in Nat : k <= n /\ ~Fits(a, h[k])}
  <1>2. Wrong = {}
    <2> SUFFICES ASSUME Wrong # {} PROVE FALSE
      OBVIOUS
    <2>1. PICK m \in Wrong : \A k \in Wrong : m <= k
      BY LeastExists
    <2>2. m # 0
      BY <1>1, <2>1 DEF Visits
    <2>3. m \in DOMAIN seq /\ m - 1 \in Nat /\ m - 1 <= n /\ ~(m <= m - 1)
      BY <2>1, <2>2
    <2>4. Fits(a, h[m - 1])
      BY <2>1, <2>3
    <2>5. h[m] = CloseDataEdit(h[m - 1], seq[m], seq[m] \in ok)
      BY <1>1, <2>3 DEF Visits
    <2>6. Fits(a, h[m])
      BY <2>4, <2>5, FitsClosed
    <2> QED BY <2>1, <2>6
  <1>3. Fits(a, h[n])
    BY <1>2
  <1> QED BY <1>1, <1>3
----------------------------------------------------------------------------
(* The window: the steps of DomainEditor.                                  *)

LEMMA WindowIs == Now.dev = D!Now /\ Now.tabs = tabs /\ IsWindow(Now)
  BY DEF Now, IsWindow

LEMMA NowFits ==
    ASSUME TabGood, D!MaySetEmulator
    PROVE  Fits(D!Now, Now)
  <1> DEFINE e == D!Now
  <1>1. e.devices = devices /\ e.current = current /\ e.panel = panel /\ Good(e)
    BY NowIs DEF TabGood
  <1>2. panel.changed => e.current \notin D!Others(e.devices, "emulator")
    BY <1>1 DEF D!MaySetEmulator
  <1> HIDE DEF e
  <1>3. e.panel.changed => Safe(e, e)
    BY <1>1, <1>2 DEF Safe
  <1> QED BY <1>1, <1>3, WindowIs DEF Fits, e

LEMMA FitsBecome ==
    ASSUME TabGood, NEW w, Fits(D!Now, w), Become(w)
    PROVE  TabStep
  <1>1. TabGood'
    BY BecomesGood DEF Fits, Become
  <1> DEFINE e == D!Now
             t == w.dev
  <1>2. e.panel = panel /\ e.past = past
    BY NowIs
  <1> HIDE DEF e
  <1>3. /\ devices' = t.devices /\ panel' = t.panel /\ past' = t.past
        /\ D!Open(panel) /\ panel.saved /\ panel.changed => Safe(e, t)
    BY <1>2 DEF Fits, Become, D!Become, e
  <1> HIDE DEF t
  <1>4. StoresWhatIsSaved
    BY <1>2, <1>3 DEF StoresWhatIsSaved, Safe, Stored, PanelShows, D!Open
  <1> QED BY <1>1, <1>4 DEF TabStep

LEMMA EditTabKeeps ==
    ASSUME TabGood, NEW t, Edit(t)
    PROVE  TabStep
  <1>1. PICK e \in Edits(TabForm[t], tabs[t].shown) :
          LET r == Pick(tabs[t].shown, e[1], e[2])
              told == Told(TabForm[t], tabs[t].shown, r)
              win == ShowIn(Now, t, r)
          IN Become([win EXCEPT !.tabs[t].saved = @ /\ ~told])
    BY DEF Edit
  <1> DEFINE r == Pick(tabs[t].shown, e[1], e[2])
             told == Told(TabForm[t], tabs[t].shown, r)
             win == ShowIn(Now, t, r)
             x == [win EXCEPT !.tabs[t].saved = @ /\ ~told]
  <1>2. Become(x)
    BY <1>1
  <1>3. Turns(Now, win)
    BY WindowIs, ShowInTurns
  <1> HIDE DEF win, told
  <1>4. Turns(Now, x)
    BY <1>3 DEF Turns, IsWindow
  <1> HIDE DEF x
  <1>5. Fits(D!Now, Now)
    BY NowFits DEF Edit
  <1>6. Fits(D!Now, x)
    BY <1>4, <1>5, FitsTurned
  <1> QED BY <1>2, <1>6, FitsBecome

LEMMA RevertTabKeeps ==
    ASSUME TabGood, NEW t, Revert(t)
    PROVE  TabStep
  <1>1. Fits(D!Now, RevertData(Now, t))
    BY NowFits, WindowIs, RevertTurns, FitsTurned DEF Revert
  <1> QED BY <1>1, FitsBecome DEF Revert

LEMMA ResetTabKeeps ==
    ASSUME TabGood, NEW t, Reset(t)
    PROVE  TabStep
  <1> DEFINE w == [Now EXCEPT !.tabs[t].current = tabs[t].first]
  <1>1. IsWindow(w) /\ w.dev = D!Now
    BY WindowIs DEF IsWindow
  <1>2. Become(RevertData(w, t))
    BY DEF Reset
  <1> HIDE DEF w
  <1>3. Fits(D!Now, w)
    BY <1>1, NowFits, WindowIs DEF Fits, Reset
  <1>4. Fits(D!Now, RevertData(w, t))
    BY <1>1, <1>3, RevertTurns, FitsTurned
  <1> QED BY <1>2, <1>4, FitsBecome

\* The tabs that Ok visits are the first ones of Order.
LEMMA OrderVisited ==
    ASSUME IsList(Order), NEW ok, BuildXMLDescription(ok)
    PROVE  \E visited : /\ \E n \in Nat : DOMAIN visited = 1 .. n
                        /\ Become(Visited(Now, visited, ok))
  <1> DEFINE refuse  == {i \in DOMAIN Order : Refuses(Order[i], ok)}
             visited == IF refuse = {} THEN Order ELSE SubSeq(Order, 1, Min(refuse))
  <1>1. Become(Visited(Now, visited, ok))
    BY DEF BuildXMLDescription, Visited
  <1>2. Len(Order) \in Nat /\ DOMAIN Order = 1 .. Len(Order)
    BY ListOf DEF IsList
  <1>3. \E n \in Nat : DOMAIN visited = 1 .. n
    <2>1. CASE refuse = {}
      BY <1>2, <2>1
    <2>2. CASE refuse # {}
      <3> DEFINE m == Min(refuse)
      <3>1. refuse \subseteq DOMAIN Order
        OBVIOUS
      <3> HIDE DEF refuse
      <3>2. refuse \subseteq Nat
        BY <1>2, <3>1
      <3>3. \E i \in refuse : \A k \in refuse : i =< k
        BY <2>2, <3>2, LeastExists
      <3>4. m \in refuse
        BY <3>3, Zenon DEF Min
      <3>5. visited = SubSeq(Order, 1, m)
        BY <2>2
      <3> HIDE DEF m
      <3>6. m \in 1 .. Len(Order)
        BY <1>2, <3>1, <3>4
      <3>7. DOMAIN SubSeq(Order, 1, m) = 1 .. m
        BY <1>2, <3>6, SubSeqProperties DEF IsList
      <3> QED BY <3>5, <3>6, <3>7
    <2> QED BY <2>1, <2>2
  <1> HIDE DEF visited
  <1> QED BY <1>1, <1>3

LEMMA OkKeeps ==
    ASSUME IsList(Order), TabGood, NEW ok, BuildXMLDescription(ok)
    PROVE  TabStep
  <1>1. PICK visited : /\ \E n \in Nat : DOMAIN visited = 1 .. n
                       /\ Become(Visited(Now, visited, ok))
    BY OrderVisited
  <1>2. D!MaySetEmulator
    BY DEF BuildXMLDescription
  <1>3. Fits(D!Now, Now)
    BY <1>2, NowFits
  <1>4. Fits(D!Now, Visited(Now, visited, ok))
    BY <1>1, <1>3, FitsVisited
  <1> QED BY <1>1, <1>2, <1>4, FitsBecome

\* The window as it opens, and as it starts again.
LEMMA OpenedIsGood ==
    ASSUME NEW desc, IsList(desc.list)
    PROVE  Good(Opened(desc).dev)
  <1> DEFINE win == [dev |-> D!Detected(desc.list), tabs |-> [t \in DOMAIN desc.tabs |-> NewTab(t, desc.tabs[t])]]
             booting == Booting \cap DOMAIN win.tabs
             b == CHOOSE t \in booting : TRUE
  <1>1. IsWindow(win) /\ Good(win.dev)
    BY DetectedIsGood DEF IsWindow
  <1>2. Opened(desc) = IF booting = {} THEN win ELSE InitMaxVCPU(win, b)
    BY DEF Opened
  <1> HIDE DEF win
  <1>3. Good(InitMaxVCPU(win, b).dev)
    <2> HIDE DEF b, booting
    <2> DEFINE s == SetAll(SetByArch[b], win.tabs[b].shown)
               x == [win EXCEPT !.tabs[b].shown = s, !.tabs[b].saved = FALSE]
    <2>1. InitMaxVCPU(win, b) = ArchChanged(x, b)
      BY DEF InitMaxVCPU
    <2> HIDE DEF s
    <2>2. IsWindow(x) /\ x.dev = win.dev
      BY <1>1 DEF IsWindow
    <2> HIDE DEF x
    <2>3. Turns(x, ArchChanged(x, b))
      BY <2>2, ArchChangedTurns
    <2>4. \A doc : Good(D!SetEmulator(win.dev, doc))
      BY <1>1, SetEmulatorDoes DEF Emulates
    <2> QED BY <1>1, <2>1, <2>2, <2>3, <2>4 DEF Turns
  <1> QED BY <1>1, <1>2, <1>3

WindowGood == TabGood /\ IsList(xmlDesc.list) /\ restores \in Int

LEMMA StartGood ==
    ASSUME NEW s, IsList(s.list), s.restores \in Nat, Start(s)
    PROVE  WindowGood
  <1> DEFINE w == Opened(s)
             e == w.dev
             n == D!Now
  <1>1. /\ devices = e.devices /\ current = e.current /\ panel = e.panel /\ past = e.past
    BY DEF Start
  <1>2. Good(e)
    BY OpenedIsGood
  <1>3. xmlDesc.list = s.list /\ restores = s.restores
    BY DEF Start
  <1> HIDE DEF e
  <1>4. /\ DOMAIN n = {"devices", "current", "panel", "past"}
        /\ n.devices = e.devices /\ n.current = e.current /\ n.panel = e.panel /\ n.past = e.past
    BY <1>1, NowIs
  <1> HIDE DEF n
  <1>5. Good(n)
    BY <1>2, <1>4 DEF Good, Whole, IsEditor, RowIsRight
  <1> QED BY <1>3, <1>5 DEF WindowGood, TabGood, n

\* Nothing saved was dropped, unless the window started again.
SavedOrRestored == restores' = restores => StoresWhatIsSaved

LEMMA WindowKeeps ==
    ASSUME StartsFit, WindowGood, [Next]_vars
    PROVE  WindowGood' /\ SavedOrRestored
  <1> USE DEF WindowGood
  <1>1. ASSUME TabStep, UNCHANGED <<xmlDesc, restores>> PROVE WindowGood' /\ SavedOrRestored
    BY <1>1 DEF TabStep, SavedOrRestored
  <1>2. CASE Devices
    <2>1. D!Next /\ UNCHANGED <<xmlDesc, restores>>
      BY <1>2 DEF Devices
    <2>2. TabStep
      BY <2>1, TabKeeps
    <2> QED BY <1>1, <2>1, <2>2
  <1>3. ASSUME NEW t, Edit(t) PROVE WindowGood' /\ SavedOrRestored
    BY <1>1, <1>3, EditTabKeeps DEF Edit
  <1>4. ASSUME NEW t, Save(t) PROVE WindowGood' /\ SavedOrRestored
    BY <1>1, <1>4, StaysGood DEF Save, devVars
  <1>5. ASSUME NEW t, Revert(t) PROVE WindowGood' /\ SavedOrRestored
    BY <1>1, <1>5, RevertTabKeeps DEF Revert
  <1>6. ASSUME NEW t, Reset(t) PROVE WindowGood' /\ SavedOrRestored
    BY <1>1, <1>6, ResetTabKeeps DEF Reset
  <1>7. ASSUME NEW ok, BuildXMLDescription(ok) PROVE WindowGood' /\ SavedOrRestored
    <2>1. TabStep
      BY <1>7, OkKeeps DEF StartsFit
    <2>2. UNCHANGED <<xmlDesc, restores>>
      BY <1>7 DEF BuildXMLDescription
    <2> QED BY <1>1, <2>1, <2>2
  <1>8. CASE RestoreParameters
    <2>1. Become(Opened(xmlDesc)) /\ restores' = restores - 1 /\ xmlDesc' = xmlDesc
      BY <1>8 DEF RestoreParameters
    <2>2. Good(Opened(xmlDesc).dev)
      BY OpenedIsGood
    <2>3. TabGood'
      BY <2>1, <2>2, BecomesGood DEF Become
    <2>4. SavedOrRestored
      BY <2>1 DEF SavedOrRestored
    <2> QED BY <2>1, <2>3, <2>4
  <1>9. CASE UNCHANGED vars
    BY <1>1, <1>9, StaysGood DEF vars, devVars
  <1> QED BY <1>2, <1>3, <1>4, <1>5, <1>6, <1>7, <1>8, <1>9 DEF Next

LEMMA StartsGood ==
    ASSUME StartsFit, WindowsInit
    PROVE  WindowGood
  <1>1. CASE Init
    BY <1>1, StartGood DEF Init, StartsFit
  <1>2. CASE NoWindow
    <2> DEFINE s == [list |-> <<>>, tabs |-> [t \in {} |-> <<>>], edits |-> 0, ops |-> 0, restores |-> 0]
    <2>1. Start(s)
      BY <1>2 DEF NoWindow
    <2>2. IsList(s.list) /\ s.restores \in Nat
      BY DEF IsList
    <2> HIDE DEF s
    <2> QED BY <2>1, <2>2, StartGood
  <1> QED BY <1>1, <1>2 DEF WindowsInit

LEMMA StepsGood ==
    ASSUME StartsFit, WindowGood, [WindowsNext]_windowVars
    PROVE  WindowGood' /\ SavedOrRestored
  <1>1. [Next]_vars
    BY DEF WindowsNext, windowVars, domainVars, vars, devVars
  <1> QED BY <1>1, WindowKeeps

\* In the whole window, where other tabs exchange the emulator in the list, Ok asks
\* every tab to close and everything can be started again: the list holds every
\* device that was there or was added and not deleted, once, until a device is
\* stored in a row that is not its own.
THEOREM WindowListIsWhole ==
    ASSUME StartsFit
    PROVE  WindowsSpec => []DevicesAreKept
  <1>1. WindowsInit => WindowGood
    BY StartsGood
  <1>2. WindowGood /\ [WindowsNext]_windowVars => WindowGood'
    BY StepsGood
  <1>3. WindowGood => DevicesAreKept
    BY TabHolds DEF WindowGood
  <1> QED BY <1>1, <1>2, <1>3, PTL DEF WindowsSpec

\* What was changed and saved in the panel of a device is in the list once the panel
\* shows this device no more, whichever tab or button did it, unless a device was
\* deleted or the window starts again.
THEOREM SavedReachesWindow ==
    ASSUME StartsFit
    PROVE  WindowsSpec => SavedIsStored
  <1>1. WindowsInit => WindowGood
    BY StartsGood
  <1>2. WindowGood /\ [WindowsNext]_windowVars => WindowGood' /\ SavedOrRestored
    BY StepsGood
  <1>3. WindowGood /\ [WindowsNext]_windowVars
            => WindowGood' /\ [restores' = restores => StoresWhatIsSaved]_<<devices, current, panel, past, restores>>
    BY <1>2 DEF SavedOrRestored
  <1> QED BY <1>1, <1>3, PTL DEF WindowsSpec, SavedIsStored
----------------------------------------------------------------------------
(* The fields of a form.                                                   *)

\* The field of a name.
LEMMA AtIs ==
    ASSUME NEW form, Worded(form), NEW n \in Names(form)
    PROVE  \E i \in DOMAIN form.order : form.order[i].name = n /\ form.at[n] = form.order[i]
  <1> DEFINE o == form.order
  <1>1. form.at = Form(o).at
    BY DEF Worded
  <1>2. form.at = [m \in {o[i].name : i \in DOMAIN o} |-> o[CHOOSE i \in DOMAIN o : o[i].name = m]]
    BY <1>1 DEF Form
  <1>3. \E i \in DOMAIN o : o[i].name = n
    BY <1>2 DEF Names
  <1> DEFINE i == CHOOSE k \in DOMAIN o : o[k].name = n
  <1>4. i \in DOMAIN o /\ o[i].name = n
    BY <1>3
  <1>5. form.at[n] = o[i]
    BY <1>2 DEF Names
  <1> QED BY <1>4, <1>5

LEMMA NamesAre ==
    ASSUME NEW form, Worded(form), NEW i \in DOMAIN form.order
    PROVE  form.order[i].name \in Names(form)
  <1> DEFINE o == form.order
  <1>1. form.at = Form(o).at
    BY DEF Worded
  <1>2. form.at = [m \in {o[k].name : k \in DOMAIN o} |-> o[CHOOSE k \in DOMAIN o : o[k].name = m]]
    BY <1>1 DEF Form
  <1> QED BY <1>2 DEF Names

LEMMA FieldAt ==
    ASSUME NEW form, Worded(form), NEW i \in DOMAIN form.order, Untouched(form, i)
    PROVE  form.order[i].name \in Names(form) /\ form.at[form.order[i].name] = form.order[i]
  <1>1. form.order[i].name \in Names(form)
    BY NamesAre
  <1>2. PICK j \in DOMAIN form.order : /\ form.order[j].name = form.order[i].name
                                       /\ form.at[form.order[i].name] = form.order[j]
    BY <1>1, AtIs
  <1>3. j = i
    BY <1>2 DEF Untouched
  <1> QED BY <1>1, <1>2, <1>3

----------------------------------------------------------------------------
(* A field changes, and its slots run.                                     *)

\* Slots that set fields of the form.
Sets(form, trips) ==
    /\ \E k \in Nat : DOMAIN trips \subseteq 1 .. k
    /\ \A i \in DOMAIN trips : trips[i][2] \in Names(form) /\ trips[i][3] # Absent

LEMMA ApplyKeeps ==
    ASSUME NEW form, NEW s, IsState(form, s), NEW trips, Sets(form, trips), NEW v
    PROVE  IsState(form, Apply(trips, s, v))
  <1> DEFINE runs == {i \in DOMAIN trips : trips[i][1] = v}
             to(n) == {i \in runs : trips[i][2] = n}
             t == [n \in DOMAIN s |-> IF to(n) = {} THEN s[n] ELSE trips[Max(to(n))][3]]
  <1>1. Apply(trips, s, v) \in {s, t}
    BY DEF Apply
  <1>2. ASSUME NEW n \in Names(form), to(n) # {} PROVE trips[Max(to(n))][3] # Absent
    <2>1. PICK k \in Nat : DOMAIN trips \subseteq 1 .. k
      BY DEF Sets
    <2>2. to(n) \subseteq 1 .. k
      BY <2>1
    <2>3. Max(to(n)) \in to(n)
      BY <1>2, <2>2, MaxOfSome
    <2>4. Max(to(n)) \in DOMAIN trips
      BY <2>3
    <2> QED BY <2>4 DEF Sets
  <1>3. IsState(form, t)
    BY <1>2 DEF IsState
  <1> QED BY <1>1, <1>3

\* What no slot sets stays.
LEMMA ApplyOther ==
    ASSUME NEW trips, NEW s, NEW v, NEW n \in DOMAIN s, \A i \in DOMAIN trips : trips[i][2] # n
    PROVE  Apply(trips, s, v)[n] = s[n]
  <1> DEFINE runs == {i \in DOMAIN trips : trips[i][1] = v}
             to(m) == {i \in runs : trips[i][2] = m}
             t == [m \in DOMAIN s |-> IF to(m) = {} THEN s[m] ELSE trips[Max(to(m))][3]]
  <1>1. Apply(trips, s, v) \in {s, t}
    BY DEF Apply
  <1>2. t[n] = s[n]
    OBVIOUS
  <1> QED BY <1>1, <1>2

LEMMA ChangeKeeps ==
    ASSUME NEW form, Worded(form), NEW i \in DOMAIN form.order, NEW s, IsState(form, s), NEW v, v # Absent
    PROVE  IsState(form, Change(s, form.order[i], v))
  <1> DEFINE f == form.order[i]
             runs == {k \in DOMAIN f.sets : Len(f.sets[k]) = 3 \/ ~Hold(f.sets[k][4], s)}
             trips == [k \in runs |-> f.sets[k]]
             t == [s EXCEPT ![f.name] = v]
  <1>1. IsState(form, t)
    BY DEF IsState
  <1>2. Sets(form, trips)
    <2>1. Len(f.sets) \in Nat /\ DOMAIN f.sets = 1 .. Len(f.sets)
      BY DEF Worded, WordedField
    <2>2. \A k \in DOMAIN f.sets : f.sets[k][2] \in Names(form) /\ f.sets[k][3] # Absent
      BY DEF Worded
    <2> QED BY <2>1, <2>2 DEF Sets
  <1>3. Change(s, f, v) \in {s, Apply(trips, t, v)}
    BY DEF Change
  <1> HIDE DEF trips, t
  <1> QED BY <1>1, <1>2, <1>3, ApplyKeeps

LEMMA PickKeeps ==
    ASSUME NEW form, Worded(form), NEW i \in DOMAIN form.order, NEW s, IsState(form, s), NEW v, v # Absent
    PROVE  IsState(form, Pick(s, form.order[i], v))
  <1> DEFINE f == form.order[i]
  <1>1. IsState(form, Change(s, f, v))
    BY ChangeKeeps
  <1>2. Sets(form, f.picks)
    <2>1. Len(f.picks) \in Nat /\ DOMAIN f.picks = 1 .. Len(f.picks)
      BY DEF Worded, WordedField
    <2>2. \A k \in DOMAIN f.picks : f.picks[k][2] \in Names(form) /\ f.picks[k][3] # Absent
      BY DEF Worded
    <2> QED BY <2>1, <2>2 DEF Sets
  <1> QED BY <1>1, <1>2, ApplyKeeps DEF Pick

LEMMA ChangeOther ==
    ASSUME NEW s, NEW f, NEW v, NEW n \in DOMAIN s, n # f.name, \A k \in DOMAIN f.sets : f.sets[k][2] # n
    PROVE  Change(s, f, v)[n] = s[n]
  <1> DEFINE runs == {k \in DOMAIN f.sets : Len(f.sets[k]) = 3 \/ ~Hold(f.sets[k][4], s)}
             trips == [k \in runs |-> f.sets[k]]
             t == [s EXCEPT ![f.name] = v]
  <1>1. n \in DOMAIN t /\ t[n] = s[n]
    OBVIOUS
  <1>2. \A k \in DOMAIN trips : trips[k][2] # n
    OBVIOUS
  <1>3. Change(s, f, v) \in {s, Apply(trips, t, v)}
    BY DEF Change
  <1> HIDE DEF trips, t
  <1> QED BY <1>1, <1>2, <1>3, ApplyOther

LEMMA ChangeSelf ==
    ASSUME NEW s, NEW f, NEW v, f.name \in DOMAIN s, \A k \in DOMAIN f.sets : f.sets[k][2] # f.name
    PROVE  Change(s, f, v)[f.name] = v
  <1> DEFINE runs == {k \in DOMAIN f.sets : Len(f.sets[k]) = 3 \/ ~Hold(f.sets[k][4], s)}
             trips == [k \in runs |-> f.sets[k]]
             t == [s EXCEPT ![f.name] = v]
  <1>1. f.name \in DOMAIN t /\ t[f.name] = v
    OBVIOUS
  <1>2. \A k \in DOMAIN trips : trips[k][2] # f.name
    OBVIOUS
  <1>3. Change(s, f, v) = IF s[f.name] = v THEN s ELSE Apply(trips, t, v)
    BY DEF Change
  <1> HIDE DEF trips, t
  <1> QED BY <1>1, <1>2, <1>3, ApplyOther

\* What is shown for a part that is not odd is that part.
LEMMA ShowsIt ==
    ASSUME NEW form, NEW n, NEW s, NEW d, ~Odd(form, d, n)
    PROVE  Shows(form.at[n], s, d[n]) = d[n]
  BY DEF Odd, Shows

LEMMA ShowsSome ==
    ASSUME NEW f, WordedField(f), NEW s, NEW v, v # Absent
    PROVE  Shows(f, s, v) # Absent
  <1> DEFINE J == {t \in f.joins : t[1] = s[f.name] /\ t[2] = v}
             R == {p \in f.reads : p[1] = v}
  <1>1. /\ \A t \in f.joins : t[3] # Absent
        /\ \A p \in f.reads : p[2] # Absent
    BY DEF WordedField
  <1>2. CASE \E t \in f.joins : t[1] = s[f.name] /\ t[2] = v
    <2>1. Shows(f, s, v) = (CHOOSE t \in f.joins : t[1] = s[f.name] /\ t[2] = v)[3]
      BY <1>2 DEF Shows
    <2>2. (CHOOSE t \in f.joins : t[1] = s[f.name] /\ t[2] = v) \in f.joins
      BY <1>2
    <2> QED BY <1>1, <2>1, <2>2
  <1>3. CASE ~(\E t \in f.joins : t[1] = s[f.name] /\ t[2] = v) /\ \E p \in f.reads : p[1] = v
    <2>1. Shows(f, s, v) = (CHOOSE p \in f.reads : p[1] = v)[2]
      BY <1>3 DEF Shows
    <2>2. (CHOOSE p \in f.reads : p[1] = v) \in f.reads
      BY <1>3
    <2> QED BY <1>1, <2>1, <2>2
  <1>4. CASE ~(\E t \in f.joins : t[1] = s[f.name] /\ t[2] = v) /\ ~\E p \in f.reads : p[1] = v
    BY <1>4 DEF Shows
  <1> QED BY <1>2, <1>3, <1>4

LEMMA ReadFieldShows ==
    ASSUME NEW form, Worded(form), NEW i \in DOMAIN form.order, NEW s, IsState(form, s), NEW d
    PROVE  IsState(form, ReadField(s, form.order[i], d))
  <1> DEFINE f == form.order[i]
  <1>1. WordedField(f) /\ f.none # Absent
    BY DEF Worded, WordedField
  <1>2. d[f.name] # Absent => Shows(f, s, d[f.name]) # Absent
    BY <1>1, ShowsSome
  <1>3. ReadField(s, f, d) = s
        \/ (d[f.name] # Absent /\ ReadField(s, f, d) = Change(s, f, Shows(f, s, d[f.name])))
        \/ ReadField(s, f, d) = Change(s, f, f.none)
    BY DEF ReadField
  <1> HIDE DEF f
  <1>4. \A v : v # Absent => IsState(form, Change(s, f, v))
    BY ChangeKeeps DEF f
  <1> QED BY <1>1, <1>2, <1>3, <1>4 DEF f

----------------------------------------------------------------------------
(* Reading: the fields in their order, each into what those before it left. *)

\* What the form shows after field i, g giving it for the fields before.
ReadUpTo(g, i, form, s, d) == IF i = 0 THEN s ELSE ReadField(g[i - 1], form.order[i], d)

\* What it shows as a function of the number of fields read.
IsReading(g, n, form, s, d) == g = [i \in 0 .. n |-> ReadUpTo(g, i, form, s, d)]

LEMMA OneFieldMore ==
    ASSUME NEW k \in Nat, NEW form, NEW s, NEW d, NEW g, IsReading(g, k, form, s, d)
    PROVE  \E h : IsReading(h, k + 1, form, s, d)
  <1> DEFINE n == k + 1
             h == [i \in 0 .. n |-> IF i = n THEN ReadField(g[k], form.order[n], d) ELSE g[i]]
  <1>1. \A i \in 0 .. k : h[i] = g[i] /\ g[i] = ReadUpTo(g, i, form, s, d)
    BY DEF IsReading
  <1>2. h[n] = ReadField(g[k], form.order[n], d) /\ n \in Nat /\ n # 0 /\ n - 1 = k
    OBVIOUS
  <1>3. h = [i \in 0 .. n |-> h[i]]
    OBVIOUS
  <1> HIDE DEF h
  <1>4. ASSUME NEW i \in 0 .. n PROVE h[i] = ReadUpTo(h, i, form, s, d)
    <2>1. CASE i = n
      <3>1. h[n - 1] = g[k]
        BY <1>1, <1>2
      <3> HIDE DEF n
      <3> QED BY <1>2, <2>1, <3>1 DEF ReadUpTo
    <2>2. CASE i = 0
      BY <1>1, <2>2 DEF ReadUpTo
    <2>3. CASE i # n /\ i # 0
      <3>1. i \in 0 .. k /\ i - 1 \in 0 .. k
        BY <2>3
      <3> QED BY <1>1, <2>3, <3>1 DEF ReadUpTo
    <2> QED BY <2>1, <2>2, <2>3
  <1>5. h = [i \in 0 .. n |-> ReadUpTo(h, i, form, s, d)]
    <2> HIDE DEF n
    <2> QED BY <1>3, <1>4, Zenon
  <1> QED BY <1>5 DEF IsReading

LEMMA ReadingExists ==
    ASSUME NEW form, NEW s, NEW d, NEW n \in Nat
    PROVE  \E g : IsReading(g, n, form, s, d)
  <1> DEFINE P(k) == \E g : IsReading(g, k, form, s, d)
             None == {k \in Nat : ~P(k)}
  <1> SUFFICES ASSUME n \in None PROVE FALSE
    OBVIOUS
  <1>1. PICK m \in None : \A k \in None : m <= k
    BY LeastExists
  <1>2. P(0)
    <2> DEFINE g == [i \in 0 .. 0 |-> s]
    <2>1. \A i \in 0 .. 0 : s = ReadUpTo(g, i, form, s, d)
      BY DEF ReadUpTo
    <2>2. g = [i \in 0 .. 0 |-> ReadUpTo(g, i, form, s, d)]
      BY <2>1, Zenon
    <2> HIDE DEF g
    <2> QED BY <2>2 DEF IsReading
  <1> HIDE DEF P
  <1>3. m \in Nat /\ ~P(m) /\ m # 0
    BY <1>1, <1>2
  <1>4. m - 1 \in Nat /\ P(m - 1)
    BY <1>1, <1>3
  <1>5. PICK g : IsReading(g, m - 1, form, s, d)
    BY <1>4 DEF P
  <1>6. \E h : IsReading(h, (m - 1) + 1, form, s, d)
    BY <1>4, <1>5, OneFieldMore
  <1>7. (m - 1) + 1 = m
    BY <1>3
  <1> QED BY <1>3, <1>6, <1>7 DEF P

LEMMA UnfoldRead ==
    ASSUME NEW form, NEW s, NEW d
    PROVE  Read(form, s, d) =
               (CHOOSE g : IsReading(g, Len(form.order), form, s, d))[Len(form.order)]
  BY Zenon DEF Read, IsReading, ReadUpTo

\* g[i] is what the form shows after its first i fields were read.
ReadsBy(form, s, d, g) ==
    /\ g[0] = s
    /\ \A i \in DOMAIN form.order : g[i] = ReadField(g[i - 1], form.order[i], d)
    /\ g[Len(form.order)] = Read(form, s, d)

LEMMA ReadSteps ==
    ASSUME NEW form, Worded(form), NEW s, NEW d
    PROVE  \E g : ReadsBy(form, s, d, g)
  <1> DEFINE n == Len(form.order)
             g == CHOOSE h : IsReading(h, n, form, s, d)
  <1>1. n \in Nat /\ DOMAIN form.order = 1 .. n
    BY DEF Worded
  <1>2. \E h : IsReading(h, n, form, s, d)
    BY <1>1, ReadingExists
  <1>3. IsReading(g, n, form, s, d)
    BY <1>2, Zenon
  <1>4. Read(form, s, d) = g[n]
    BY UnfoldRead, Zenon
  <1> HIDE DEF g, n
  <1>5. \A i \in 0 .. n : g[i] = ReadUpTo(g, i, form, s, d)
    BY <1>3 DEF IsReading
  <1>6. g[0] = s
    BY <1>1, <1>5 DEF ReadUpTo
  <1>7. ASSUME NEW i \in 1 .. n PROVE g[i] = ReadField(g[i - 1], form.order[i], d)
    <2>1. i \in 0 .. n /\ i # 0
      BY <1>1
    <2> QED BY <1>5, <2>1 DEF ReadUpTo
  <1>8. ReadsBy(form, s, d, g)
    BY <1>1, <1>4, <1>6, <1>7 DEF ReadsBy, n
  <1> QED BY <1>8

----------------------------------------------------------------------------
(* What is read stays until all is read.                                   *)

LEMMA RowsOfForm ==
    ASSUME NEW form, Worded(form)
    PROVE  Len(form.order) \in Nat /\ DOMAIN form.order = 1 .. Len(form.order)
  BY DEF Worded

LEMMA ReadsStates ==
    ASSUME NEW form, Worded(form), NEW s, IsState(form, s), NEW d, NEW g, ReadsBy(form, s, d, g),
           NEW j \in 0 .. Len(form.order)
    PROVE  IsState(form, g[j])
  <1> DEFINE Wrong == {k \in Nat : k <= Len(form.order) /\ ~IsState(form, g[k])}
  <1>1. Len(form.order) \in Nat /\ DOMAIN form.order = 1 .. Len(form.order)
    BY RowsOfForm
  <1> SUFFICES ASSUME j \in Wrong PROVE FALSE
    BY <1>1
  <1>2. PICK m \in Wrong : \A k \in Wrong : m <= k
    BY LeastExists
  <1>3. m # 0
    BY <1>2 DEF ReadsBy
  <1>4. m \in DOMAIN form.order /\ m - 1 \in Nat /\ m - 1 <= Len(form.order) /\ ~(m <= m - 1)
    BY <1>1, <1>2, <1>3
  <1>5. IsState(form, g[m - 1])
    BY <1>2, <1>4
  <1>6. g[m] = ReadField(g[m - 1], form.order[m], d)
    BY <1>4 DEF ReadsBy
  <1>7. IsState(form, g[m])
    BY <1>4, <1>5, <1>6, ReadFieldShows
  <1> QED BY <1>2, <1>7

\* The form shows the same in its field i.
Same(form, i, s, t) == s[form.order[i].name] = t[form.order[i].name]

\* What one reading does to a field with a name of its own that it does not set.
LEMMA ReadsOther ==
    ASSUME NEW form, Worded(form), NEW i \in DOMAIN form.order, Untouched(form, i),
           NEW j \in DOMAIN form.order, j \in i .. Len(form.order), j # i, NEW s, IsState(form, s), NEW d,
           NEW r, r = ReadField(s, form.order[j], d)
    PROVE  Same(form, i, r, s)
  <1> DEFINE f == form.order[j]
             n == form.order[i].name
  <1>1. Len(form.order) \in Nat /\ DOMAIN form.order = 1 .. Len(form.order)
    BY RowsOfForm
  <1>2. n # f.name /\ \A k \in DOMAIN f.sets : f.sets[k][2] # n
    BY DEF Untouched
  <1>3. n \in DOMAIN s
    BY NamesAre DEF IsState
  <1>4. \/ ReadField(s, f, d) = s
        \/ \E v : ReadField(s, f, d) = Change(s, f, v)
    BY DEF ReadField
  <1> HIDE DEF f, n
  <1>5. \A v : Change(s, f, v)[n] = s[n]
    BY <1>2, <1>3, ChangeOther
  <1>6. r[n] = s[n]
    BY <1>4, <1>5 DEF f
  <1> QED BY <1>6 DEF Same, n

LEMMA Stays ==
    ASSUME NEW form, Worded(form), NEW s, IsState(form, s), NEW d, NEW g, ReadsBy(form, s, d, g),
           NEW i \in DOMAIN form.order, Untouched(form, i), NEW j \in i .. Len(form.order)
    PROVE  Same(form, i, g[j], g[i])
  <1> DEFINE n == form.order[i].name
             Wrong == {k \in Nat : i <= k /\ k <= Len(form.order) /\ g[k][n] # g[i][n]}
  <1>1. Len(form.order) \in Nat /\ DOMAIN form.order = 1 .. Len(form.order)
    BY RowsOfForm
  <1> SUFFICES ASSUME j \in Wrong PROVE FALSE
    BY <1>1 DEF Same
  <1>2. PICK m \in Wrong : \A k \in Wrong : m <= k
    BY LeastExists
  <1>3. m # i
    BY <1>2
  <1>4. /\ m \in DOMAIN form.order /\ i < m
        /\ m - 1 \in Nat /\ i <= m - 1 /\ m - 1 <= Len(form.order) /\ ~(m <= m - 1)
        /\ m - 1 \in 0 .. Len(form.order)
    BY <1>1, <1>2, <1>3
  <1>5. g[m - 1][n] = g[i][n]
    BY <1>2, <1>4
  <1>6. g[m] = ReadField(g[m - 1], form.order[m], d)
    BY <1>4 DEF ReadsBy
  <1>7. IsState(form, g[m - 1])
    BY <1>4, ReadsStates
  <1>8. g[m][n] = g[m - 1][n]
    <2> DEFINE w == g[m - 1]
               r == g[m]
    <2>1. /\ IsState(form, w) /\ r = ReadField(w, form.order[m], d)
          /\ m \in DOMAIN form.order /\ m \in i .. Len(form.order) /\ m # i
      BY <1>1, <1>4, <1>6, <1>7
    <2> HIDE DEF r, w
    <2>2. Same(form, i, r, w)
      BY <2>1, ReadsOther
    <2> QED BY <2>2 DEF r, w, Same
  <1> QED BY <1>2, <1>5, <1>8

\* A field that is not odd and is read shows what the description has.
Took(form, i, d, s) ==
    LET f == form.order[i]
    IN s[f.name] = IF d[f.name] = Absent THEN f.none ELSE d[f.name]

LEMMA IsReadAt ==
    ASSUME NEW form, Worded(form), NEW s, IsState(form, s), NEW d, NEW g, ReadsBy(form, s, d, g),
           NEW i \in DOMAIN form.order, Untouched(form, i),
           ~Odd(form, d, form.order[i].name), Hold(form.order[i].when, g[i - 1])
    PROVE  \A j \in i .. Len(form.order) : Took(form, i, d, g[j])
  <1> DEFINE f == form.order[i]
             n == f.name
             r == g[i - 1]
  <1>1. Len(form.order) \in Nat /\ DOMAIN form.order = 1 .. Len(form.order)
    BY RowsOfForm
  <1>2. n \in Names(form) /\ form.at[n] = f
    BY FieldAt
  <1>3. ~f.lost /\ (d[n] = Absent => ~f.keeps)
    BY <1>2 DEF Odd
  <1>4. g[i] = ReadField(r, f, d)
    BY DEF ReadsBy
  <1>5. g[i] = IF d[n] # Absent THEN Change(r, f, Shows(f, r, d[n])) ELSE Change(r, f, f.none)
    BY <1>3, <1>4 DEF ReadField
  <1>6. Shows(f, r, d[n]) = d[n]
    <2>1. ~Odd(form, d, n)
      OBVIOUS
    <2> HIDE DEF r, n
    <2>2. Shows(form.at[n], r, d[n]) = d[n]
      BY <2>1, ShowsIt
    <2> QED BY <1>2, <2>2
  <1>7. n \in DOMAIN r /\ \A k \in DOMAIN f.sets : f.sets[k][2] # n
    <2>1. i - 1 \in 0 .. Len(form.order) /\ i \in i .. Len(form.order)
      BY <1>1
    <2>2. IsState(form, r)
      BY <2>1, ReadsStates
    <2> QED BY <1>2, <2>1, <2>2 DEF IsState, Untouched
  <1>8. ASSUME NEW v PROVE Change(r, f, v)[n] = v
    BY <1>7, ChangeSelf
  <1> HIDE DEF r
  <1>9. g[i][n] = IF d[n] = Absent THEN f.none ELSE d[n]
    BY <1>5, <1>6, <1>8
  <1>10. \A j \in i .. Len(form.order) : Same(form, i, g[j], g[i])
    BY Stays
  <1> QED BY <1>9, <1>10 DEF Same, Took

----------------------------------------------------------------------------
(* Steady fields.                                                          *)

LEMMA SteadyIs ==
    ASSUME NEW form, Worded(form), NEW n \in Steady(form)
    PROVE  \E i \in DOMAIN form.order :
               /\ SteadyAt(form, i) /\ form.order[i].name = n
               /\ n \in Names(form) /\ form.at[n] = form.order[i]
  <1>1. PICK i \in DOMAIN form.order : SteadyAt(form, i) /\ form.order[i].name = n
    BY DEF Steady
  <1>2. Untouched(form, i)
    BY <1>1 DEF SteadyAt, Undisturbed
  <1>3. n \in Names(form) /\ form.at[n] = form.order[i]
    BY <1>1, <1>2, FieldAt
  <1> QED BY <1>1, <1>3

\* The condition c of field i is on field j.
On(form, i, c, j) ==
    /\ c \in form.order[i].when
    /\ j \in 1 .. i - 1 /\ form.order[j].name = c[1] /\ form.order[j].when \subseteq form.order[i].when
    /\ Undisturbed(form, j) /\ Quiet(form.order[j]) = {}
    /\ \A b \in form.order[j].blank : b \in c[2] <=> form.order[j].none \in c[2]
    /\ \A x \in form.order[j].when : x[2] = {} \/ \E h \in 1 .. j - 1 : form.order[h].name = x[1]

LEMMA ConditionIsOn ==
    ASSUME NEW form, NEW i, SteadyAt(form, i), NEW c \in form.order[i].when, c[2] # {}
    PROVE  \E j : On(form, i, c, j)
  <1>1. Relies(form, i, c)
    BY DEF SteadyAt
  <1>2. c # <<form.order[i].name, {}>>
    OBVIOUS
  <1> QED BY <1>1, <1>2 DEF Relies, On

\* Its field, and no other field of that name.
LEMMA ConditionField ==
    ASSUME NEW form, Worded(form), NEW i \in DOMAIN form.order, NEW c, NEW j, On(form, i, c, j)
    PROVE  /\ j \in DOMAIN form.order /\ c[1] \in Names(form) /\ form.at[c[1]] = form.order[j]
           /\ \A h \in DOMAIN form.order : form.order[h].name = c[1] => h = j
  <1>1. j \in DOMAIN form.order
    BY RowsOfForm DEF On
  <1>2. Untouched(form, j) /\ form.order[j].name = c[1]
    BY DEF On, Undisturbed
  <1>3. c[1] \in Names(form) /\ form.at[c[1]] = form.order[j]
    BY <1>1, <1>2, FieldAt
  <1>4. \A h \in DOMAIN form.order : form.order[h].name = c[1] => h = j
    BY <1>2 DEF Untouched
  <1> QED BY <1>1, <1>3, <1>4

\* Of the conditions that fail, the one on the first field: this field is there.
LEMMA FirstFailing ==
    ASSUME NEW form, Worded(form), NEW i \in DOMAIN form.order, SteadyAt(form, i),
           NEW s, ~Hold(form.order[i].when, s), \A c \in form.order[i].when : c[2] # {}
    PROVE  \E c, j : On(form, i, c, j) /\ s[c[1]] \notin c[2] /\ Hold(form.order[j].when, s)
  <1> DEFINE J == {j \in Nat : \E c : On(form, i, c, j) /\ s[c[1]] \notin c[2]}
  <1>1. J # {}
    <2>1. PICK c \in form.order[i].when : s[c[1]] \notin c[2]
      BY DEF Hold
    <2>2. PICK j : On(form, i, c, j)
      BY ConditionIsOn
    <2>3. j \in Nat
      BY <2>2 DEF On
    <2> QED BY <2>1, <2>2, <2>3
  <1>2. PICK m \in J : \A k \in J : m <= k
    BY <1>1, LeastExists
  <1>3. PICK c : On(form, i, c, m) /\ s[c[1]] \notin c[2]
    BY <1>2
  <1>4. Hold(form.order[m].when, s)
    <2> SUFFICES ASSUME NEW x \in form.order[m].when, s[x[1]] \notin x[2] PROVE FALSE
      BY DEF Hold
    <2>1. x \in form.order[i].when /\ x[2] # {}
      BY <1>3 DEF On
    <2>2. PICK j : On(form, i, x, j)
      BY <2>1, ConditionIsOn
    <2>3. PICK h \in 1 .. m - 1 : form.order[h].name = x[1]
      BY <1>3, <2>1 DEF On
    <2>4. m \in Nat /\ m \in DOMAIN form.order
      BY <1>2, <1>3, ConditionField
    <2>5. h \in DOMAIN form.order /\ h \in Nat /\ ~(m <= h)
      BY <2>3, <2>4, RowsOfForm
    <2>6. h = j
      BY <2>2, <2>3, <2>5, ConditionField
    <2>7. h \in J
      BY <2>2, <2>5, <2>6
    <2> QED BY <1>2, <2>5, <2>7
  <1> QED BY <1>3, <1>4

\* Conditions that hold in the end, of a field that steady field i may need, held
\* when that field was read.
LEMMA HeldBefore ==
    ASSUME NEW form, Worded(form), NEW s, IsState(form, s), NEW d, NEW g, ReadsBy(form, s, d, g),
           NEW i \in DOMAIN form.order, SteadyAt(form, i),
           NEW k \in DOMAIN form.order, form.order[k].when \subseteq form.order[i].when,
           \A x \in form.order[k].when : x[2] = {} \/ \E h \in 1 .. k - 1 : form.order[h].name = x[1],
           Hold(form.order[k].when, g[Len(form.order)])
    PROVE  Hold(form.order[k].when, g[k - 1])
  <1> DEFINE n == Len(form.order)
             r == g[n]
             before == g[k - 1]
  <1>1. n \in Nat /\ DOMAIN form.order = 1 .. n
    BY RowsOfForm
  <1> SUFFICES ASSUME NEW x \in form.order[k].when PROVE before[x[1]] \in x[2]
    BY DEF Hold
  <1>2. r[x[1]] \in x[2] /\ x[2] # {} /\ x \in form.order[i].when
    BY DEF Hold
  <1>3. PICK h \in 1 .. k - 1 : form.order[h].name = x[1]
    BY <1>2
  <1>4. PICK j : On(form, i, x, j)
    BY <1>2, ConditionIsOn
  <1>5. h \in DOMAIN form.order /\ n \in h .. n /\ k - 1 \in h .. n
    BY <1>1, <1>3
  <1>6. Untouched(form, h)
    <2>1. h = j
      BY <1>3, <1>4, <1>5, ConditionField
    <2> QED BY <1>4, <2>1 DEF On, Undisturbed
  <1>7. Same(form, h, g[n], g[h]) /\ Same(form, h, g[k - 1], g[h])
    BY <1>5, <1>6, Stays
  <1>8. before[x[1]] = r[x[1]]
    BY <1>3, <1>7 DEF Same
  <1> QED BY <1>2, <1>8

\* A condition on a field that is there, and that the form does not alter, holds if
\* the description meets it.
LEMMA ConditionRead ==
    ASSUME NEW form, Worded(form), NEW s, IsState(form, s), NEW d, NEW g, ReadsBy(form, s, d, g),
           NEW i \in DOMAIN form.order, SteadyAt(form, i), NEW c, NEW j, On(form, i, c, j),
           ~Uncertain(form, d, c), NEW r, r = g[Len(form.order)], Hold(form.order[j].when, r)
    PROVE  r[c[1]] \in c[2] <=> Meets(form, d, c)
  <1> DEFINE n == Len(form.order)
  <1>1. n \in Nat /\ DOMAIN form.order = 1 .. n
    BY RowsOfForm
  <1>2. /\ j \in DOMAIN form.order /\ c[1] \in Names(form)
        /\ form.at[c[1]] = form.order[j] /\ form.order[j].name = c[1]
    <2>1. j \in DOMAIN form.order /\ c[1] \in Names(form) /\ form.at[c[1]] = form.order[j]
      BY ConditionField
    <2>2. form.order[j].name = c[1]
      BY DEF On
    <2> QED BY <2>1, <2>2
  <1>3. Hold(form.order[j].when, g[j - 1])
    <2>1. /\ form.order[j].when \subseteq form.order[i].when
          /\ \A x \in form.order[j].when : x[2] = {} \/ \E h \in 1 .. j - 1 : form.order[h].name = x[1]
      BY DEF On
    <2> QED BY <1>2, <2>1, HeldBefore
  <1>4. ~Odd(form, d, form.order[j].name)
    BY <1>2 DEF Uncertain
  <1>5. Untouched(form, j) /\ n \in j .. n
    BY <1>1, <1>2 DEF On, Undisturbed
  <1>6. Took(form, j, d, g[n])
    BY <1>2, <1>3, <1>4, <1>5, IsReadAt
  <1> QED BY <1>2, <1>6 DEF Took, Meets

\* What is altered whatever the form would write.
LEMMA OddIsAltered ==
    ASSUME NEW form, NEW d, NEW n, Odd(form, d, n), NEW would, NEW s
    PROVE  Altered(form.at[n], d[n], would, s)
  BY DEF Odd, Altered

\* Read, a steady field would write what was read, but for what the form is known to
\* alter.
LEMMA ReadAgrees ==
    ASSUME NEW form, Worded(form), NEW s, IsState(form, s), NEW d, DescribesSteady(form, d),
           NEW n \in Steady(form)
    PROVE  AgreesAt(form, Read(form, s, d), d, n)
  <1>1. PICK i \in DOMAIN form.order : /\ SteadyAt(form, i) /\ form.order[i].name = n
                                       /\ n \in Names(form) /\ form.at[n] = form.order[i]
    BY SteadyIs
  <1>2. PICK g : ReadsBy(form, s, d, g)
    BY ReadSteps
  <1> DEFINE f == form.order[i]
             r == Read(form, s, d)
  <1>3. r = g[Len(form.order)]
    BY <1>2 DEF ReadsBy
  <1>4. DescribesAt(form, d, n) /\ Untouched(form, i) /\ f.any = {}
    BY <1>1 DEF DescribesSteady, SteadyAt, Undisturbed
  <1> HIDE DEF r
  <1>5. CASE Odd(form, d, n)
    BY <1>5, OddIsAltered DEF AgreesAt, r
  <1>6. CASE \E c \in f.when : Uncertain(form, d, c)
    <2>1. PICK c \in f.when : c[1] \in Names(form) /\ Odd(form, d, c[1])
      BY <1>6 DEF Uncertain
    <2>2. Altered(form.at[c[1]], d[c[1]], WriteField(form.at[c[1]], r), r)
      BY <2>1, OddIsAltered
    <2> QED BY <1>1, <2>1, <2>2 DEF AgreesAt, r
  <1>7. CASE ~Odd(form, d, n) /\ \A c \in f.when : ~Uncertain(form, d, c)
    <2>1. ASSUME NEW c, NEW j, On(form, i, c, j), Hold(form.order[j].when, r)
          PROVE  r[c[1]] \in c[2] <=> Meets(form, d, c)
      <3>1. ~Uncertain(form, d, c)
        BY <1>7, <2>1 DEF On
      <3> QED BY <1>1, <1>2, <1>3, <2>1, <3>1, ConditionRead
    <2>2. d[n] # Absent => d[n] \notin f.blank /\ \A c \in f.when : Meets(form, d, c)
      BY <1>1, <1>4, <1>7 DEF DescribesAt
    <2>3. d[n] = Absent => f.none \in f.blank \/ \E c \in f.when : ~Meets(form, d, c)
      BY <1>1, <1>4, <1>7 DEF DescribesAt
    <2>4. WriteField(form.at[n], r) = d[n]
      <3>1. CASE Hold(f.when, r)
        <4>1. \A c \in f.when : c[2] # {} /\ r[c[1]] \in c[2]
          BY <3>1 DEF Hold
        <4>2. \A x \in f.when : x[2] = {} \/ \E h \in 1 .. i - 1 : form.order[h].name = x[1]
          <5> SUFFICES ASSUME NEW x \in f.when PROVE \E h \in 1 .. i - 1 : form.order[h].name = x[1]
            OBVIOUS
          <5>1. PICK j : On(form, i, x, j)
            BY <1>1, <4>1, ConditionIsOn
          <5> QED BY <5>1 DEF On
        <4>3. Hold(f.when, g[i - 1])
          BY <1>1, <1>2, <1>3, <3>1, <4>2, HeldBefore
        <4>4. Took(form, i, d, r)
          <5>1. Len(form.order) \in i .. Len(form.order)
            BY RowsOfForm
          <5> QED BY <1>1, <1>2, <1>3, <1>4, <1>7, <4>3, <5>1, IsReadAt
        <4>5. r[n] = IF d[n] = Absent THEN f.none ELSE d[n]
          BY <1>1, <4>4 DEF Took
        <4>6. ASSUME NEW c \in f.when PROVE Meets(form, d, c)
          <5>1. PICK j : On(form, i, c, j)
            BY <1>1, <4>1, ConditionIsOn
          <5>2. Hold(form.order[j].when, r)
            BY <3>1, <5>1 DEF On, Hold
          <5> QED BY <2>1, <4>1, <5>1, <5>2
        <4>7. WriteField(f, r) = IF r[n] \notin f.blank THEN r[n] ELSE Absent
          BY <1>1, <1>4, <3>1 DEF WriteField
        <4> QED BY <1>1, <2>2, <2>3, <4>5, <4>6, <4>7
      <3>2. CASE ~Hold(f.when, r)
        <4>1. WriteField(f, r) = Absent
          BY <3>2 DEF WriteField
        <4>2. d[n] = Absent
          <5> SUFFICES ASSUME d[n] # Absent PROVE FALSE
            OBVIOUS
          <5>1. \A c \in f.when : Meets(form, d, c) /\ c[2] # {}
            BY <2>2 DEF Meets
          <5>2. PICK c, j : On(form, i, c, j) /\ r[c[1]] \notin c[2] /\ Hold(form.order[j].when, r)
            BY <1>1, <3>2, <5>1, FirstFailing
          <5> QED BY <2>1, <5>1, <5>2 DEF On
        <4> QED BY <1>1, <4>1, <4>2
      <3> QED BY <3>1, <3>2
    <2> QED BY <2>4 DEF AgreesAt, r
  <1> QED BY <1>5, <1>6, <1>7

\* What a form writes describes its steady fields.
LEMMA WriteDescribesSteady ==
    ASSUME NEW form, Worded(form), NEW s, IsState(form, s)
    PROVE  DescribesSteady(form, Write(form, s))
  <1> DEFINE d == Write(form, s)
  <1>1. ASSUME NEW m \in Names(form) PROVE d[m] = WriteField(form.at[m], s)
    BY DEF Write
  <1> HIDE DEF d
  <1> SUFFICES ASSUME NEW n \in Steady(form) PROVE DescribesAt(form, d, n)
    BY DEF DescribesSteady, d
  <1>2. PICK i \in DOMAIN form.order : /\ SteadyAt(form, i) /\ form.order[i].name = n
                                       /\ n \in Names(form) /\ form.at[n] = form.order[i]
    BY SteadyIs
  <1> DEFINE f == form.order[i]
  <1>3. /\ f.any = {} /\ (f.blank = {} \/ f.none \in f.blank)
        /\ d[n] = WriteField(f, s) /\ s[n] # Absent
    BY <1>1, <1>2 DEF SteadyAt, Undisturbed, IsState
  \* A condition on a field that is there is met if it holds.
  <1>4. ASSUME NEW c, NEW j, On(form, i, c, j), Hold(form.order[j].when, s)
        PROVE  s[c[1]] \in c[2] <=> Meets(form, d, c)
    <2> DEFINE h == form.order[j]
               v == s[c[1]]
    <2>1. c[1] \in Names(form) /\ form.at[c[1]] = h
      BY <1>2, <1>4, ConditionField
    <2>2. /\ h.name = c[1] /\ h.any = {}
          /\ \A b \in h.blank : b \in c[2] <=> h.none \in c[2]
      BY <1>4 DEF On, Undisturbed
    <2>3. v # Absent
      BY <2>1 DEF IsState
    <2>4. d[c[1]] = IF v \notin h.blank THEN v ELSE Absent
      BY <1>1, <1>4, <2>1, <2>2 DEF WriteField
    <2>5. Meets(form, d, c) <=> (IF d[c[1]] = Absent THEN h.none ELSE d[c[1]]) \in c[2]
      BY <2>1 DEF Meets
    <2> QED BY <2>2, <2>3, <2>4, <2>5
  <1>5. CASE Hold(f.when, s)
    <2>1. d[n] = IF s[n] \notin f.blank THEN s[n] ELSE Absent
      BY <1>2, <1>3, <1>5 DEF WriteField
    <2>2. ASSUME NEW c \in f.when PROVE Meets(form, d, c)
      <3>1. s[c[1]] \in c[2]
        BY <1>5 DEF Hold
      <3>2. PICK j : On(form, i, c, j)
        BY <1>2, <3>1, ConditionIsOn
      <3>3. Hold(form.order[j].when, s)
        BY <1>5, <3>2 DEF On, Hold
      <3> QED BY <1>4, <3>1, <3>2, <3>3
    <2> QED BY <1>2, <1>3, <2>1, <2>2 DEF DescribesAt
  <1>6. CASE ~Hold(f.when, s)
    <2>1. d[n] = Absent
      BY <1>3, <1>6 DEF WriteField
    <2>2. \E c \in f.when : ~Meets(form, d, c)
      <3>1. CASE \E c \in f.when : c[2] = {}
        BY <3>1 DEF Meets
      <3>2. CASE \A c \in f.when : c[2] # {}
        <4>1. PICK c, j : On(form, i, c, j) /\ s[c[1]] \notin c[2] /\ Hold(form.order[j].when, s)
          BY <1>2, <1>6, <3>2, FirstFailing
        <4>2. ~Meets(form, d, c) /\ c \in f.when
          BY <1>4, <4>1 DEF On
        <4> QED BY <4>2
      <3> QED BY <3>1, <3>2
    <2> QED BY <1>2, <2>1, <2>2 DEF DescribesAt
  <1> QED BY <1>5, <1>6

\* A field without unsignalled changes that is a condition of another is altered only
\* for what the description has.
LEMMA AlteredIsOdd ==
    ASSUME NEW form, NEW d, NEW n, Quiet(form.at[n]) = {}, form.at[n].stray = {},
           NEW would, NEW s
    PROVE  Altered(form.at[n], d[n], would, s) <=> Odd(form, d, n)
  BY DEF Altered, Odd, Quiet

\* A change that is not signalled keeps what a steady field would write, but for what
\* the form is known to alter.
LEMMA QuietAgrees ==
    ASSUME NEW form, Worded(form), NEW s, IsState(form, s), NEW t, IsState(form, t),
           ~Told(form, s, t), NEW d, NEW n \in Steady(form), AgreesAt(form, s, d, n)
    PROVE  AgreesAt(form, t, d, n)
  <1>1. PICK i \in DOMAIN form.order : /\ SteadyAt(form, i) /\ form.order[i].name = n
                                       /\ n \in Names(form) /\ form.at[n] = form.order[i]
    BY SteadyIs
  <1> DEFINE f == form.order[i]
             ws == WriteField(f, s)
             wt == WriteField(f, t)
  <1>2. /\ f.any = {} /\ f.stray = {}
        /\ Quiet(f) \cap f.blank = {} /\ (f.mute = {} \/ f.silent = {})
    BY <1>1 DEF SteadyAt, Undisturbed
  <1>3. \A m \in Names(form) :
            s[m] = t[m] \/ t[m] \in form.at[m].silent \/ {s[m], t[m]} \subseteq form.at[m].mute
    BY DEF Told
  \* Conditions that may hold stay as they are.
  <1>4. ASSUME NEW c \in f.when, c[2] # {}
        PROVE  s[c[1]] = t[c[1]] /\ c[1] \in Names(form) /\ Quiet(form.at[c[1]]) = {} /\ form.at[c[1]].stray = {}
    <2>1. PICK j : On(form, i, c, j)
      BY <1>1, <1>4, ConditionIsOn
    <2>2. c[1] \in Names(form) /\ form.at[c[1]] = form.order[j]
      BY <1>1, <2>1, ConditionField
    <2>3. Quiet(form.order[j]) = {} /\ form.order[j].stray = {}
      BY <2>1 DEF On, Undisturbed
    <2>4. form.at[c[1]].silent = {} /\ form.at[c[1]].mute = {}
      BY <2>2, <2>3 DEF Quiet
    <2> QED BY <1>3, <2>2, <2>3, <2>4
  <1>5. Hold(f.when, s) <=> Hold(f.when, t)
    BY <1>4 DEF Hold
  <1>6. ASSUME ws # wt PROVE Hold(f.when, s) /\ Hold(f.when, t) /\ s[n] # t[n]
    BY <1>1, <1>2, <1>5, <1>6 DEF WriteField
  <1>7. ASSUME ws # wt
        PROVE  \/ wt = t[n] /\ t[n] \in f.silent
               \/ wt = t[n] /\ ws = s[n] /\ {s[n], t[n]} \subseteq f.mute
    <2>1. Hold(f.when, s) /\ Hold(f.when, t) /\ s[n] # t[n]
      BY <1>6, <1>7
    <2>2. /\ ws = IF s[n] \notin f.blank THEN s[n] ELSE Absent
          /\ wt = IF t[n] \notin f.blank THEN t[n] ELSE Absent
      BY <1>1, <1>2, <2>1 DEF WriteField
    <2>3. t[n] \in f.silent \/ {s[n], t[n]} \subseteq f.mute
      BY <1>1, <1>3, <2>1
    <2> QED BY <1>2, <2>2, <2>3 DEF Quiet
  <1> DEFINE as == Altered(f, d[n], ws, s)
             at == Altered(f, d[n], wt, t)
  <1> HIDE DEF ws, wt
  <1>8. as => at
    <2>1. CASE ws = wt
      BY <1>2, <2>1 DEF Altered
    <2>2. CASE ws # wt
      BY <1>2, <1>7, <2>2 DEF Altered
    <2> QED BY <2>1, <2>2
  <1>9. CASE ws = d[n]
    <2>1. wt = d[n] \/ at
      BY <1>2, <1>7, <1>9 DEF Altered
    <2> QED BY <1>1, <2>1 DEF AgreesAt, wt
  <1>10. CASE as
    BY <1>1, <1>8, <1>10 DEF AgreesAt, wt
  <1>11. CASE \E c \in f.when : /\ c[1] \in Names(form)
                                /\ Altered(form.at[c[1]], d[c[1]], WriteField(form.at[c[1]], s), s)
    <2>1. PICK c \in f.when : /\ c[1] \in Names(form)
                              /\ Altered(form.at[c[1]], d[c[1]], WriteField(form.at[c[1]], s), s)
      BY <1>11
    <2>2. CASE c[2] # {}
      <3>1. Odd(form, d, c[1])
        BY <1>4, <2>1, <2>2, AlteredIsOdd
      <3>2. Altered(form.at[c[1]], d[c[1]], WriteField(form.at[c[1]], t), t)
        BY <3>1, OddIsAltered
      <3> QED BY <1>1, <2>1, <3>2 DEF AgreesAt
    <2>3. CASE c[2] = {}
      <3>1. ~Hold(f.when, s) /\ ~Hold(f.when, t)
        BY <2>3 DEF Hold
      <3>2. Relies(form, i, c)
        BY <1>1 DEF SteadyAt
      <3>3. CASE c[1] = n
        <4>1. as
          BY <1>1, <2>1, <3>3 DEF ws
        <4> QED BY <1>10, <4>1
      <3>4. CASE c[1] # n
        <4>1. PICK j : On(form, i, c, j)
          BY <1>1, <3>2, <3>4 DEF Relies, On
        <4>2. form.at[c[1]] = form.order[j]
          BY <1>1, <4>1, ConditionField
        <4>3. Quiet(form.at[c[1]]) = {} /\ form.at[c[1]].stray = {}
          BY <4>1, <4>2 DEF On, Undisturbed
        <4>4. Odd(form, d, c[1])
          BY <2>1, <4>3, AlteredIsOdd
        <4>5. Altered(form.at[c[1]], d[c[1]], WriteField(form.at[c[1]], t), t)
          BY <4>4, OddIsAltered
        <4> QED BY <1>1, <2>1, <4>5 DEF AgreesAt
      <3> QED BY <3>3, <3>4
    <2> QED BY <2>2, <2>3
  <1>12. (ws = d[n]) \/ as \/ \E c \in f.when : /\ c[1] \in Names(form)
                                /\ Altered(form.at[c[1]], d[c[1]], WriteField(form.at[c[1]], s), s)
    BY <1>1, <1>2 DEF AgreesAt, ws
  <1> QED BY <1>9, <1>10, <1>11, <1>12

\* What would be written only matters for a steady field.
LEMMA AgreesAsWritten ==
    ASSUME NEW form, Worded(form), NEW s, NEW t,
           \A m \in Names(form) : WriteField(form.at[m], s) = WriteField(form.at[m], t),
           NEW d, NEW n \in Steady(form), AgreesAt(form, s, d, n)
    PROVE  AgreesAt(form, t, d, n)
  <1>1. PICK i \in DOMAIN form.order : /\ SteadyAt(form, i) /\ form.order[i].name = n
                                       /\ n \in Names(form) /\ form.at[n] = form.order[i]
    BY SteadyIs
  <1> DEFINE f == form.at[n]
  <1>2. f.any = {} /\ f.stray = {}
    BY <1>1 DEF SteadyAt, Undisturbed
  <1>3. ASSUME NEW m \in Names(form), form.at[m].stray = {},
               Altered(form.at[m], d[m], WriteField(form.at[m], s), s)
        PROVE  Altered(form.at[m], d[m], WriteField(form.at[m], t), t)
    BY <1>3 DEF Altered
  <1>4. ASSUME NEW c \in f.when PROVE c[1] \in Names(form) => form.at[c[1]].stray = {}
    <2>1. Relies(form, i, c)
      BY <1>1 DEF SteadyAt
    <2>2. CASE c = <<f.name, {}>>
      BY <1>1, <1>2, <2>2
    <2>3. CASE c # <<f.name, {}>>
      <3>1. PICK j : On(form, i, c, j)
        BY <1>1, <2>1, <2>3 DEF Relies, On
      <3>2. form.at[c[1]] = form.order[j]
        BY <1>1, <3>1, ConditionField
      <3> QED BY <3>1, <3>2 DEF On, Undisturbed
    <2> QED BY <2>2, <2>3
  <1>5. WriteField(f, s) = WriteField(f, t)
    BY <1>1
  <1>6. \/ WriteField(f, s) = d[n]
        \/ Altered(f, d[n], WriteField(f, s), s)
        \/ \E c \in f.when : c[1] \in Names(form) /\ Altered(form.at[c[1]], d[c[1]], WriteField(form.at[c[1]], s), s)
    BY <1>2 DEF AgreesAt
  <1>7. \/ WriteField(f, t) = d[n]
        \/ Altered(f, d[n], WriteField(f, t), t)
        \/ \E c \in f.when : c[1] \in Names(form) /\ Altered(form.at[c[1]], d[c[1]], WriteField(form.at[c[1]], t), t)
    BY <1>1, <1>2, <1>3, <1>4, <1>5, <1>6
  <1> QED BY <1>7 DEF AgreesAt

LEMMA AlikeDescribes ==
    ASSUME NEW form, NEW other, Worded(other), Alike(form, other), NEW d, Describes(form, d)
    PROVE  Describes(other, d)
  <1> SUFFICES ASSUME NEW n \in Steady(other) PROVE DescribesAt(other, d, n)
    BY DEF Describes, DescribesSteady, Alike
  <1>1. n \in Steady(form) /\ DescribesAt(form, d, n) /\ Names(form) = Names(other)
    BY DEF Describes, DescribesSteady, Alike
  <1>2. \A m \in Names(other) : AlikeAt(form.at[m], other.at[m])
    BY DEF Alike
  <1>3. \A m \in Names(other) : Odd(form, d, m) <=> Odd(other, d, m)
    BY <1>2 DEF Odd, AlikeAt
  <1>4. \A c : Meets(form, d, c) <=> Meets(other, d, c)
    BY <1>1, <1>2 DEF Meets, AlikeAt
  <1>5. \A c : Uncertain(form, d, c) <=> Uncertain(other, d, c)
    BY <1>1, <1>3 DEF Uncertain
  <1>6. n \in Names(other)
    BY SteadyIs
  <1>7. AlikeAt(form.at[n], other.at[n])
    BY <1>2, <1>6
  <1> QED BY <1>1, <1>3, <1>4, <1>5, <1>6, <1>7 DEF DescribesAt, AlikeAt
----------------------------------------------------------------------------
(* What a form shows.                                                      *)

LEMMA FirstIsState ==
    ASSUME NEW form, Worded(form)
    PROVE  IsState(form, First(form))
  <1> SUFFICES ASSUME NEW n \in Names(form) PROVE First(form)[n] # Absent
    BY DEF IsState, First
  <1>1. PICK i \in DOMAIN form.order : form.order[i].name = n /\ form.at[n] = form.order[i]
    BY AtIs
  <1>2. WordedField(form.order[i])
    BY DEF Worded
  <1> QED BY <1>1, <1>2 DEF First, WordedField

LEMMA ReadIsState ==
    ASSUME NEW form, Worded(form), NEW s, IsState(form, s), NEW d
    PROVE  IsState(form, Read(form, s, d))
  <1>1. PICK g : ReadsBy(form, s, d, g)
    BY ReadSteps
  <1>2. Len(form.order) \in 0 .. Len(form.order)
    BY RowsOfForm
  <1>3. IsState(form, g[Len(form.order)])
    BY <1>1, <1>2, ReadsStates
  <1> QED BY <1>1, <1>3 DEF ReadsBy

LEMMA EditIs ==
    ASSUME NEW form, NEW s, NEW e \in Edits(form, s)
    PROVE  \E n \in Names(form) :
               /\ e[1] = form.at[n] /\ e[2] \in Values(form.at[n])
               /\ ~form.at[n].fixed /\ Hold(form.at[n].seen, s)
  <1> DEFINE free == {m \in Names(form) : ~form.at[m].fixed /\ Hold(form.at[m].seen \cup form.at[m].able, s)}
  <1>1. PICK f \in {form.at[n] : n \in free} : e \in {f} \X (Values(f) \ {s[f.name]})
    BY Zenon DEF Edits
  <1>2. PICK n \in free : f = form.at[n]
    <2> HIDE DEF free
    <2> QED BY <1>1
  <1>3. n \in Names(form) /\ ~form.at[n].fixed /\ Hold(form.at[n].seen, s)
    BY DEF Hold
  <1> QED BY <1>1, <1>2, <1>3

LEMMA PickIsState ==
    ASSUME NEW form, Worded(form), NEW s, IsState(form, s), NEW e \in Edits(form, s)
    PROVE  IsState(form, Pick(s, e[1], e[2]))
  <1>1. PICK n \in Names(form) : e[1] = form.at[n] /\ e[2] \in Values(form.at[n])
    BY EditIs
  <1>2. PICK i \in DOMAIN form.order : form.at[n] = form.order[i]
    BY AtIs
  <1>3. e[2] # Absent
    BY <1>1, <1>2 DEF Worded, WordedField
  <1> QED BY <1>1, <1>2, <1>3, PickKeeps

LEMMA SettledIsState ==
    ASSUME NEW form, Worded(form), NEW s, IsState(form, s)
    PROVE  IsState(form, Settled(form, s))
  <1>1. CASE LateFields(form) = {}
    BY <1>1 DEF Settled
  <1>2. CASE LateFields(form) # {}
    <2> DEFINE f == CHOOSE g \in LateFields(form) : TRUE
               v == CHOOSE u \in f.late : TRUE
    <2>1. f \in LateFields(form)
      BY <1>2
    <2>2. PICK n \in Names(form) : f = form.at[n] /\ f.late # {}
      BY <2>1 DEF LateFields
    <2>3. v \in f.late
      BY <2>2
    <2>4. PICK i \in DOMAIN form.order : f = form.order[i]
      BY <2>2, AtIs
    <2>5. Settled(form, s) = Change(s, f, v)
      BY <1>2 DEF Settled
    <2> HIDE DEF f, v
    <2>6. v # Absent
      BY <2>3, <2>4 DEF Worded, WordedField
    <2> QED BY <2>4, <2>5, <2>6, ChangeKeeps
  <1> QED BY <1>1, <1>2

----------------------------------------------------------------------------
(* Guarded fields are blank unless they may be written.                    *)

\* Slots of a form, and what they leave of a field.
Rows(trips) == \E k \in Nat : DOMAIN trips \subseteq 1 .. k

\* Slots that are the same where they set n when it gets v.
Alikes(trips, other, v, n) ==
    /\ {i \in DOMAIN trips : trips[i][1] = v /\ trips[i][2] = n}
           = {i \in DOMAIN other : other[i][1] = v /\ other[i][2] = n}
    /\ \A i \in DOMAIN other : other[i][1] = v /\ other[i][2] = n => trips[i] = other[i]

LEMMA AfterAlike ==
    ASSUME NEW trips, NEW other, Rows(other), NEW v, NEW n, NEW was, Alikes(trips, other, v, n)
    PROVE  After(trips, v, n, was) = After(other, v, n, was)
  <1> DEFINE A == {i \in DOMAIN trips : trips[i][1] = v /\ trips[i][2] = n}
             B == {i \in DOMAIN other : other[i][1] = v /\ other[i][2] = n}
  <1>1. /\ After(trips, v, n, was) = IF A = {} THEN was ELSE trips[Max(A)][3]
        /\ After(other, v, n, was) = IF B = {} THEN was ELSE other[Max(B)][3]
    BY Zenon DEF After
  <1>2. A = B /\ \A i \in B : trips[i] = other[i]
    BY DEF Alikes
  <1>3. PICK k \in Nat : DOMAIN other \subseteq 1 .. k
    BY DEF Rows
  <1>4. B \subseteq 1 .. k
    BY <1>3
  <1> HIDE DEF A, B
  <1>5. CASE B = {}
    BY <1>1, <1>2, <1>5
  <1>6. CASE B # {}
    <2>1. Max(B) \in B
      BY <1>3, <1>4, <1>6, MaxOfSome
    <2>2. trips[Max(B)] = other[Max(B)]
      BY <1>2, <2>1
    <2>3. Max(A) = Max(B)
      BY <1>2
    <2> QED BY <1>1, <1>2, <1>6, <2>2, <2>3
  <1> QED BY <1>5, <1>6

LEMMA AfterApply ==
    ASSUME NEW trips, NEW s, NEW v, NEW n \in DOMAIN s
    PROVE  Apply(trips, s, v)[n] = After(trips, v, n, s[n])
  <1> DEFINE runs == {i \in DOMAIN trips : trips[i][1] = v}
             to(m) == {i \in runs : trips[i][2] = m}
             t == [m \in DOMAIN s |-> IF to(m) = {} THEN s[m] ELSE trips[Max(to(m))][3]]
  <1>1. Apply(trips, s, v) = IF runs = {} THEN s ELSE t
    BY Zenon DEF Apply
  <1>2. to(n) = {i \in DOMAIN trips : trips[i][1] = v /\ trips[i][2] = n}
    OBVIOUS
  <1>3. After(trips, v, n, s[n]) = IF to(n) = {} THEN s[n] ELSE trips[Max(to(n))][3]
    BY <1>2, Zenon DEF After
  <1>4. t[n] = After(trips, v, n, s[n])
    BY <1>3
  <1>5. runs = {} => to(n) = {}
    OBVIOUS
  <1> HIDE DEF runs, to, t
  <1> QED BY <1>1, <1>3, <1>4, <1>5

LEMMA AfterIsKnown ==
    ASSUME NEW trips, Rows(trips), NEW v, NEW n, NEW V, NEW was \in V,
           \A k \in DOMAIN trips : trips[k][2] = n => trips[k][3] \in V
    PROVE  After(trips, v, n, was) \in V
  <1> DEFINE to == {i \in DOMAIN trips : trips[i][1] = v /\ trips[i][2] = n}
  <1>1. CASE to = {}
    BY <1>1 DEF After
  <1>2. CASE to # {}
    <2>1. PICK k \in Nat : DOMAIN trips \subseteq 1 .. k
      BY DEF Rows
    <2>2. Max(to) \in to
      BY <1>2, <2>1, MaxOfSome
    <2>3. After(trips, v, n, was) = trips[Max(to)][3]
      BY <1>2 DEF After
    <2> DEFINE x == Max(to)
    <2>4. x \in to /\ After(trips, v, n, was) = trips[x][3]
      BY <2>2, <2>3
    <2> HIDE DEF x
    <2> QED BY <2>4
  <1> QED BY <1>1, <1>2

\* Nothing happens to a field that no slot of the value sets.
LEMMA AfterNothing ==
    ASSUME NEW trips, NEW v, NEW n, NEW was, \A k \in DOMAIN trips : trips[k][1] = v => trips[k][2] # n
    PROVE  After(trips, v, n, was) = was
  <1> DEFINE to == {i \in DOMAIN trips : trips[i][1] = v /\ trips[i][2] = n}
  <1>1. to = {}
    OBVIOUS
  <1> QED BY <1>1, Zenon DEF After

LEMMA SetRows ==
    ASSUME NEW form, Worded(form), NEW i \in DOMAIN form.order
    PROVE  Rows(form.order[i].sets) /\ Rows(form.order[i].picks)
  <1> DEFINE f == form.order[i]
  <1>1. /\ Len(f.sets) \in Nat /\ DOMAIN f.sets = 1 .. Len(f.sets)
        /\ Len(f.picks) \in Nat /\ DOMAIN f.picks = 1 .. Len(f.picks)
    BY DEF Worded, WordedField
  <1> QED BY <1>1 DEF Rows

\* Field n once field f has got v.
Gets(f, v, s, n) == IF f.name = n THEN v ELSE s[n]

\* What a change makes of a field all whose setters are unconditional.
LEMMA ChangeIs ==
    ASSUME NEW form, Worded(form), NEW n, Known(form, n), NEW i \in DOMAIN form.order,
           NEW s, IsState(form, s), n \in Names(form), NEW v, s[form.order[i].name] # v
    PROVE  Change(s, form.order[i], v)[n] = After(form.order[i].sets, v, n, Gets(form.order[i], v, s, n))
  <1> DEFINE f == form.order[i]
             runs == {k \in DOMAIN f.sets : Len(f.sets[k]) = 3 \/ ~Hold(f.sets[k][4], s)}
             trips == [k \in runs |-> f.sets[k]]
             t == [s EXCEPT ![f.name] = v]
  <1>1. Change(s, f, v) = Apply(trips, t, v)
    BY DEF Change
  <1>2. n \in DOMAIN t /\ t[n] = Gets(f, v, s, n)
    BY NamesAre DEF IsState, Gets
  <1>3. Alikes(trips, f.sets, v, n)
    <2>1. \A k \in DOMAIN f.sets : f.sets[k][2] = n => k \in runs
      BY DEF Known
    <2>2. DOMAIN trips = runs /\ runs \subseteq DOMAIN f.sets /\ \A k \in runs : trips[k] = f.sets[k]
      OBVIOUS
    <2> HIDE DEF trips, runs
    <2> QED BY <2>1, <2>2 DEF Alikes
  <1>4. Rows(f.sets)
    BY SetRows
  <1> HIDE DEF trips, t, f
  <1>5. After(trips, v, n, t[n]) = After(f.sets, v, n, t[n])
    BY <1>3, <1>4, AfterAlike
  <1>6. Apply(trips, t, v)[n] = After(trips, v, n, t[n])
    BY <1>2, AfterApply
  <1> QED BY <1>1, <1>2, <1>5, <1>6 DEF f

\* A field of which there is one only.
LEMMA KnownAt ==
    ASSUME NEW form, Worded(form), NEW n \in Names(form), Known(form, n),
           NEW i \in DOMAIN form.order, form.order[i].name = n
    PROVE  form.at[n] = form.order[i]
  <1>1. PICK j \in DOMAIN form.order : form.order[j].name = n /\ form.at[n] = form.order[j]
    BY AtIs
  <1>2. i = j
    BY <1>1 DEF Known
  <1> QED BY <1>1, <1>2

\* The field is changed by what the condition allows.
Permitted(form, c, m, i, s, v) ==
    LET f == form.order[i]
    IN /\ f.name = c[1] => v \in Values(form.at[c[1]])
       /\ f.name = m => v \in Values(form.at[m]) /\ Covers(form, c, m, s[c[1]], v)

LEMMA ChangeCovers ==
    ASSUME NEW form, Worded(form), NEW c, NEW m \in Names(form), Guarded(form, c, m),
           NEW s, IsState(form, s), ShownAt(form, c, m, s),
           NEW i \in DOMAIN form.order, ~Idle(form.order[i]), NEW v, Permitted(form, c, m, i, s, v)
    PROVE  ShownAt(form, c, m, Change(s, form.order[i], v))
  <1> DEFINE f == form.order[i]
             n == c[1]
             was(k) == Gets(f, v, s, k)
             x == After(f.sets, v, n, was(n))
             y == After(f.sets, v, m, was(m))
             t == Change(s, f, v)
  <1>1. n \in Names(form) /\ n # m /\ Known(form, n) /\ Known(form, m) /\ StaysCovered(form, c, m)
    BY DEF Guarded
  <1>2. /\ s[n] \in Values(form.at[n]) /\ s[m] \in Values(form.at[m])
        /\ Covers(form, c, m, s[n], s[m])
    BY DEF ShownAt
  <1>3. CASE s[f.name] = v
    <2>1. t = s
      BY <1>3 DEF Change
    <2> QED BY <2>1
  <1>4. CASE s[f.name] # v
    <2>1. t[n] = x /\ t[m] = y
      <3>1. ASSUME NEW k \in Names(form), Known(form, k)
            PROVE  t[k] = After(f.sets, v, k, was(k))
        <4>1. s[form.order[i].name] # v
          BY <1>4
        <4>2. Change(s, form.order[i], v)[k] = After(form.order[i].sets, v, k, Gets(form.order[i], v, s, k))
          BY <3>1, <4>1, ChangeIs
        <4> QED BY <4>2
      <3> HIDE DEF t, was, f
      <3> QED BY <1>1, <3>1
    <2>2. was(n) \in Values(form.at[n]) /\ was(m) \in Values(form.at[m])
      BY <1>2 DEF Permitted, Gets
    <2>3. Rows(f.sets)
      BY SetRows
    <2>4. x \in Values(form.at[n]) /\ y \in Values(form.at[m])
      <3>1. /\ \A k \in DOMAIN f.sets : f.sets[k][2] = n => f.sets[k][3] \in Values(form.at[n])
            /\ \A k \in DOMAIN f.sets : f.sets[k][2] = m => f.sets[k][3] \in Values(form.at[m])
        BY <1>1 DEF Known
      <3> HIDE DEF f, was
      <3> QED BY <2>2, <2>3, <3>1, AfterIsKnown DEF f
    <2>5. Covers(form, c, m, x, y)
      <3>1. CASE v \in Causes(f)
        <4>1. f.name = m => Covers(form, c, m, s[n], v)
          BY DEF Permitted
        <4>2. i \in {k \in DOMAIN form.order : ~Idle(form.order[k])}
          OBVIOUS
        <4>3. Covers(form, c, m, After(f.sets, v, n, IF f.name = n THEN v ELSE s[n]),
                                 After(f.sets, v, m, IF f.name = m THEN v ELSE s[m]))
          <5> DEFINE p == s[n]
                     q == s[m]
          <5>1. p \in Values(form.at[c[1]]) /\ q \in Values(form.at[m]) /\ Covers(form, c, m, p, q)
            BY <1>2
          <5>2. f.name = m => Covers(form, c, m, p, v)
            BY <4>1
          <5> HIDE DEF p, q
          <5>3. Covers(form, c, m, After(f.sets, v, c[1], IF f.name = c[1] THEN v ELSE p),
                                   After(f.sets, v, m, IF f.name = m THEN v ELSE q))
            BY <1>1, <3>1, <4>2, <5>1, <5>2 DEF StaysCovered
          <5> QED BY <5>3 DEF p, q
        <4> QED BY <4>3 DEF Gets
      <3>2. CASE v \notin Causes(f)
        <4>1. f.name # n
          <5> SUFFICES ASSUME f.name = n PROVE FALSE
            OBVIOUS
          <5>1. form.at[n] = f
            BY <1>1, KnownAt
          <5> QED BY <3>2, <5>1 DEF Permitted, Causes
        <4>2. f.name # m
          <5> SUFFICES ASSUME f.name = m PROVE FALSE
            OBVIOUS
          <5>1. form.at[m] = f
            BY <1>1, KnownAt
          <5> QED BY <3>2, <5>1 DEF Permitted, Causes
        <4>3. \A k \in DOMAIN f.sets : f.sets[k][1] # v
          BY <3>2 DEF Causes
        <4>4. x = s[n] /\ y = s[m]
          BY <4>1, <4>2, <4>3, AfterNothing DEF Gets
        <4> QED BY <1>2, <4>4
      <3> QED BY <3>1, <3>2
    <2> HIDE DEF t, x, y
    <2>6. ShownAt(form, c, m, t)
      BY <2>1, <2>4, <2>5 DEF ShownAt
    <2> QED BY <2>6 DEF t
  <1> QED BY <1>3, <1>4

\* A choice by the user of what is shown.
LEMMA PickCovers ==
    ASSUME NEW form, Worded(form), NEW c, NEW m \in Names(form), Guarded(form, c, m),
           NEW s, IsState(form, s), ShownAt(form, c, m, s), NEW e \in Edits(form, s)
    PROVE  ShownAt(form, c, m, Pick(s, e[1], e[2]))
  <1>1. PICK k \in Names(form) : /\ e[1] = form.at[k] /\ e[2] \in Values(form.at[k])
                                 /\ ~form.at[k].fixed /\ Hold(form.at[k].seen, s)
    BY EditIs
  <1>2. PICK i \in DOMAIN form.order : form.order[i].name = k /\ form.at[k] = form.order[i]
    BY AtIs
  <1> DEFINE f == form.order[i]
             v == e[2]
             n == c[1]
             t == Change(s, f, v)
  <1>3. ~Idle(f)
    BY <1>1, <1>2 DEF Idle, Hold
  <1>4. /\ n \in Names(form) /\ Known(form, n) /\ Known(form, m) /\ StaysCovered(form, c, m)
        /\ c \in form.at[m].seen \/ form.at[m].fixed
    BY DEF Guarded
  <1>5. Permitted(form, c, m, i, s, v)
    <2>1. f.name = m => s[n] \in c[2]
      BY <1>1, <1>2, <1>4 DEF Hold
    <2> QED BY <1>1, <1>2, <2>1 DEF Permitted, Covers, Allows
  <1>6. ShownAt(form, c, m, t)
    BY <1>3, <1>5, ChangeCovers
  <1>7. IsState(form, t)
    <2>1. v # Absent
      BY <1>1, <1>2 DEF Worded, WordedField
    <2> QED BY <2>1, ChangeKeeps
  <1>8. Pick(s, e[1], e[2]) = Apply(f.picks, t, v)
    BY <1>1, <1>2 DEF Pick
  <1> HIDE DEF t, f, v
  <1> DEFINE x == After(f.picks, v, n, t[n])
             y == After(f.picks, v, m, t[m])
             r == Apply(f.picks, t, v)
  <1>9. r[n] = x /\ r[m] = y
    BY <1>4, <1>7, AfterApply DEF IsState
  <1>10. /\ t[n] \in Values(form.at[n]) /\ t[m] \in Values(form.at[m])
         /\ Covers(form, c, m, t[n], t[m])
    BY <1>6 DEF ShownAt
  <1>11. x \in Values(form.at[n]) /\ y \in Values(form.at[m])
    <2>1. /\ \A j \in DOMAIN f.picks : f.picks[j][2] = n => f.picks[j][3] \in Values(form.at[n])
          /\ \A j \in DOMAIN f.picks : f.picks[j][2] = m => f.picks[j][3] \in Values(form.at[m])
      BY <1>4 DEF Known, f
    <2>2. Rows(f.picks)
      BY SetRows DEF f
    <2> QED BY <1>10, <2>1, <2>2, AfterIsKnown
  <1>12. Covers(form, c, m, x, y)
    <2>1. v \in Causes(f)
      BY <1>1, <1>2 DEF Causes, f, v
    <2> DEFINE p == t[n]
               q == t[m]
    <2>2. p \in Values(form.at[c[1]]) /\ q \in Values(form.at[m]) /\ Covers(form, c, m, p, q)
      BY <1>10
    <2> HIDE DEF p, q
    <2>3. Covers(form, c, m, After(f.picks, v, c[1], p), After(f.picks, v, m, q))
      BY <1>3, <1>4, <2>1, <2>2 DEF StaysCovered, f
    <2> QED BY <2>3 DEF p, q
  <1> HIDE DEF r, x, y
  <1>13. ShownAt(form, c, m, r)
    BY <1>9, <1>11, <1>12 DEF ShownAt
  <1> QED BY <1>8, <1>13 DEF r

LEMMA SettledCovers ==
    ASSUME NEW form, Worded(form), NEW c, NEW m \in Names(form), Guarded(form, c, m),
           NEW s, IsState(form, s), ShownAt(form, c, m, s)
    PROVE  ShownAt(form, c, m, Settled(form, s))
  <1>1. CASE LateFields(form) = {}
    BY <1>1 DEF Settled
  <1>2. CASE LateFields(form) # {}
    <2> DEFINE f == CHOOSE g \in LateFields(form) : TRUE
               v == CHOOSE u \in f.late : TRUE
    <2>1. f \in LateFields(form)
      BY <1>2
    <2>2. PICK n \in Names(form) : f = form.at[n] /\ f.late # {}
      BY <2>1 DEF LateFields
    <2>3. v \in f.late
      BY <2>2
    <2>4. PICK i \in DOMAIN form.order : f = form.order[i] /\ form.order[i].name = n
      BY <2>2, AtIs
    <2>5. Settled(form, s) = Change(s, f, v)
      BY <1>2 DEF Settled
    <2> HIDE DEF f, v
    <2>6. ~Idle(form.order[i])
      BY <2>3, <2>4 DEF Idle
    <2>7. Permitted(form, c, m, i, s, v)
      <3>1. /\ form.at[c[1]].late \subseteq Values(form.at[c[1]])
            /\ form.at[m].late \subseteq Values(form.at[m]) /\ form.at[m].late \subseteq form.at[m].blank
        BY DEF Guarded, Known
      <3> QED BY <2>2, <2>3, <2>4, <3>1 DEF Permitted, Covers
    <2> QED BY <2>4, <2>5, <2>6, <2>7, ChangeCovers
  <1> QED BY <1>1, <1>2

LEMMA FirstCovers ==
    ASSUME NEW form, NEW c, NEW m \in Names(form), Guarded(form, c, m)
    PROVE  ShownAt(form, c, m, First(form))
  <1>1. c[1] \in Names(form) /\ Covers(form, c, m, First(form)[c[1]], First(form)[m])
    BY DEF Guarded
  <1>2. /\ form.at[c[1]].vals[1] \in Values(form.at[c[1]])
        /\ form.at[m].vals[1] \in Values(form.at[m])
    BY DEF Guarded, Known
  <1>3. First(form)[c[1]] = form.at[c[1]].vals[1] /\ First(form)[m] = form.at[m].vals[1]
    BY <1>1 DEF First
  <1> QED BY <1>1, <1>2, <1>3 DEF ShownAt

----------------------------------------------------------------------------
(* Reading keeps guarded fields so.                                        *)

LEMMA ChangeIsKnown ==
    ASSUME NEW form, Worded(form), NEW n \in Names(form), Known(form, n), NEW i \in DOMAIN form.order,
           NEW s, IsState(form, s), NEW v, s[form.order[i].name] # v,
           Gets(form.order[i], v, s, n) \in Values(form.at[n])
    PROVE  Change(s, form.order[i], v)[n] \in Values(form.at[n])
  <1> DEFINE f == form.order[i]
             was == Gets(f, v, s, n)
  <1>1. Change(s, f, v)[n] = After(f.sets, v, n, was)
    BY ChangeIs
  <1>2. Rows(f.sets)
    BY SetRows
  <1>3. \A k \in DOMAIN f.sets : f.sets[k][2] = n => f.sets[k][3] \in Values(form.at[n])
    BY DEF Known
  <1>4. was \in Values(form.at[n])
    OBVIOUS
  <1> HIDE DEF f, was
  <1>5. After(f.sets, v, n, was) \in Values(form.at[n])
    BY <1>2, <1>3, <1>4, AfterIsKnown
  <1> QED BY <1>1, <1>5 DEF f

\* A field to which reading adds nothing shows what is read.
LEMMA ShowsRead ==
    ASSUME NEW f, f.joins = {}, NEW s, NEW v, v # Absent
    PROVE  Shows(f, s, v) = AsRead(f, v)
  BY DEF Shows, AsRead

LEMMA ReadIsKnown ==
    ASSUME NEW form, NEW n, Known(form, n), NEW v, HasKnown(form.at[n], v)
    PROVE  AsRead(form.at[n], v) \in Values(form.at[n])
  <1> DEFINE f == form.at[n]
             p == CHOOSE x \in f.reads : x[1] = v
  <1>1. f.none \in Values(f) /\ \A x \in f.reads : x[2] \in Values(f)
    BY DEF Known
  <1>2. CASE v = Absent
    BY <1>1, <1>2 DEF AsRead
  <1>3. CASE v # Absent /\ \E x \in f.reads : x[1] = v
    <2>1. p \in f.reads
      BY <1>3
    <2>2. AsRead(f, v) = p[2]
      BY <1>3 DEF AsRead
    <2> HIDE DEF p
    <2> QED BY <1>1, <2>1, <2>2
  <1>4. CASE v # Absent /\ ~\E x \in f.reads : x[1] = v
    BY <1>4 DEF AsRead, HasKnown
  <1> QED BY <1>2, <1>3, <1>4

\* What reading a field does, if it does anything.
Reads(f, s, d) == ~f.lost /\ (Hold(f.when, s) \/ f.anyway) /\ (d[f.name] = Absent => ~f.keeps)
Told1(f, s, d) == IF d[f.name] = Absent THEN f.none ELSE Shows(f, s, d[f.name])

LEMMA ReadFieldIs ==
    ASSUME NEW s, NEW f, NEW d
    PROVE  ReadField(s, f, d) = IF Reads(f, s, d) THEN Change(s, f, Told1(f, s, d)) ELSE s
  BY DEF ReadField, Reads, Told1

\* m is read when c can be relied upon.
Ready(form, c, m, i, s, d) ==
    LET f == form.order[i]
    IN f.name = m /\ (Hold(f.when, s) \/ f.anyway) /\ ~f.lost =>
           MakesItAllowed(form, c, m) \/ s[c[1]] = AsRead(form.at[c[1]], d[c[1]])

LEMMA ReadFieldCovers ==
    ASSUME NEW form, Worded(form), NEW c, NEW m \in Names(form), Guarded(form, c, m),
           NEW s, IsState(form, s), ShownAt(form, c, m, s),
           NEW d, DisclosesAt(form, d, c, m),
           NEW i \in DOMAIN form.order, Ready(form, c, m, i, s, d)
    PROVE  ShownAt(form, c, m, ReadField(s, form.order[i], d))
  <1> DEFINE f == form.order[i]
             n == c[1]
             v == Told1(f, s, d)
  <1>1. /\ n \in Names(form) /\ n # m /\ Known(form, n) /\ Known(form, m) /\ ReadsCovered(form, c, m)
        /\ HasKnown(form.at[n], d[n]) /\ HasKnown(form.at[m], d[m])
    BY DEF Guarded, DisclosesAt
  <1>2. CASE ~Reads(f, s, d)
    <2>1. ReadField(s, f, d) = s
      BY <1>2, ReadFieldIs
    <2> QED BY <2>1
  <1>3. CASE Reads(f, s, d)
    <2>1. ReadField(s, f, d) = Change(s, f, v)
      BY <1>3, ReadFieldIs
    <2>2. ~Idle(f)
      BY <1>3 DEF Reads, Idle, Hold
    <2>3. ASSUME NEW k \in Names(form), Known(form, k), HasKnown(form.at[k], d[k]), f.name = k
          PROVE  f = form.at[k] /\ v = AsRead(f, d[k]) /\ v \in Values(form.at[k])
      <3>1. f = form.at[k]
        BY <2>3, KnownAt
      <3>2. f.joins = {}
        BY <2>3, <3>1 DEF Known
      <3>3. v = AsRead(f, d[k])
        <4>1. CASE d[k] = Absent
          BY <2>3, <4>1 DEF Told1, AsRead
        <4>2. CASE d[k] # Absent
          BY <2>3, <3>2, <4>2, ShowsRead DEF Told1
        <4> QED BY <4>1, <4>2
      <3> QED BY <2>3, <3>1, <3>3, ReadIsKnown
    <2> HIDE DEF v
    <2>4. CASE f.name # m
      <3>1. Permitted(form, c, m, i, s, v)
        BY <1>1, <2>3, <2>4 DEF Permitted
      <3> QED BY <2>1, <2>2, <3>1, ChangeCovers
    <2>5. CASE f.name = m /\ MakesItAllowed(form, c, m)
      <3>1. f = form.at[m] /\ v \in Values(form.at[m])
        BY <1>1, <2>3, <2>5
      <3>2. CASE s[m] = v
        <4>1. Change(s, f, v) = s
          BY <2>5, <3>2 DEF Change
        <4> QED BY <2>1, <4>1
      <3>3. CASE s[m] # v
        <4> DEFINE t == Change(s, f, v)
                   x == s[n]
        <4>1. Gets(f, v, s, n) = x /\ Gets(f, v, s, m) = v
          BY <1>1, <2>5 DEF Gets
        <4>2. x \in Values(form.at[c[1]])
          BY DEF ShownAt
        <4>3. s[form.order[i].name] # v
          BY <2>5, <3>3
        <4>4. t[n] = After(f.sets, v, n, x) /\ t[m] = After(f.sets, v, m, v)
          <5>1. ASSUME NEW k \in Names(form), Known(form, k)
                PROVE  Change(s, form.order[i], v)[k] = After(form.order[i].sets, v, k, Gets(form.order[i], v, s, k))
            BY <4>3, <5>1, ChangeIs
          <5>2. ASSUME NEW k \in Names(form), Known(form, k) PROVE t[k] = After(f.sets, v, k, Gets(f, v, s, k))
            BY <5>1, <5>2
          <5> HIDE DEF t, x, f
          <5> QED BY <1>1, <4>1, <5>2
        <4>5. t[n] \in Values(form.at[n]) /\ t[m] \in Values(form.at[m])
          BY <1>1, <3>1, <4>1, <4>2, <4>3, ChangeIsKnown
        <4> HIDE DEF t, x
        <4>6. Covers(form, c, m, After(form.at[m].sets, v, c[1], x), After(form.at[m].sets, v, m, v))
          BY <2>5, <3>1, <4>2 DEF MakesItAllowed
        <4>7. ShownAt(form, c, m, t)
          BY <3>1, <4>4, <4>5, <4>6 DEF ShownAt
        <4> QED BY <2>1, <4>7 DEF t
      <3> QED BY <3>2, <3>3
    <2>6. CASE f.name = m /\ ~MakesItAllowed(form, c, m)
      <3>1. f = form.at[m] /\ v = AsRead(f, d[m]) /\ v \in Values(form.at[m])
        BY <1>1, <2>3, <2>6
      <3>2. s[n] = AsRead(form.at[n], d[n]) /\ ~f.lost /\ (d[m] = Absent => ~f.keeps)
        BY <1>3, <2>6 DEF Ready, Reads
      <3>3. d[m] = Absent => v \in form.at[m].blank
        BY <1>1, <3>1, <3>2 DEF ReadsCovered, AsRead
      <3>4. Covers(form, c, m, s[n], v)
        BY <2>6, <3>1, <3>2, <3>3 DEF DisclosesAt, Covers
      <3>5. Permitted(form, c, m, i, s, v)
        BY <1>1, <2>6, <3>1, <3>4 DEF Permitted
      <3> QED BY <2>1, <2>2, <3>5, ChangeCovers
    <2> QED BY <2>4, <2>5, <2>6
  <1> QED BY <1>2, <1>3

\* The field of the condition was read, and stays.
LEMMA ReadBefore ==
    ASSUME NEW form, Worded(form), NEW c, NEW m \in Names(form), Guarded(form, c, m), ReadAfter(form, c, m),
           NEW s, IsState(form, s), NEW d, NEW g, ReadsBy(form, s, d, g),
           NEW i \in DOMAIN form.order, form.order[i].name = m,
           Hold(form.order[i].when, g[i - 1]) \/ form.order[i].anyway
    PROVE  g[i - 1][c[1]] = AsRead(form.at[c[1]], d[c[1]])
  <1> DEFINE o == form.order
             n == c[1]
  <1>1. /\ Len(o) \in Nat /\ DOMAIN o = 1 .. Len(o)
        /\ n \in Names(form) /\ Known(form, n) /\ Known(form, m)
    BY RowsOfForm DEF Guarded
  <1>a. PICK k \in DOMAIN o : \E j \in 1 .. k - 1 : Follows(form, c, m, k, j)
    BY DEF ReadAfter
  <1>b. PICK j \in 1 .. k - 1 : Follows(form, c, m, k, j)
    BY <1>a
  <1>2. /\ o[k].name = m /\ ~o[k].anyway
        /\ o[j].name = n /\ Untouched(form, j)
        /\ ~o[j].keeps /\ ~o[j].lost
        /\ o[j].when \subseteq o[k].when
        /\ \A x \in o[j].when : x[2] = {} \/ \E h \in 1 .. j - 1 : o[h].name = x[1] /\ Untouched(form, h)
    BY <1>b DEF Follows
  <1>3. k = i
    BY <1>1, <1>2 DEF Known
  <1>4. j \in DOMAIN o /\ j \in 1 .. i - 1 /\ i - 1 \in j .. Len(o) /\ j - 1 \in 0 .. Len(o) /\ j \in j .. Len(o)
    BY <1>1, <1>2, <1>3
  <1>5. Hold(o[i].when, g[i - 1])
    BY <1>2, <1>3
  <1>6. Hold(o[j].when, g[j - 1])
    <2> DEFINE r == g[i - 1]
               before == g[j - 1]
    <2> SUFFICES ASSUME NEW x \in o[j].when PROVE before[x[1]] \in x[2]
      BY DEF Hold
    <2>1. r[x[1]] \in x[2]
      BY <1>2, <1>3, <1>5 DEF Hold
    <2>2. PICK h \in 1 .. j - 1 : o[h].name = x[1] /\ Untouched(form, h)
      BY <1>2, <2>1
    <2>3. h \in DOMAIN o /\ i - 1 \in h .. Len(o) /\ j - 1 \in h .. Len(o)
      BY <1>1, <1>4, <2>2
    <2>4. Same(form, h, g[i - 1], g[h]) /\ Same(form, h, g[j - 1], g[h])
      BY <2>2, <2>3, Stays
    <2> QED BY <2>1, <2>2, <2>4 DEF Same
  <1>7. o[j] = form.at[n]
    BY <1>1, <1>2, <1>4, KnownAt
  <1>8. g[j][n] = AsRead(form.at[n], d[n])
    <2> DEFINE before == g[j - 1]
               f == o[j]
               v == Told1(f, before, d)
    <2>1. g[j] = ReadField(before, f, d)
      BY <1>4 DEF ReadsBy
    <2>2. Reads(f, before, d)
      BY <1>2, <1>6 DEF Reads
    <2>3. IsState(form, before)
      BY <1>4, ReadsStates
    <2>4. f.name = n /\ n \in DOMAIN before /\ \A a \in DOMAIN f.sets : f.sets[a][2] # n
      BY <1>1, <1>2, <1>4, <2>3 DEF IsState, Untouched
    <2>5. v = AsRead(f, d[n])
      <3>1. f.joins = {}
        BY <1>1, <1>7 DEF Known
      <3>2. CASE d[n] = Absent
        BY <2>4, <3>2 DEF Told1, AsRead
      <3>3. CASE d[n] # Absent
        BY <2>4, <3>1, <3>3, ShowsRead DEF Told1
      <3> QED BY <3>2, <3>3
    <2> HIDE DEF before, f, v
    <2>6. g[j] = Change(before, f, v)
      BY <2>1, <2>2, ReadFieldIs DEF v
    <2>7. Change(before, f, v)[n] = v
      BY <2>4, ChangeSelf
    <2> QED BY <1>7, <2>5, <2>6, <2>7 DEF f
  <1>9. Same(form, j, g[i - 1], g[j])
    BY <1>2, <1>4, Stays
  <1> QED BY <1>2, <1>8, <1>9 DEF Same

LEMMA ReadCovers ==
    ASSUME NEW form, Worded(form), NEW c, NEW m \in Names(form), Guarded(form, c, m),
           NEW s, IsState(form, s), ShownAt(form, c, m, s), NEW d, DisclosesAt(form, d, c, m)
    PROVE  ShownAt(form, c, m, Read(form, s, d))
  <1>1. PICK g : ReadsBy(form, s, d, g)
    BY ReadSteps
  <1> DEFINE n == Len(form.order)
             Wrong == {k \in Nat : k <= n /\ ~ShownAt(form, c, m, g[k])}
  <1>2. n \in Nat /\ DOMAIN form.order = 1 .. n
    BY RowsOfForm
  <1>3. Wrong = {}
    <2> SUFFICES ASSUME Wrong # {} PROVE FALSE
      OBVIOUS
    <2>1. PICK i \in Wrong : \A k \in Wrong : i <= k
      BY LeastExists
    <2>2. i # 0
      BY <1>1, <2>1 DEF ReadsBy
    <2>3. i \in DOMAIN form.order /\ i - 1 \in 0 .. n /\ i - 1 \in Nat /\ i - 1 <= n /\ ~(i <= i - 1)
      BY <1>2, <2>1, <2>2
    <2> DEFINE w == g[i - 1]
               f == form.order[i]
    <2>4. ShownAt(form, c, m, w)
      BY <2>1, <2>3
    <2>5. IsState(form, w)
      BY <1>1, <2>3, ReadsStates
    <2>6. g[i] = ReadField(w, f, d)
      BY <1>1, <2>3 DEF ReadsBy
    <2>7. Ready(form, c, m, i, w, d)
      <3> SUFFICES ASSUME f.name = m, Hold(f.when, w) \/ f.anyway, ~f.lost, ~MakesItAllowed(form, c, m)
                   PROVE  w[c[1]] = AsRead(form.at[c[1]], d[c[1]])
        BY DEF Ready
      <3>1. form.at[m] = f
        BY <2>3, KnownAt DEF Guarded
      <3>2. ReadAfter(form, c, m)
        BY <3>1 DEF Guarded, ReadsCovered
      <3> QED BY <1>1, <2>3, <3>2, ReadBefore
    <2> HIDE DEF w, f
    <2>8. ShownAt(form, c, m, g[i])
      BY <2>3, <2>4, <2>5, <2>6, <2>7, ReadFieldCovers DEF f
    <2> QED BY <2>1, <2>8
  <1>4. ShownAt(form, c, m, g[n])
    BY <1>2, <1>3
  <1> QED BY <1>1, <1>4 DEF ReadsBy

----------------------------------------------------------------------------
(* What a form shows, and what it writes of it.                            *)

LEMMA WriteDiscloses ==
    ASSUME NEW form, Worded(form), NEW c, NEW m \in Names(form), Guarded(form, c, m),
           NEW s, IsState(form, s), ShownAt(form, c, m, s)
    PROVE  DisclosesAt(form, Write(form, s), c, m)
  <1> DEFINE d == Write(form, s)
             n == c[1]
             f == form.at[m]
             g == form.at[n]
  <1>1. /\ n \in Names(form) /\ Known(form, n) /\ Known(form, m) /\ ReadsCovered(form, c, m)
        /\ s[n] \in Values(g) /\ s[m] \in Values(f) /\ Covers(form, c, m, s[n], s[m])
    BY DEF Guarded, ShownAt
  <1>2. d[n] = WriteField(g, s) /\ d[m] = WriteField(f, s)
    BY <1>1 DEF Write
  <1>3. g.name = n /\ f.name = m
    <2>1. PICK j \in DOMAIN form.order : form.order[j].name = n /\ form.at[n] = form.order[j]
      BY <1>1, AtIs
    <2>2. PICK i \in DOMAIN form.order : form.order[i].name = m /\ form.at[m] = form.order[i]
      BY AtIs
    <2> QED BY <2>1, <2>2
  <1> HIDE DEF d, f, g
  <1>4. d[n] \in {s[n], Absent} /\ d[m] \in {s[m], Absent}
    BY <1>2, <1>3 DEF WriteField
  <1>5. HasKnown(g, d[n]) /\ HasKnown(f, d[m])
    BY <1>1, <1>4 DEF HasKnown
  <1>6. CASE f.lost \/ MakesItAllowed(form, c, m) \/ d[m] = Absent
    BY <1>5, <1>6 DEF DisclosesAt, d, f, g
  <1>7. CASE ~f.lost /\ ~MakesItAllowed(form, c, m) /\ d[m] # Absent
    <2>1. Hold(f.when, s) /\ s[m] \notin f.blank
      BY <1>2, <1>3, <1>7 DEF WriteField
    <2>2. Allows(form, c, s[n])
      BY <1>1, <2>1 DEF Covers, f
    <2>3. PICK i \in DOMAIN form.order : \E j \in 1 .. i - 1 : Follows(form, c, m, i, j)
      BY <1>1, <1>7 DEF ReadsCovered, ReadAfter, f
    <2>4. PICK j \in 1 .. i - 1 : Follows(form, c, m, i, j)
      BY <2>3
    <2>5. j \in DOMAIN form.order
      BY <2>3, <2>4, RowsOfForm
    <2>6. form.order[i] = f /\ form.order[j] = g
      <3>1. form.order[i].name = m /\ form.order[j].name = n
        BY <2>4 DEF Follows
      <3> QED BY <1>1, <2>3, <2>5, <3>1, KnownAt DEF f, g
    <2>7. /\ g.any = {} /\ g.when \subseteq f.when
          /\ \A v \in Values(g) : Allows(form, c, v) => Allows(form, c, AsRead(g, AsWritten(g, v)))
      BY <2>4, <2>6 DEF Follows
    <2>8. d[n] = AsWritten(g, s[n])
      <3>1. Hold(g.when, s)
        BY <2>1, <2>7 DEF Hold
      <3> QED BY <1>2, <1>3, <2>7, <3>1 DEF WriteField, AsWritten
    <2>9. Allows(form, c, AsRead(g, d[n]))
      BY <1>1, <2>2, <2>7, <2>8
    <2> QED BY <1>5, <2>9 DEF DisclosesAt, d, f, g
  <1> QED BY <1>6, <1>7 DEF d

LEMMA GuardIs ==
    ASSUME NEW form, NEW g \in Guards(form)
    PROVE  g[2] \in Names(form) /\ Guarded(form, g[1], g[2])
  BY Zenon DEF Guards

LEMMA ShownIsState ==
    ASSUME NEW form, NEW s, IsShown(form, s)
    PROVE  IsState(form, s)
  BY DEF IsShown

LEMMA FirstIsShown ==
    ASSUME NEW form, Worded(form)
    PROVE  IsShown(form, First(form))
  <1>1. ASSUME NEW g \in Guards(form) PROVE ShownAt(form, g[1], g[2], First(form))
    BY GuardIs, FirstCovers
  <1> QED BY <1>1, FirstIsState DEF IsShown

LEMMA ReadIsShown ==
    ASSUME NEW form, Worded(form), NEW s, IsShown(form, s), NEW d, Describes(form, d)
    PROVE  IsShown(form, Read(form, s, d))
  <1>1. ASSUME NEW g \in Guards(form) PROVE ShownAt(form, g[1], g[2], Read(form, s, d))
    <2>1. ShownAt(form, g[1], g[2], s) /\ IsState(form, s) /\ DisclosesAt(form, d, g[1], g[2])
      BY DEF IsShown, Describes
    <2> QED BY <2>1, GuardIs, ReadCovers
  <1>2. IsState(form, Read(form, s, d))
    BY ReadIsState DEF IsShown
  <1> QED BY <1>1, <1>2 DEF IsShown

LEMMA PickIsShown ==
    ASSUME NEW form, Worded(form), NEW s, IsShown(form, s), NEW e \in Edits(form, s)
    PROVE  IsShown(form, Pick(s, e[1], e[2]))
  <1>1. ASSUME NEW g \in Guards(form) PROVE ShownAt(form, g[1], g[2], Pick(s, e[1], e[2]))
    <2>1. ShownAt(form, g[1], g[2], s) /\ IsState(form, s)
      BY DEF IsShown
    <2> QED BY <2>1, GuardIs, PickCovers
  <1>2. IsState(form, Pick(s, e[1], e[2]))
    BY PickIsState DEF IsShown
  <1> QED BY <1>1, <1>2 DEF IsShown

LEMMA SettledIsShown ==
    ASSUME NEW form, Worded(form), NEW s, IsShown(form, s)
    PROVE  IsShown(form, Settled(form, s))
  <1>1. ASSUME NEW g \in Guards(form) PROVE ShownAt(form, g[1], g[2], Settled(form, s))
    <2>1. ShownAt(form, g[1], g[2], s) /\ IsState(form, s)
      BY DEF IsShown
    <2> QED BY <2>1, GuardIs, SettledCovers
  <1>2. IsState(form, Settled(form, s))
    BY SettledIsState DEF IsShown
  <1> QED BY <1>1, <1>2 DEF IsShown

\* What a form writes describes it.
LEMMA WriteDescribes ==
    ASSUME NEW form, Worded(form), NEW s, IsShown(form, s)
    PROVE  Describes(form, Write(form, s))
  <1>1. IsState(form, s)
    BY DEF IsShown
  <1>2. ASSUME NEW g \in Guards(form) PROVE DisclosesAt(form, Write(form, s), g[1], g[2])
    <2>1. ShownAt(form, g[1], g[2], s)
      BY DEF IsShown
    <2> QED BY <1>1, <2>1, GuardIs, WriteDiscloses
  <1> QED BY <1>1, <1>2, WriteDescribesSteady DEF Describes

\* A form without guarded fields.
LEMMA UnguardedIsShown ==
    ASSUME NEW form, Guards(form) = {}, NEW s, IsState(form, s)
    PROVE  IsShown(form, s)
  BY DEF IsShown

\* A covered field that is written is shown.
LEMMA CoveredIsVisible ==
    ASSUME NEW form, Worded(form), NEW s, IsShown(form, s), NEW is, NEW n \in Covered(form)
    PROVE  VisibleAt(form, s, is, n)
  <1> DEFINE f == form.at[n]
  <1>1. n \in Names(form)
    BY DEF Covered
  <1>2. PICK i \in DOMAIN form.order : form.order[i].name = n /\ form.at[n] = form.order[i]
    BY <1>1, AtIs
  <1> SUFFICES ASSUME WriteField(f, s) # Absent, Len(f.vals) # 1, NEW c \in f.seen
               PROVE  s[c[1]] \in c[2] \/ Supplied(form.at[c[1]], s[c[1]])
    BY DEF VisibleAt
  <1>3. Hold(f.when, s) /\ s[n] \notin f.blank
    BY <1>2 DEF WriteField
  <1>4. CASE c \in f.when
    BY <1>3, <1>4 DEF Hold
  <1>5. CASE c \notin f.when
    <2>1. c \in Loose(f)
      BY <1>5 DEF Loose
    <2>2. PICK m \in Names(form) : <<c, m>> \in Guards(form) /\ Switches(form, m, n)
      BY <2>1 DEF Covered
    <2>3. ShownAt(form, c, m, s)
      BY <2>2 DEF IsShown
    <2>4. s[m] \notin form.at[m].blank
      BY <1>3, <2>2 DEF Switches, Hold
    <2> QED BY <2>3, <2>4 DEF ShownAt, Covers, Allows
  <1> QED BY <1>4, <1>5

----------------------------------------------------------------------------
(* The forms of the three windows are of one language.                     *)

LEMMA SameRead == ASSUME NEW form, NEW s, NEW d
                  PROVE  D!Read(form, s, d) = Read(form, s, d) /\ C!Read(form, s, d) = Read(form, s, d)
  BY Zenon DEF D!Read, C!Read, Read, D!ReadField, C!ReadField, ReadField, D!Hold, C!Hold, Hold,
               D!Change, C!Change, Change, D!Apply, C!Apply, Apply, D!Shows, C!Shows, Shows,
               D!Absent, C!Absent, Absent, D!Max, C!Max, Max

LEMMA SameWrite == ASSUME NEW form, NEW s
                   PROVE  D!Write(form, s) = Write(form, s) /\ C!Write(form, s) = Write(form, s)
  BY Zenon DEF D!Write, C!Write, Write, D!WriteField, C!WriteField, WriteField, D!Hold, C!Hold, Hold,
               D!Names, C!Names, Names, D!Absent, C!Absent, Absent

LEMMA SameFirst == ASSUME NEW form
                   PROVE  D!First(form) = First(form) /\ C!First(form) = First(form)
  BY Zenon DEF D!First, C!First, First, D!Names, C!Names, Names

LEMMA SamePick == ASSUME NEW s, NEW f, NEW v
                  PROVE  D!Pick(s, f, v) = Pick(s, f, v) /\ C!Pick(s, f, v) = Pick(s, f, v)
  BY Zenon DEF D!Pick, C!Pick, Pick, D!Change, C!Change, Change, D!Apply, C!Apply, Apply,
               D!Hold, C!Hold, Hold, D!Max, C!Max, Max

LEMMA SameEdits == ASSUME NEW form, NEW s
                   PROVE  D!Edits(form, s) = Edits(form, s) /\ C!Edits(form, s) = Edits(form, s)
  BY Zenon DEF D!Edits, C!Edits, Edits, D!Names, C!Names, Names, D!Hold, C!Hold, Hold, D!Values, C!Values, Values

LEMMA SameSettled == ASSUME NEW form, NEW s PROVE D!Settled(form, s) = Settled(form, s)
  BY Zenon DEF D!Settled, Settled, D!LateFields, LateFields, D!Names, Names, D!Change, Change,
               D!Apply, Apply, D!Hold, Hold, D!Max, Max

LEMMA SameTold == ASSUME NEW form, NEW s, NEW t PROVE D!Told(form, s, t) <=> Told(form, s, t)
  BY Zenon DEF D!Told, Told, D!Names, Names

LEMMA SameAgrees == ASSUME NEW form, NEW s, NEW d
                    PROVE  /\ D!Agrees(form, s, d) <=> \A n \in Names(form) : AgreesAt(form, s, d, n)
                           /\ C!Agrees(form, s, d) <=> \A n \in Names(form) : AgreesAt(form, s, d, n)
  BY Zenon DEF D!Agrees, C!Agrees, D!AgreesAt, C!AgreesAt, AgreesAt, D!Names, C!Names, Names,
               D!WriteField, C!WriteField, WriteField, D!Altered, C!Altered, Altered,
               D!Hold, C!Hold, Hold, D!Absent, C!Absent, Absent
----------------------------------------------------------------------------
(* What the forms of the Devices tab show and hold.                        *)

\* Each device of the list has a description of its kind.
DevicesFit(l) == \A i \in DOMAIN l : DeviceFits(l[i].kind, l[i].doc)

\* The panel shows a form of its device, and holds descriptions of it.
FormFits(f) ==
    f.of # 0 => /\ DeviceFits(f.kind, f.first) /\ DeviceFits(f.kind, f.current)
                /\ IsShown(FormOf[f.kind], f.shown)
Has(e) == DevicesFit(e.devices) /\ FormFits(e.panel.form)

\* If it says that it is saved, the steady fields are.
PanelAgrees(p) ==
    p.form.of # 0 /\ p.saved /\ p.form.read => SteadyAgrees(FormOf[p.form.kind], p.form.shown, p.form.current)
Kept(e) == Has(e) /\ PanelAgrees(e.panel)

\* The device that is made in its dialog.
StackFits(s) ==
    /\ DOMAIN s = {"open", "enabled", "chosen", "device"}
    /\ s.device.kind # "none" =>
          /\ DOMAIN s.device = {"kind", "ready", "shown"}
          /\ s.device.kind \in DOMAIN NewFormOf /\ IsShown(NewFormOf[s.device.kind], s.device.shown)

LEMMA FormOfFits ==
    ASSUME WordsFit, NEW k \in DOMAIN FormOf
    PROVE  Worded(FormOf[k])
  BY DEF WordsFit

LEMMA WrittenAgrees ==
    ASSUME NEW form, Worded(form), NEW s
    PROVE  SteadyAgrees(form, s, Write(form, s))
  <1> SUFFICES ASSUME NEW n \in Steady(form) PROVE AgreesAt(form, s, Write(form, s), n)
    BY DEF SteadyAgrees
  <1>1. n \in Names(form)
    BY SteadyIs
  <1>2. Write(form, s)[n] = WriteField(form.at[n], s)
    BY <1>1 DEF Write
  <1> QED BY <1>2 DEF AgreesAt

LEMMA ReadIsKept ==
    ASSUME NEW form, Worded(form), NEW s, IsShown(form, s), NEW d, Describes(form, d)
    PROVE  IsShown(form, Read(form, s, d)) /\ SteadyAgrees(form, Read(form, s, d), d)
  BY ReadIsShown, ReadAgrees, ShownIsState DEF SteadyAgrees, Describes

LEMMA QuietIsKept ==
    ASSUME NEW form, Worded(form), NEW s, IsShown(form, s), NEW t, IsShown(form, t),
           ~Told(form, s, t), NEW d, SteadyAgrees(form, s, d)
    PROVE  SteadyAgrees(form, t, d)
  BY QuietAgrees, ShownIsState DEF SteadyAgrees

\* A closed panel has nothing to hold.
LEMMA ClosedKeeps ==
    ASSUME NEW e, DevicesFit(e.devices), e.panel.form.of = 0
    PROVE  Kept(e)
  BY DEF Kept, Has, FormFits, PanelAgrees

LEMMA DroppedFits ==
    ASSUME NEW l, IsDevices(l), DevicesFit(l), NEW r \in DOMAIN l
    PROVE  DevicesFit(D!RemoveAt(l, r))
  <1> DEFINE m == D!RemoveAt(l, r)
  <1>1. IsList(l) /\ Len(l) \in Nat /\ DOMAIN l = 1 .. Len(l)
    BY RowsOf DEF IsDevices
  <1>2. /\ DOMAIN m = 1 .. Len(l) - 1
        /\ \A j \in 1 .. Len(l) - 1 : m[j] = IF j < r THEN l[j] ELSE l[j + 1]
    BY <1>1, Removed
  <1> HIDE DEF m
  <1>3. ASSUME NEW j \in DOMAIN m PROVE DeviceFits(m[j].kind, m[j].doc)
    <2>1. j \in DOMAIN l /\ j + 1 \in DOMAIN l /\ m[j] \in {l[j], l[j + 1]}
      BY <1>1, <1>2
    <2> QED BY <2>1 DEF DevicesFit
  <1>4. DevicesFit(m)
    BY <1>3 DEF DevicesFit
  <1> QED BY <1>4 DEF m

LEMMA InsertedFits ==
    ASSUME NEW l, IsDevices(l), DevicesFit(l), NEW r \in 1 .. Len(l) + 1, NEW d, DeviceFits(d.kind, d.doc)
    PROVE  DevicesFit(D!InsertAt(l, r, d))
  <1> DEFINE m == D!InsertAt(l, r, d)
  <1>1. IsList(l) /\ Len(l) \in Nat /\ DOMAIN l = 1 .. Len(l)
    BY RowsOf DEF IsDevices
  <1>2. /\ DOMAIN m = 1 .. Len(l) + 1
        /\ \A j \in 1 .. Len(l) + 1 : m[j] = IF j < r THEN l[j] ELSE IF j = r THEN d ELSE l[j - 1]
    BY <1>1, Inserted
  <1> HIDE DEF m
  <1>3. ASSUME NEW j \in DOMAIN m PROVE DeviceFits(m[j].kind, m[j].doc)
    <2>1. CASE j < r
      <3>1. j \in DOMAIN l /\ m[j] = l[j]
        BY <1>1, <1>2, <2>1
      <3> QED BY <3>1 DEF DevicesFit
    <2>2. CASE j = r
      BY <1>2, <2>2
    <2>3. CASE ~(j < r) /\ j # r
      <3>1. j - 1 \in DOMAIN l /\ m[j] = l[j - 1]
        BY <1>1, <1>2, <2>3
      <3> QED BY <3>1 DEF DevicesFit
    <2> QED BY <2>1, <2>2, <2>3
  <1>4. DevicesFit(m)
    BY <1>3 DEF DevicesFit
  <1> QED BY <1>4 DEF m

\* A device comes, in the place of another one or not.
LEMMA AddFits ==
    ASSUME NEW e, IsEditor(e), DevicesFit(e.devices), NEW d, d.id \in Nat \ {0}, DeviceFits(d.kind, d.doc)
    PROVE  /\ DevicesFit(D!AddDeviceToUsedDevList(e, d).devices)
           /\ D!AddDeviceToUsedDevList(e, d).panel = e.panel
  <1> DEFINE others == D!Others(e.devices, d.kind)
             t == D!AddDeviceToUsedDevList(e, d)
  <1>1. CASE others = {}
    <2>1. t = D!Placed(e, d)
      BY <1>1 DEF D!AddDeviceToUsedDevList
    <2> HIDE DEF t
    <2>2. Places(e, d, t)
      BY <2>1, PlacedDoes
    <2>3. DevicesFit(t.devices) /\ t.panel = e.panel
      BY <2>2, InsertedFits DEF Places, IsEditor
    <2> QED BY <2>3 DEF t
  <1>2. CASE others # {}
    <2> DEFINE m == D!Min(others)
               x == D!Replace(e, m)
    <2>1. t = D!Placed(x, d)
      BY <1>2 DEF D!AddDeviceToUsedDevList
    <2>2. m \in DOMAIN e.devices
      <3>1. others \subseteq DOMAIN e.devices /\ DOMAIN e.devices \subseteq Nat
        BY RowsOf DEF D!Others, IsEditor
      <3> HIDE DEF others
      <3>2. others \subseteq Nat
        BY <3>1
      <3> QED BY <1>2, <3>1, <3>2, MinOfRows
    <2> HIDE DEF m
    <2>3. Drops(e, m, x)
      BY <2>2, ReplaceDoes
    <2> HIDE DEF x, t
    <2>4. IsEditor(x) /\ DevicesFit(x.devices) /\ x.panel = e.panel
      BY <2>2, <2>3, DroppedFits DEF Drops, IsEditor
    <2>5. Places(x, d, t)
      BY <2>1, <2>4, PlacedDoes
    <2>6. DevicesFit(t.devices) /\ t.panel = e.panel
      BY <2>4, <2>5, InsertedFits DEF Places, IsEditor
    <2> QED BY <2>6 DEF t
  <1> QED BY <1>1, <1>2

\* What is saved describes the device.
LEMMA SaveDataHas ==
    ASSUME WordsFit, NEW e, Good(e), Has(e)
    PROVE  Kept(D!SaveDeviceData(e))
  <1> DEFINE t == D!SaveDeviceData(e)
             f == e.panel.form
             w == Write(FormOf[f.kind], f.shown)
  <1>1. /\ DOMAIN e = {"devices", "current", "panel", "past"} /\ DOMAIN e.panel = {"form", "saved", "changed"}
        /\ f.of # 0 => DOMAIN f = {"of", "kind", "row", "read", "settled", "shown", "first", "current"}
    BY DEF Good, Whole, IsEditor, IsPanel, IsForm
  <1>2. CASE f.of = 0
    <2>1. t.devices = e.devices /\ t.panel.form = f
      BY <1>1, <1>2 DEF D!SaveDeviceData, D!Open
    <2> HIDE DEF t
    <2> QED BY <1>2, <2>1, ClosedKeeps DEF Has, t
  <1>3. CASE f.of # 0
    <2>1. f.kind \in DOMAIN FormOf /\ Worded(FormOf[f.kind]) /\ IsShown(FormOf[f.kind], f.shown)
          /\ Describes(FormOf[f.kind], f.first)
      BY <1>3, FormOfFits DEF Has, FormFits, DeviceFits
    <2>2. Describes(FormOf[f.kind], w) /\ SteadyAgrees(FormOf[f.kind], f.shown, w)
      BY <2>1, WriteDescribes, WrittenAgrees
    <2>3. D!Write(FormOf[f.kind], f.shown) = w
      BY SameWrite
    <2> HIDE DEF w
    <2>4. /\ t.devices = e.devices /\ t.panel.form.of = f.of /\ t.panel.form.kind = f.kind
          /\ t.panel.form.first = f.first /\ t.panel.form.current = w /\ t.panel.form.shown = f.shown
      BY <1>1, <1>3, <2>3 DEF D!SaveDeviceData, D!Open
    <2> HIDE DEF t
    <2>5. Has(t)
      BY <2>1, <2>2, <2>4 DEF Has, FormFits, DeviceFits
    <2>6. PanelAgrees(t.panel)
      BY <2>2, <2>4 DEF PanelAgrees
    <2> QED BY <2>5, <2>6 DEF Kept, t
  <1> QED BY <1>2, <1>3

LEMMA AskingHas ==
    ASSUME WordsFit, NEW e, Good(e), Has(e), NEW ok
    PROVE  Has(D!Asking(e, ok))
  <1>1. CASE e.panel.saved
    BY <1>1 DEF D!Asking
  <1>2. CASE ~e.panel.saved /\ ok
    <2>1. D!Asking(e, ok) = D!SaveDeviceData(e)
      BY <1>2 DEF D!Asking
    <2> QED BY <2>1, SaveDataHas DEF Kept
  <1>3. CASE ~e.panel.saved /\ ~ok
    <2> DEFINE t == D!SetStartState(e)
    <2>1. D!Asking(e, ok) = t
      BY <1>3 DEF D!Asking
    <2>2. t.devices = e.devices /\ t.panel.form = e.panel.form
      BY StartStateDoes DEF SameRows, Good, Whole
    <2> HIDE DEF t
    <2> QED BY <2>1, <2>2 DEF Has
  <1> QED BY <1>1, <1>2, <1>3

LEMMA StoreHas ==
    ASSUME NEW e, Good(e), Has(e), e.panel.form.of # 0
    PROVE  DevicesFit(D!Store(e, e.panel.form).devices)
  <1> DEFINE f == e.panel.form
             s == D!SetStartState(e)
             x == [id |-> f.of, kind |-> f.kind, doc |-> f.current]
             u == [s EXCEPT !.past.spoilt = s.past.spoilt \/ s.past.since # "nothing"]
             v == D!TakeItem(u, f.row)
             t == D!AddDeviceToUsedDevList(v, x)
  <1>1. /\ IsEditor(s) /\ s.devices = e.devices
    BY StartStateDoes DEF SameRows, Good, Whole
  <1>2. D!Store(e, f) = t
    BY DEF D!Store, D!SaveDeviceXMLDescription
  <1>3. x.id \in Nat \ {0} /\ DeviceFits(x.kind, x.doc)
    BY DEF Has, FormFits, Good, Whole, IsEditor, IsPanel, IsForm
  <1> HIDE DEF s, x
  <1>4. IsEditor(u) /\ u.devices = e.devices
    <2>1. /\ DOMAIN u = {"devices", "current", "panel", "past"} /\ DOMAIN u.past = {"since", "spoilt", "gone"}
          /\ u.devices = s.devices /\ u.current = s.current /\ u.panel = s.panel /\ u.past.gone = s.past.gone
      BY <1>1 DEF IsEditor, IsPast
    <2> HIDE DEF u
    <2>2. IsEditor(u)
      BY <1>1, <2>1 DEF IsEditor, IsPast
    <2> QED BY <1>1, <2>1, <2>2
  <1> HIDE DEF u
  <1>5. IsEditor(v) /\ DevicesFit(v.devices)
    <2>1. CASE f.row \in DOMAIN e.devices
      <3>1. Takes(u, f.row, v)
        BY <1>4, <2>1, TakeItemDoes
      <3>2. IsDevices(u.devices) /\ DevicesFit(u.devices)
        BY <1>4 DEF IsEditor, Has
      <3> QED BY <1>4, <2>1, <3>1, <3>2, DroppedFits DEF Takes
    <2>2. CASE f.row \notin DOMAIN e.devices
      <3>1. v = u
        BY <1>4, <2>2 DEF D!TakeItem
      <3> QED BY <1>4, <3>1 DEF Has
    <2> QED BY <2>1, <2>2
  <1> HIDE DEF v
  <1> QED BY <1>2, <1>3, <1>5, AddFits

LEMMA CloseKept ==
    ASSUME WordsFit, NEW e, Good(e), Has(e), NEW ok
    PROVE  Kept(D!CloseDataEdit(e, ok))
  <1> DEFINE a == D!Asking(e, ok)
             b == D!Store(a, a.panel.form)
             c == IF D!Open(a.panel) /\ a.panel.changed THEN b ELSE a
             t == D!ClearDataEdit(c)
  <1>1. D!CloseDataEdit(e, ok) = t
    BY DEF D!CloseDataEdit, D!LeaveData, D!Leave
  <1>2. Good(a) /\ Has(a)
    BY AskingDoes, AskingHas DEF Repaints
  <1> HIDE DEF a
  <1>3. D!Open(a.panel) => DevicesFit(b.devices) /\ Whole(b)
    BY <1>2, StoreHas, StoreDoes DEF D!Open, Stores
  <1> HIDE DEF b
  <1>4. Whole(c) /\ DevicesFit(c.devices)
    BY <1>2, <1>3 DEF Has, Good
  <1> HIDE DEF c
  <1>5. Clears(c, t)
    BY <1>4, ClearDoes
  <1> HIDE DEF t
  <1>6. DevicesFit(t.devices) /\ t.panel.form.of = 0
    BY <1>4, <1>5 DEF Clears
  <1> QED BY <1>1, <1>6, ClosedKeeps

LEMMA ShowFormHas ==
    ASSUME WordsFit, NEW e, NEW c, Good(c), Has(c), NEW r \in DOMAIN e.devices, DevicesFit(e.devices)
    PROVE  Kept(D!ShowForm(e, c, e.devices[r], r))
  <1> DEFINE d == e.devices[r]
             t == D!ShowForm(e, c, d, r)
  <1>1. DeviceFits(d.kind, d.doc)
    BY DEF DevicesFit
  <1> HIDE DEF d
  <1>2. /\ t.devices = c.devices
        /\ t.panel.form = [of |-> d.id, kind |-> d.kind, row |-> r, read |-> FALSE, settled |-> FALSE,
                           shown |-> D!First(FormOf[d.kind]), first |-> d.doc, current |-> d.doc]
    BY DEF D!ShowForm, Good, Whole, IsEditor, IsPanel
  <1>3. D!First(FormOf[d.kind]) = First(FormOf[d.kind]) /\ IsShown(FormOf[d.kind], First(FormOf[d.kind]))
    BY <1>1, SameFirst, FirstIsShown, FormOfFits DEF DeviceFits
  <1>4. /\ t.panel.form.kind = d.kind /\ ~t.panel.form.read /\ t.panel.form.shown = First(FormOf[d.kind])
        /\ t.panel.form.first = d.doc /\ t.panel.form.current = d.doc
    BY <1>2, <1>3
  <1> HIDE DEF t
  <1>5. Kept(t)
    BY <1>1, <1>2, <1>3, <1>4 DEF Kept, Has, FormFits, PanelAgrees
  <1> QED BY <1>5 DEF t, d

LEMMA ShowKept ==
    ASSUME WordsFit, NEW e, Good(e), Has(e), NEW r \in DOMAIN e.devices, NEW ok
    PROVE  Kept(D!ShowDevice(e, r, ok))
  <1> DEFINE s == [e EXCEPT !.current = r]
             c == D!Closed(s, ok)
  <1>1. D!ShowDevice(e, r, ok) = D!ShowForm(e, c, e.devices[r], r)
    BY DEF D!ShowDevice
  <1>2. Good(s) /\ Has(s)
    <2>1. /\ DOMAIN s = {"devices", "current", "panel", "past"}
          /\ s.devices = e.devices /\ s.panel = e.panel /\ s.past = e.past /\ s.current = r
      BY DEF Good, Whole, IsEditor
    <2>2. r \in 0 .. Len(e.devices)
      BY RowsOf DEF Good, Whole, IsEditor
    <2> HIDE DEF s
    <2> QED BY <2>1, <2>2 DEF Good, Whole, IsEditor, RowIsRight, Has
  <1> HIDE DEF s
  <1>3. Good(c) /\ Has(c)
    <2>1. CASE D!Open(s.panel)
      <3>1. c = D!CloseDataEdit(s, ok)
        BY <2>1 DEF D!Closed
      <3> QED BY <1>2, <3>1, CloseDoes, CloseKept DEF Closes, Kept
    <2>2. CASE ~D!Open(s.panel)
      <3>1. c = s
        BY <2>2 DEF D!Closed
      <3> QED BY <1>2, <3>1
    <2> QED BY <2>1, <2>2
  <1> HIDE DEF c
  <1>4. DevicesFit(e.devices)
    BY DEF Has
  <1> QED BY <1>1, <1>3, <1>4, ShowFormHas

LEMMA TakeCurrentKept ==
    ASSUME WordsFit, NEW e, Whole(e), e.current # 0, DevicesFit(e.devices)
    PROVE  Kept(D!TakeCurrent(e))
  <1> DEFINE r == e.current
             n == IF r < Len(e.devices) THEN r + 1 ELSE r - 1
             k == D!ClearDataEdit(e)
             w == D!NextShown(k, n)
             y == [w EXCEPT !.current = r]
             z == D!Replace(y, r)
             t == [z EXCEPT !.past.since = IF n = 0 THEN z.past.since ELSE "deleted"]
  <1>1. D!TakeCurrent(e) = t
    BY DEF D!TakeCurrent
  <1>2. /\ Len(e.devices) \in Nat /\ DOMAIN e.devices = 1 .. Len(e.devices)
        /\ r \in DOMAIN e.devices /\ (n = 0 \/ n \in DOMAIN e.devices)
    <2>1. Len(e.devices) \in Nat /\ DOMAIN e.devices = 1 .. Len(e.devices) /\ r \in 0 .. Len(e.devices) /\ r # 0
      BY RowsOf DEF Whole, IsEditor
    <2> QED BY <2>1
  <1> HIDE DEF n
  <1>3. Good(k) /\ Kept(k) /\ k.devices = e.devices /\ k.panel.form.of = 0
    <2>1. Clears(e, k)
      BY ClearDoes
    <2> HIDE DEF k
    <2> QED BY <2>1, ClosedKeeps DEF Clears
  <1> HIDE DEF k
  <1>4. Good(w) /\ Kept(w) /\ w.devices = e.devices
    <2>1. CASE n = 0
      <3>1. w = k
        BY <2>1 DEF D!NextShown
      <3> QED BY <1>3, <3>1
    <2>2. CASE n # 0
      <3>1. w = D!ShowDevice(k, n, TRUE)
        BY <2>2 DEF D!NextShown
      <3>2. n \in DOMAIN k.devices /\ ~D!Open(k.panel)
        BY <1>2, <1>3, <2>2 DEF D!Open
      <3> HIDE DEF w
      <3>3. ShowsRow(k, n, w) /\ Kept(w)
        BY <1>3, <3>1, <3>2, ShowDoes, ShowKept DEF Kept
      <3> QED BY <1>3, <3>2, <3>3 DEF ShowsRow
    <2> QED BY <2>1, <2>2
  <1> HIDE DEF w
  <1>5. /\ IsEditor(y) /\ y.devices = e.devices /\ y.panel = w.panel
    <2>1. /\ DOMAIN y = {"devices", "current", "panel", "past"}
          /\ y.devices = w.devices /\ y.panel = w.panel /\ y.past = w.past /\ y.current = r
      BY <1>4 DEF Good, Whole, IsEditor
    <2>2. r \in 0 .. Len(e.devices)
      BY <1>2
    <2> HIDE DEF y
    <2> QED BY <1>4, <2>1, <2>2 DEF Good, Whole, IsEditor
  <1> HIDE DEF y
  <1>6. Drops(y, r, z)
    BY <1>2, <1>5, ReplaceDoes
  <1> HIDE DEF z
  <1>7. DevicesFit(z.devices) /\ z.panel = w.panel /\ IsEditor(z)
    BY <1>2, <1>5, <1>6, DroppedFits DEF Drops, IsEditor
  <1>8. t.devices = z.devices /\ t.panel = z.panel
    BY <1>7 DEF IsEditor
  <1> HIDE DEF t
  <1>9. Kept(t)
    BY <1>4, <1>7, <1>8 DEF Kept, Has
  <1> QED BY <1>1, <1>9

LEMMA PutKept ==
    ASSUME NEW e, Whole(e), Kept(e), NEW kind, NEW doc, DeviceFits(kind, doc)
    PROVE  Kept(D!Put(e, kind, doc))
  <1> DEFINE d == D!NewDevice(e, kind, doc)
             a == D!AddDeviceToUsedDevList(e, d)
             t == [a EXCEPT !.past.since = "added"]
  <1>1. D!Put(e, kind, doc) = t
    BY DEF D!Put
  <1>2. d.id = 1 + Len(e.devices) + Cardinality(e.past.gone) /\ d.kind = kind /\ d.doc = doc
    BY SameCount DEF D!NewDevice
  <1> HIDE DEF d
  <1>3. d.id \in Nat \ {0}
    <2>1. Len(e.devices) \in Nat /\ Cardinality(e.past.gone) \in Nat
      BY RowsOf, FS_CardinalityType DEF Whole, IsEditor, IsPast
    <2> QED BY <1>2, <2>1
  <1>4. IsEditor(a) /\ DevicesFit(a.devices) /\ a.panel = e.panel
    BY <1>2, <1>3, AddDoes, AddFits DEF Whole, Kept, Has, Adds
  <1> HIDE DEF a
  <1>5. t.devices = a.devices /\ t.panel = a.panel
    BY <1>4 DEF IsEditor
  <1> HIDE DEF t
  <1> QED BY <1>1, <1>4, <1>5 DEF Kept, Has

LEMMA SetEmulatorKept ==
    ASSUME WordsFit, NEW e, Good(e), Kept(e), NEW doc, DeviceFits("emulator", doc)
    PROVE  Kept(D!SetEmulator(e, doc))
  <1> DEFINE old == D!Others(e.devices, "emulator")
             m == D!Min(old)
             x == IF old = {} THEN e ELSE IF m = e.current THEN D!TakeCurrent(e) ELSE D!Replace(e, m)
  <1>1. D!SetEmulator(e, doc) = D!Put(x, "emulator", doc)
    BY DEF D!SetEmulator
  <1>2. old # {} => m \in DOMAIN e.devices /\ m # 0
    <2>1. old \subseteq DOMAIN e.devices /\ DOMAIN e.devices = 1 .. Len(e.devices)
      BY RowsOf DEF D!Others, Good, Whole, IsEditor
    <2> HIDE DEF old
    <2>2. SUFFICES ASSUME old # {} PROVE m \in old
      BY <2>1
    <2>3. old \subseteq Nat
      BY <2>1
    <2> QED BY <2>2, <2>3, MinOfRows
  <1> HIDE DEF m
  <1>3. Whole(x) /\ Kept(x)
    <2>1. CASE old = {}
      BY <2>1 DEF Good
    <2>2. CASE old # {} /\ m = e.current
      <3>1. x = D!TakeCurrent(e)
        BY <2>2
      <3> HIDE DEF x
      <3>2. Whole(e) /\ e.current # 0 /\ DevicesFit(e.devices)
        BY <1>2, <2>2 DEF Good, Kept, Has
      <3>3. TakesCurrent(e, x) /\ Kept(x)
        BY <3>1, <3>2, TakeCurrentDoes, TakeCurrentKept
      <3> QED BY <3>3 DEF TakesCurrent, Good
    <2>3. CASE old # {} /\ m # e.current
      <3>1. x = D!Replace(e, m)
        BY <2>3
      <3> HIDE DEF x
      <3>2. IsEditor(e) /\ IsDevices(e.devices) /\ DevicesFit(e.devices) /\ m \in DOMAIN e.devices
        BY <1>2, <2>3 DEF Good, Whole, IsEditor, Kept, Has
      <3>3. Drops(e, m, x)
        BY <3>1, <3>2, ReplaceDoes
      <3>4. Kept(x)
        <4>1. DevicesFit(x.devices) /\ x.panel = e.panel
          BY <3>2, <3>3, DroppedFits DEF Drops
        <4> QED BY <4>1 DEF Kept, Has
      <3>5. ASSUME ~x.past.spoilt PROVE Holds(x.devices, x.past.gone)
        <4>1. Holds(e.devices, e.past.gone) /\ IsDevices(e.devices)
          BY <3>3, <3>5 DEF Drops, Good, Whole, IsEditor
        <4>2. Holds(D!RemoveAt(e.devices, m), e.past.gone \cup {e.devices[m].id})
          BY <3>2, <4>1, HoldsLess
        <4> QED BY <3>3, <4>2 DEF Drops
      <3> QED BY <3>3, <3>4, <3>5 DEF Drops, Whole
    <2> QED BY <2>1, <2>2, <2>3
  <1> HIDE DEF x
  <1> QED BY <1>1, <1>3, PutKept

LEMMA DetectedKept ==
    ASSUME NEW list, \A i \in DOMAIN list : DeviceFits(list[i][1], list[i][2])
    PROVE  Kept(D!Detected(list))
  <1> DEFINE e == D!Detected(list)
  <1>1. /\ e.devices = [i \in DOMAIN list |-> [id |-> i, kind |-> list[i][1], doc |-> list[i][2]]]
        /\ e.panel.form.of = 0
    BY DEF D!Detected, D!NoForm
  <1> HIDE DEF e
  <1>2. DevicesFit(e.devices)
    BY <1>1 DEF DevicesFit
  <1>3. Kept(e)
    BY <1>1, <1>2, ClosedKeeps
  <1> QED BY <1>3 DEF e

----------------------------------------------------------------------------
(* The steps of DeviceEditor.                                              *)

TabKept == Kept(D!Now) /\ StackFits(stack)

LEMMA KeptIs ==
    /\ Kept(D!Now) <=> DevicesFit(devices) /\ FormFits(panel.form) /\ PanelAgrees(panel)
    /\ Kept(D!Now)' <=> DevicesFit(devices') /\ FormFits(panel'.form) /\ PanelAgrees(panel')
  BY NowIs, NowIsNext DEF Kept, Has, DevicesFit, FormFits, PanelAgrees

LEMMA BecomesKept ==
    ASSUME NEW x, Kept(x), D!Become(x), StackFits(stack), stack' = stack
    PROVE  TabKept'
  <1>1. DevicesFit(devices') /\ FormFits(panel'.form) /\ PanelAgrees(panel')
    BY DEF D!Become, Kept, Has
  <1>2. StackFits(stack)'
    BY DEF StackFits
  <1> QED BY <1>1, <1>2, KeptIs DEF TabKept

\* A step of the panel alone.
LEMMA PanelKept ==
    ASSUME TabKept, UNCHANGED <<devices, stack>>, FormFits(panel'.form), PanelAgrees(panel')
    PROVE  TabKept'
  <1>1. DevicesFit(devices')
    BY KeptIs DEF TabKept
  <1>2. StackFits(stack)'
    BY DEF StackFits, TabKept
  <1> QED BY <1>1, <1>2, KeptIs DEF TabKept

LEMMA SelectFits ==
    ASSUME WordsFit, TabGood, TabKept, NEW r \in DOMAIN devices, NEW ok, D!Select(r, ok)
    PROVE  TabKept'
  <1> DEFINE e == D!Now
  <1>1. e.devices = devices /\ Good(e) /\ Has(e)
    BY NowIs DEF TabGood, TabKept, Kept
  <1>2. D!Become(D!ShowDevice(e, r, ok)) /\ stack' = stack
    BY DEF D!Select
  <1> HIDE DEF e
  <1>3. Kept(D!ShowDevice(e, r, ok))
    BY <1>1, ShowKept
  <1> QED BY <1>2, <1>3, BecomesKept DEF TabKept

\* The form of the panel that is open.
LEMMA OpenPanel ==
    ASSUME WordsFit, TabGood, TabKept, D!Open(panel)
    PROVE  /\ DOMAIN panel = {"form", "saved", "changed"}
           /\ DOMAIN panel.form = {"of", "kind", "row", "read", "settled", "shown", "first", "current"}
           /\ panel.form.kind \in DOMAIN FormOf /\ Worded(FormOf[panel.form.kind])
           /\ IsShown(FormOf[panel.form.kind], panel.form.shown)
           /\ Describes(FormOf[panel.form.kind], panel.form.first)
           /\ Describes(FormOf[panel.form.kind], panel.form.current)
           /\ panel.saved /\ panel.form.read =>
                  SteadyAgrees(FormOf[panel.form.kind], panel.form.shown, panel.form.current)
  <1>1. FormFits(panel.form) /\ PanelAgrees(panel)
    BY KeptIs DEF TabKept
  <1> QED BY <1>1, PanelIs, FormOfFits DEF IsPanel, FormFits, DeviceFits, PanelAgrees, D!Open

\* The form of the panel now shows s, and holds doc as what is saved.
LEMMA ShowsNow ==
    ASSUME WordsFit, TabGood, TabKept, D!Open(panel), UNCHANGED <<devices, stack>>,
           NEW s, IsShown(FormOf[panel.form.kind], s),
           NEW doc, Describes(FormOf[panel.form.kind], doc),
           panel'.form.kind = panel.form.kind, panel'.form.shown = s, panel'.form.current = doc,
           panel'.form.first = panel.form.first,
           panel'.saved /\ panel'.form.read => SteadyAgrees(FormOf[panel.form.kind], s, doc)
    PROVE  TabKept'
  <1>1. FormFits(panel'.form)
    BY OpenPanel DEF FormFits, DeviceFits
  <1>2. PanelAgrees(panel')
    BY DEF PanelAgrees
  <1> QED BY <1>1, <1>2, PanelKept

LEMMA ReadFits ==
    ASSUME WordsFit, TabGood, TabKept, D!DeviceDataProcessed
    PROVE  TabKept'
  <1> DEFINE form == FormOf[panel.form.kind]
             doc == panel.form.current
             s == Read(form, panel.form.shown, doc)
  <1>1. D!Open(panel) /\ UNCHANGED <<devices, stack>>
    BY DEF D!DeviceDataProcessed
  <1>2. Describes(form, doc) /\ IsShown(form, s) /\ SteadyAgrees(form, s, doc)
    BY <1>1, OpenPanel, ReadIsKept
  <1>3. D!Read(form, panel.form.shown, doc) = s
    BY SameRead
  <1> HIDE DEF s
  <1>4. /\ panel'.form.kind = panel.form.kind /\ panel'.form.shown = s /\ panel'.form.current = doc
        /\ panel'.form.first = panel.form.first
    BY <1>1, <1>3, OpenPanel DEF D!DeviceDataProcessed
  <1> QED BY <1>1, <1>2, <1>4, ShowsNow

LEMMA ShownFits ==
    ASSUME WordsFit, TabGood, TabKept, D!Open(panel), panel.form.read, UNCHANGED <<devices, stack>>,
           NEW s, IsShown(FormOf[panel.form.kind], s),
           panel'.form.kind = panel.form.kind, panel'.form.shown = s,
           panel'.form.current = panel.form.current, panel'.form.first = panel.form.first,
           panel'.saved => panel.saved /\ ~D!Told(FormOf[panel.form.kind], panel.form.shown, s)
    PROVE  TabKept'
  <1> DEFINE form == FormOf[panel.form.kind]
  <1>1. panel'.saved => SteadyAgrees(form, s, panel.form.current)
    BY OpenPanel, QuietIsKept, SameTold
  <1> QED BY <1>1, OpenPanel, ShowsNow

LEMMA SettleFits ==
    ASSUME WordsFit, TabGood, TabKept, D!Settle
    PROVE  TabKept'
  <1> DEFINE form == FormOf[panel.form.kind]
             s == Settled(form, panel.form.shown)
  <1>1. D!Open(panel) /\ panel.form.read /\ UNCHANGED <<devices, stack>>
    BY DEF D!Settle
  <1>2. IsShown(form, s)
    BY <1>1, OpenPanel, SettledIsShown
  <1>3. D!Settled(form, panel.form.shown) = s
    BY SameSettled
  <1> HIDE DEF s
  <1>4. /\ panel'.form.kind = panel.form.kind /\ panel'.form.shown = s
        /\ panel'.form.current = panel.form.current /\ panel'.form.first = panel.form.first
        /\ panel'.saved = (panel.saved /\ ~D!Told(form, panel.form.shown, s))
    BY <1>1, <1>3, OpenPanel DEF D!Settle
  <1> QED BY <1>1, <1>2, <1>4, ShownFits

LEMMA EditFits ==
    ASSUME WordsFit, TabGood, TabKept, D!Edit
    PROVE  TabKept'
  <1> DEFINE form == FormOf[panel.form.kind]
  <1>1. D!Open(panel) /\ panel.form.read /\ UNCHANGED <<devices, stack>>
    BY DEF D!Edit, D!PanelOpen
  <1>2. PICK e \in Edits(form, panel.form.shown) : D!Shown(Pick(panel.form.shown, e[1], e[2]))
    BY SameEdits, SamePick DEF D!Edit
  <1> DEFINE s == Pick(panel.form.shown, e[1], e[2])
  <1>3. IsShown(form, s)
    BY <1>1, OpenPanel, PickIsShown
  <1>4. D!Shown(s)
    BY <1>2
  <1> HIDE DEF s
  <1>5. /\ panel'.form.kind = panel.form.kind /\ panel'.form.shown = s
        /\ panel'.form.current = panel.form.current /\ panel'.form.first = panel.form.first
        /\ panel'.saved = (panel.saved /\ ~D!Told(form, panel.form.shown, s))
    BY <1>1, <1>4, OpenPanel DEF D!Shown
  <1> QED BY <1>1, <1>3, <1>5, ShownFits

LEMMA RestoreFits ==
    ASSUME WordsFit, TabGood, TabKept, D!Open(panel), UNCHANGED <<devices, stack>>,
           NEW doc, Describes(FormOf[panel.form.kind], doc), D!Restored(doc)
    PROVE  TabKept'
  <1> DEFINE form == FormOf[panel.form.kind]
             s == Read(form, panel.form.shown, doc)
  <1>1. IsShown(form, s) /\ SteadyAgrees(form, s, doc)
    BY OpenPanel, ReadIsKept
  <1>2. D!Read(form, panel.form.shown, doc) = s
    BY SameRead
  <1> HIDE DEF s
  <1>3. /\ panel'.form.kind = panel.form.kind /\ panel'.form.shown = s /\ panel'.form.current = doc
        /\ panel'.form.first = panel.form.first
    BY <1>2, OpenPanel DEF D!Restored
  <1> QED BY <1>1, <1>3, ShowsNow

LEMMA SaveFits ==
    ASSUME WordsFit, TabGood, TabKept, D!Save
    PROVE  TabKept'
  <1> DEFINE e == D!Now
  <1>1. Good(e) /\ Has(e)
    BY DEF TabGood, TabKept, Kept
  <1>2. D!Become(D!SaveDeviceData(e)) /\ stack' = stack
    BY DEF D!Save
  <1> HIDE DEF e
  <1>3. Kept(D!SaveDeviceData(e))
    BY <1>1, SaveDataHas
  <1> QED BY <1>2, <1>3, BecomesKept DEF TabKept

LEMMA CloseFits ==
    ASSUME WordsFit, TabGood, TabKept, NEW ok, D!Close(ok)
    PROVE  TabKept'
  <1> DEFINE e == D!Now
  <1>1. Good(e) /\ Has(e)
    BY DEF TabGood, TabKept, Kept
  <1>2. D!Become(D!CloseDataEdit(e, ok)) /\ stack' = stack
    BY DEF D!Close
  <1> HIDE DEF e
  <1>3. Kept(D!CloseDataEdit(e, ok))
    BY <1>1, CloseKept
  <1> QED BY <1>2, <1>3, BecomesKept DEF TabKept

LEMMA DeleteFits ==
    ASSUME WordsFit, TabGood, TabKept, NEW ok, D!Delete(ok)
    PROVE  TabKept'
  <1> DEFINE e == D!Now
             s == D!TakeCurrent(e)
  <1>1. Good(e) /\ Has(e) /\ e.current = current
    BY NowIs DEF TabGood, TabKept, Kept
  <1>2. D!Become(D!CloseDataEdit(s, ok)) /\ stack' = stack /\ current # 0
    BY DEF D!Delete
  <1> HIDE DEF e
  <1>3. Good(s) /\ Has(s)
    BY <1>1, <1>2, TakeCurrentDoes, TakeCurrentKept DEF Good, Has, TakesCurrent, Kept
  <1> HIDE DEF s
  <1>4. Kept(D!CloseDataEdit(s, ok))
    BY <1>3, CloseKept
  <1> QED BY <1>2, <1>4, BecomesKept DEF TabKept

LEMMA StackStep ==
    ASSUME TabKept, UNCHANGED <<devices, panel>>, StackFits(stack')
    PROVE  TabKept'
  <1>1. DevicesFit(devices) /\ FormFits(panel.form) /\ PanelAgrees(panel)
    BY KeptIs DEF TabKept
  <1>2. DevicesFit(devices') /\ FormFits(panel'.form) /\ PanelAgrees(panel')
    BY <1>1
  <1> QED BY <1>2, KeptIs DEF TabKept

LEMMA StackOpensFits ==
    ASSUME TabKept, D!ShowDeviceStack
    PROVE  TabKept'
  <1>1. StackFits(stack')
    BY DEF D!ShowDeviceStack, TabKept, StackFits
  <1> QED BY <1>1, StackStep DEF D!ShowDeviceStack

LEMMA ShowNewFits ==
    ASSUME WordsFit, TabKept, NEW k \in DOMAIN NewFormOf, D!ShowNewDevice(k)
    PROVE  TabKept'
  <1>1. D!First(NewFormOf[k]) = First(NewFormOf[k]) /\ IsShown(NewFormOf[k], First(NewFormOf[k]))
    BY SameFirst, FirstIsShown DEF WordsFit
  <1>2. StackFits(stack')
    BY <1>1 DEF D!ShowNewDevice, TabKept, StackFits
  <1> QED BY <1>2, StackStep DEF D!ShowNewDevice

LEMMA NewProcessedFits ==
    ASSUME TabKept, D!NewDeviceProcessed
    PROVE  TabKept'
  <1>1. StackFits(stack')
    BY DEF D!NewDeviceProcessed, TabKept, StackFits
  <1> QED BY <1>1, StackStep DEF D!NewDeviceProcessed

LEMMA EditNewFits ==
    ASSUME WordsFit, TabKept, D!EditNewDevice
    PROVE  TabKept'
  <1> DEFINE d == stack.device
             form == NewFormOf[d.kind]
  <1>1. StackFits(stack) /\ d.kind # "none" /\ UNCHANGED <<devices, panel>>
    BY DEF TabKept, D!EditNewDevice
  <1>2. PICK e \in D!Edits(form, d.shown) : stack' = [stack EXCEPT !.device.shown = D!Pick(d.shown, e[1], e[2])]
    BY DEF D!EditNewDevice
  <1>3. /\ d.kind \in DOMAIN NewFormOf /\ Worded(form) /\ IsShown(form, d.shown)
        /\ e \in Edits(form, d.shown)
    BY <1>1, SameEdits DEF StackFits, WordsFit
  <1> DEFINE s == Pick(d.shown, e[1], e[2])
  <1>4. IsShown(form, s)
    BY <1>3, PickIsShown
  <1>5. stack' = [stack EXCEPT !.device.shown = s]
    BY <1>2, SamePick
  <1> HIDE DEF s
  <1>6. StackFits(stack')
    BY <1>1, <1>4, <1>5 DEF StackFits
  <1> QED BY <1>1, <1>6, StackStep

LEMMA AddDeviceFits ==
    ASSUME WordsFit, TabGood, TabKept, NEW accepted, NEW ok, D!AddDevice(accepted, ok)
    PROVE  TabKept'
  <1> DEFINE d == stack.device
             form == NewFormOf[d.kind]
             doc == Write(form, d.shown)
             e == D!Now
             p == D!Put(e, d.kind, doc)
  <1>1. StackFits(stack')
    BY DEF D!AddDevice, TabKept, StackFits, D!NoDevice
  <1>2. \/ D!Become(e)
        \/ d.kind # "none" /\ form.order # <<>> /\ D!Become(D!CloseDataEdit(p, ok))
    BY SameWrite DEF D!AddDevice
  <1>3. Good(e) /\ Kept(e)
    BY DEF TabGood, TabKept
  <1> HIDE DEF e
  <1>4. ASSUME d.kind # "none", form.order # <<>> PROVE Kept(D!CloseDataEdit(p, ok))
    <2>1. d.kind \in DOMAIN NewFormOf /\ IsShown(form, d.shown)
      BY <1>4 DEF TabKept, StackFits
    <2>2. Worded(form) /\ d.kind \in DOMAIN FormOf /\ Worded(FormOf[d.kind]) /\ Alike(form, FormOf[d.kind])
      BY <1>4, <2>1 DEF WordsFit
    <2>3. Describes(FormOf[d.kind], doc)
      BY <2>1, <2>2, WriteDescribes, AlikeDescribes
    <2> HIDE DEF doc
    <2>4. Good(p) /\ Kept(p)
      BY <1>3, <2>2, <2>3, PutDoes, PutKept DEF PutIn, Good, DeviceFits
    <2> HIDE DEF p
    <2> QED BY <2>4, CloseKept DEF Kept
  <1> DEFINE c == D!CloseDataEdit(p, ok)
  <1> HIDE DEF c, d
  <1>5. \E x : D!Become(x) /\ Kept(x)
    BY <1>2, <1>3, <1>4 DEF c
  <1>6. DevicesFit(devices') /\ FormFits(panel'.form) /\ PanelAgrees(panel')
    BY <1>5 DEF D!Become, Kept, Has
  <1> QED BY <1>1, <1>6, KeptIs DEF TabKept

LEMMA TabStaysKept ==
    ASSUME TabKept, UNCHANGED <<devices, panel, stack>>
    PROVE  TabKept'
  BY StackStep DEF TabKept

LEMMA TabKeepsForms ==
    ASSUME WordsFit, TabGood, TabKept, D!Next
    PROVE  TabKept'
  <1>1. ASSUME NEW r \in DOMAIN devices, NEW ok \in D!Answers, D!Select(r, ok) PROVE TabKept'
    BY <1>1, SelectFits
  <1>2. CASE D!DeviceDataProcessed
    BY <1>2, ReadFits
  <1>3. CASE D!Settle
    BY <1>3, SettleFits
  <1>4. CASE D!Edit
    BY <1>4, EditFits
  <1>5. CASE D!Save
    BY <1>5, SaveFits
  <1>6. CASE D!Revert
    BY <1>6, OpenPanel, RestoreFits DEF D!Revert, D!PanelOpen
  <1>7. CASE D!Reset
    BY <1>7, OpenPanel, RestoreFits DEF D!Reset, D!PanelOpen
  <1>8. CASE D!ShowDeviceStack
    BY <1>8, StackOpensFits
  <1>9. ASSUME NEW k \in DOMAIN NewFormOf, D!ShowNewDevice(k) PROVE TabKept'
    BY <1>9, ShowNewFits
  <1>10. CASE D!NewDeviceProcessed
    BY <1>10, NewProcessedFits
  <1>11. CASE D!EditNewDevice
    BY <1>11, EditNewFits
  <1>12. ASSUME NEW ok, D!Close(ok) PROVE TabKept'
    BY <1>12, CloseFits
  <1>13. ASSUME NEW ok, D!Delete(ok) PROVE TabKept'
    BY <1>13, DeleteFits
  <1>14. ASSUME NEW ok, NEW accepted, D!AddDevice(accepted, ok) PROVE TabKept'
    BY <1>14, AddDeviceFits
  <1> QED BY <1>1, <1>2, <1>3, <1>4, <1>5, <1>6, <1>7, <1>8, <1>9, <1>10, <1>11, <1>12, <1>13, <1>14
          DEF D!Next

----------------------------------------------------------------------------
(* What the forms of the other tabs show and hold.                         *)

TabHas(t, b) ==
    /\ DOMAIN b = {"shown", "saved", "current", "first"}
    /\ TabFits(t, b.first) /\ TabFits(t, b.current) /\ IsShown(TabForm[t], b.shown)
TabAgrees(t, b) == b.saved => SteadyAgrees(TabForm[t], b.shown, b.current)

\* Every tab agrees with what it has saved but t, which is about to change.
FairBut(t, w) ==
    /\ IsWindow(w) /\ Good(w.dev) /\ Kept(w.dev)
    /\ \A u \in DOMAIN w.tabs : TabHas(u, w.tabs[u]) /\ (u # t => TabAgrees(u, w.tabs[u]))
Fair(w) ==
    /\ IsWindow(w) /\ Good(w.dev) /\ Kept(w.dev)
    /\ \A u \in DOMAIN w.tabs : TabHas(u, w.tabs[u]) /\ TabAgrees(u, w.tabs[u])

LEMMA TabFormFits ==
    ASSUME WordsFit, NEW t, NEW b, TabHas(t, b)
    PROVE  /\ t \in DOMAIN TabForm /\ Worded(TabForm[t]) /\ IsShown(TabForm[t], b.shown)
           /\ Describes(TabForm[t], b.current) /\ Describes(TabForm[t], b.first)
  BY DEF TabHas, TabFits, WordsFit

\* The choice of an architecture changes the tab of the CPU, which is then not saved.
LEMMA ChangeArchDoes ==
    ASSUME WordsFit, ArchFits, NEW b, TabHas("CPU", b)
    PROVE  TabHas("CPU", ChangeArch(b)) /\ ~ChangeArch(b).saved
  <1> DEFINE form == TabForm["CPU"]
             s == WithModelsOf(b.shown)
             r == ChangeArch(b).shown
  <1>1. "CPU" \in DOMAIN TabForm /\ Worded(form) /\ IsState(form, b.shown)
    BY TabFormFits, ShownIsState
  <1>2. /\ "vcpu" \in Names(form) /\ "current" \in Names(form) /\ "model" \in Names(form)
        /\ "currModel" \in Names(form) /\ "sockets" \in Names(form)
        /\ Guards(form) = {}
    BY <1>1 DEF ArchFits
  <1>3. PICK i \in DOMAIN form.order : form.order[i].name = "vcpu" /\ form.at["vcpu"] = form.order[i]
    BY <1>1, <1>2, AtIs
  <1>4. ChangeArch(b) = [b EXCEPT !.shown = r, !.saved = FALSE] /\ (r = s \/ r = Change(s, form.order[i], s.sockets))
    BY <1>3 DEF ChangeArch, TabHas
  <1>5. IsState(form, s)
    <2> HIDE DEF form
    <2>1. "1" # Absent
      BY DEF Absent
    <2>2. DOMAIN s = DOMAIN b.shown /\ \A n \in DOMAIN b.shown : s[n] \in {b.shown[n], "1", b.shown.currModel}
      BY DEF WithModelsOf
    <2> QED BY <1>1, <1>2, <2>1, <2>2 DEF IsState
  <1> DEFINE v == s.sockets
  <1> HIDE DEF s, r, form
  <1>6. v # Absent
    BY <1>2, <1>5 DEF IsState
  <1>7. IsState(form, r)
    <2>1. r = s \/ r = Change(s, form.order[i], v)
      BY <1>4
    <2> HIDE DEF v
    <2>2. IsState(form, Change(s, form.order[i], v))
      BY <1>1, <1>3, <1>5, <1>6, ChangeKeeps
    <2> QED BY <1>5, <2>1, <2>2
  <1> DEFINE c == [b EXCEPT !.shown = r, !.saved = FALSE]
  <1>8. /\ DOMAIN c = {"shown", "saved", "current", "first"} /\ c.shown = r /\ ~c.saved
        /\ c.current = b.current /\ c.first = b.first
    BY DEF TabHas
  <1>9. TabHas("CPU", c)
    <2> HIDE DEF c
    <2>1. IsShown(form, r)
      BY <1>2, <1>7, UnguardedIsShown
    <2> QED BY <1>8, <2>1 DEF TabHas, form
  <1> QED BY <1>4, <1>8, <1>9

LEMMA EmulatorFair ==
    ASSUME WordsFit, DocsFit, NEW t, NEW w, FairBut(t, w), NEW path \in {"qemu", ""}
    PROVE  FairBut(t, SetEmulator(w, path)) /\ SetEmulator(w, path).tabs = w.tabs
  <1> DEFINE x == SetEmulator(w, path)
             e == D!SetEmulator(w.dev, Emulator[path])
  <1>1. IsWindow(x) /\ x.tabs = w.tabs /\ x.dev = e
    BY DEF SetEmulator, IsWindow, FairBut
  <1>2. DeviceFits("emulator", Emulator[path])
    BY DEF DocsFit
  <1>3. Good(e) /\ Kept(e)
    BY <1>2, SetEmulatorDoes, SetEmulatorKept DEF Emulates, FairBut
  <1> HIDE DEF x, e
  <1>4. FairBut(t, x) /\ x.tabs = w.tabs
    BY <1>1, <1>3 DEF FairBut
  <1> QED BY <1>4 DEF x

\* The tab that tells of its architecture stays as it is.
ToldBut(t, w, x) ==
    /\ FairBut(t, x) /\ DOMAIN x.tabs = DOMAIN w.tabs
    /\ t \in DOMAIN w.tabs => x.tabs[t] = w.tabs[t]

LEMMA ToldCPUFair ==
    ASSUME WordsFit, ArchFits, NEW t, t # "CPU", NEW w, FairBut(t, w)
    PROVE  ToldBut(t, w, ToldCPU(w))
  <1> DEFINE c == ChangeArch(w.tabs["CPU"])
             x == [w EXCEPT !.tabs["CPU"] = c]
  <1>1. CASE "CPU" \in DOMAIN w.tabs
    <2>1. ToldCPU(w) = x
      BY <1>1 DEF ToldCPU
    <2>2. TabHas("CPU", c) /\ ~c.saved
      BY <1>1, ChangeArchDoes DEF FairBut
    <2> HIDE DEF c
    <2>3. /\ DOMAIN x = {"dev", "tabs"} /\ x.dev = w.dev /\ DOMAIN x.tabs = DOMAIN w.tabs
          /\ x.tabs["CPU"] = c /\ \A u \in DOMAIN w.tabs \ {"CPU"} : x.tabs[u] = w.tabs[u]
      BY <1>1 DEF FairBut, IsWindow
    <2> HIDE DEF x
    <2>4. FairBut(t, x)
      BY <2>2, <2>3 DEF FairBut, IsWindow, TabAgrees
    <2> QED BY <2>1, <2>3, <2>4 DEF ToldBut
  <1>2. CASE "CPU" \notin DOMAIN w.tabs
    <2>1. ToldCPU(w) = w
      BY <1>2 DEF ToldCPU
    <2> QED BY <2>1 DEF ToldBut
  <1> QED BY <1>1, <1>2

LEMMA ArchChangedFair ==
    ASSUME EditorsFit, NEW t, NEW w, FairBut(t, w)
    PROVE  ToldBut(t, w, ArchChanged(w, t))
  <1> USE DEF EditorsFit
  <1> DEFINE s == SetEmulator(w, "qemu")
  <1>1. FairBut(t, s) /\ s.tabs = w.tabs
    BY EmulatorFair
  <1> HIDE DEF s
  <1>2. CASE t = "OS_Booting"
    <2>1. ArchChanged(w, t) = ToldCPU(s)
      BY <1>2 DEF ArchChanged, s
    <2>2. ToldBut(t, s, ToldCPU(s))
      BY <1>1, <1>2, ToldCPUFair
    <2> QED BY <1>1, <2>1, <2>2 DEF ToldBut
  <1>3. CASE t # "OS_Booting"
    <2>1. ArchChanged(w, t) = s
      BY <1>3 DEF ArchChanged, s
    <2> QED BY <1>1, <2>1 DEF ToldBut
  <1> QED BY <1>2, <1>3

LEMMA BootFair ==
    ASSUME EditorsFit, NEW t, NEW w, FairBut(t, w), NEW s, NEW r
    PROVE  ToldBut(t, w, Boot(w, t, s, r))
  <1>1. ToldBut(t, w, w)
    BY DEF ToldBut
  <1>2. ToldBut(t, w, ArchChanged(w, t))
    BY ArchChangedFair
  <1>3. ToldBut(t, w, SetEmulator(w, ""))
    BY EmulatorFair DEF EditorsFit, ToldBut
  <1>4. Boot(w, t, s, r) \in {w, ArchChanged(w, t), SetEmulator(w, "")}
    BY DEF Boot
  <1> QED BY <1>1, <1>2, <1>3, <1>4

\* A tab shows r, and the others hear of it.
ShowsIn(t, r, w, x) ==
    /\ FairBut(t, x) /\ DOMAIN x.tabs = DOMAIN w.tabs /\ x.tabs[t].shown = r
    /\ x.tabs[t].saved = w.tabs[t].saved
    /\ x.tabs[t].current = w.tabs[t].current /\ x.tabs[t].first = w.tabs[t].first

LEMMA ShowInFair ==
    ASSUME EditorsFit, NEW w, NEW t \in DOMAIN w.tabs, FairBut(t, w), NEW r, IsShown(TabForm[t], r)
    PROVE  ShowsIn(t, r, w, ShowIn(w, t, r))
  <1> DEFINE x == [w EXCEPT !.tabs[t].shown = r]
             y == ShowIn(w, t, r)
  <1>1. /\ DOMAIN x = {"dev", "tabs"} /\ x.dev = w.dev /\ DOMAIN x.tabs = DOMAIN w.tabs
        /\ x.tabs[t] = [w.tabs[t] EXCEPT !.shown = r] /\ \A u \in DOMAIN w.tabs \ {t} : x.tabs[u] = w.tabs[u]
    BY DEF FairBut, IsWindow
  <1>2. y = Boot(x, t, w.tabs[t].shown, r)
    BY DEF ShowIn
  <1> HIDE DEF x, y
  <1>3. TabHas(t, w.tabs[t])
    BY DEF FairBut
  <1>4. /\ x.tabs[t].shown = r /\ x.tabs[t].saved = w.tabs[t].saved
        /\ x.tabs[t].current = w.tabs[t].current /\ x.tabs[t].first = w.tabs[t].first
        /\ DOMAIN x.tabs[t] = DOMAIN w.tabs[t]
    BY <1>1, <1>3 DEF TabHas
  <1>5. TabHas(t, x.tabs[t])
    BY <1>3, <1>4 DEF TabHas
  <1>6. FairBut(t, x)
    BY <1>1, <1>5 DEF FairBut, IsWindow
  <1>7. ToldBut(t, x, y)
    BY <1>2, <1>6, BootFair
  <1>8. ShowsIn(t, r, w, y)
    BY <1>1, <1>4, <1>7 DEF ToldBut, ShowsIn
  <1> QED BY <1>8 DEF y

\* What a tab reads.  The model that the CPU tab remembers is not written.
LEMMA ReadTabFits ==
    ASSUME WordsFit, ArchFits, NEW t \in DOMAIN TabForm, NEW s, IsShown(TabForm[t], s),
           NEW d, Describes(TabForm[t], d)
    PROVE  IsShown(TabForm[t], ReadTab(t, s, d)) /\ SteadyAgrees(TabForm[t], ReadTab(t, s, d), d)
  <1> DEFINE form == TabForm[t]
             r == Read(form, s, d)
             v == Shows(form.at.model, s, d.model)
             x == [r EXCEPT !.currModel = v]
  <1>1. Worded(form)
    BY DEF WordsFit
  <1>2. IsShown(form, r) /\ SteadyAgrees(form, r, d)
    BY <1>1, ReadIsKept
  <1>3. CASE ~(t = "CPU" /\ d.model # Absent)
    <2>1. ReadTab(t, s, d) = r
      BY <1>3 DEF ReadTab
    <2> QED BY <1>2, <2>1
  <1>4. CASE t = "CPU" /\ d.model # Absent
    <2>1. ReadTab(t, s, d) = x
      BY <1>4 DEF ReadTab
    <2>2. /\ Guards(form) = {} /\ "model" \in Names(form) /\ "currModel" \in Names(form) /\ IsInner(form.at["currModel"])
          /\ \A m \in Names(form) \ {"currModel"} :
                \A c \in form.at[m].when \cup form.at[m].any : c[1] \in Names(form) \ {"currModel"}
      BY <1>4 DEF ArchFits
    <2> HIDE DEF form, r
    <2>3. v # Absent
      <3>1. PICK i \in DOMAIN form.order : form.order[i].name = "model" /\ form.at["model"] = form.order[i]
        BY <1>1, <2>2, AtIs
      <3>2. WordedField(form.at["model"])
        BY <1>1, <3>1 DEF Worded
      <3> QED BY <1>4, <3>2, ShowsSome
    <2> HIDE DEF v
    <2>4. DOMAIN x = DOMAIN r /\ \A n \in DOMAIN r : x[n] = IF n = "currModel" THEN v ELSE r[n]
      OBVIOUS
    <2> HIDE DEF x
    <2>5. IsState(form, r) /\ IsState(form, x)
      BY <1>2, <2>3, <2>4, ShownIsState DEF IsState
    <2>6. ASSUME NEW m \in Names(form)
          PROVE  WriteField(form.at[m], r) = WriteField(form.at[m], x)
      <3> DEFINE f == form.at[m]
      <3>1. CASE m = "currModel"
        <4>1. <<f.name, {}>> \in f.when
          BY <2>2, <3>1 DEF IsInner
        <4>2. ~Hold(f.when, r) /\ ~Hold(f.when, x)
          BY <4>1 DEF Hold
        <4> QED BY <4>2 DEF WriteField
      <3>2. CASE m # "currModel"
        <4>1. PICK i \in DOMAIN form.order : form.order[i].name = m /\ f = form.order[i]
          BY <1>1, AtIs
        <4>2. \A c \in f.when \cup f.any : c[1] \in Names(form) \ {"currModel"}
          BY <2>2, <3>2
        <4> HIDE DEF f
        <4>3. f.name = m
          BY <4>1
        <4>4. \A n \in Names(form) \ {"currModel"} : r[n] = x[n]
          BY <2>4, <2>5 DEF IsState
        <4> QED BY <3>2, <4>2, <4>3, <4>4 DEF WriteField, Hold, f
      <3> QED BY <3>1, <3>2
    <2>7. SteadyAgrees(form, x, d)
      BY <1>1, <1>2, <2>5, <2>6, AgreesAsWritten DEF SteadyAgrees
    <2>8. IsShown(form, x)
      BY <2>2, <2>5, UnguardedIsShown
    <2> QED BY <2>1, <2>7, <2>8 DEF form
  <1> QED BY <1>3, <1>4

\* A tab is saved, and agrees with what it has.
LEMMA NowSaved ==
    ASSUME NEW t, NEW w, FairBut(t, w), NEW x, x = [w EXCEPT !.tabs[t].saved = TRUE],
           t \in DOMAIN w.tabs, SteadyAgrees(TabForm[t], w.tabs[t].shown, w.tabs[t].current)
    PROVE  Fair(x) /\ DOMAIN x.tabs = DOMAIN w.tabs
  <1>1. /\ DOMAIN x = {"dev", "tabs"} /\ x.dev = w.dev /\ DOMAIN x.tabs = DOMAIN w.tabs
        /\ x.tabs[t] = [w.tabs[t] EXCEPT !.saved = TRUE]
        /\ \A u \in DOMAIN w.tabs \ {t} : x.tabs[u] = w.tabs[u]
    BY DEF FairBut, IsWindow
  <1>2. TabHas(t, w.tabs[t])
    BY DEF FairBut
  <1>3. TabHas(t, x.tabs[t]) /\ TabAgrees(t, x.tabs[t])
    BY <1>1, <1>2 DEF TabHas, TabAgrees
  <1> QED BY <1>1, <1>3 DEF Fair, FairBut, IsWindow

LEMMA RevertFair ==
    ASSUME EditorsFit, NEW w, NEW t \in DOMAIN w.tabs, FairBut(t, w)
    PROVE  Fair(RevertData(w, t)) /\ DOMAIN RevertData(w, t).tabs = DOMAIN w.tabs
  <1> DEFINE b == w.tabs[t]
             s == ReadTab(t, b.shown, b.current)
             r == ShowIn(w, t, s)
             x == [r EXCEPT !.tabs[t].saved = TRUE]
  <1>1. RevertData(w, t) = x
    BY DEF RevertData
  <1>2. /\ t \in DOMAIN TabForm /\ IsShown(TabForm[t], b.shown) /\ Describes(TabForm[t], b.current)
    BY TabFormFits DEF FairBut, EditorsFit
  <1>3. IsShown(TabForm[t], s) /\ SteadyAgrees(TabForm[t], s, b.current)
    BY <1>2, ReadTabFits DEF EditorsFit
  <1> HIDE DEF s
  <1>4. ShowsIn(t, s, w, r)
    BY <1>3, ShowInFair
  <1> HIDE DEF r
  <1>5. /\ FairBut(t, r) /\ DOMAIN r.tabs = DOMAIN w.tabs
        /\ SteadyAgrees(TabForm[t], r.tabs[t].shown, r.tabs[t].current)
    BY <1>3, <1>4 DEF ShowsIn
  <1>6. Fair(x) /\ DOMAIN x.tabs = DOMAIN w.tabs
    <2> DEFINE y == x
    <2>1. y = [r EXCEPT !.tabs[t].saved = TRUE]
      OBVIOUS
    <2> HIDE DEF y
    <2>2. Fair(y) /\ DOMAIN y.tabs = DOMAIN w.tabs
      BY <1>5, <2>1, NowSaved
    <2> QED BY <2>2 DEF y
  <1> QED BY <1>1, <1>6

\* A tab becomes b.
LEMMA TabIsNow ==
    ASSUME NEW w, Fair(w), NEW t \in DOMAIN w.tabs, NEW b, TabHas(t, b), TabAgrees(t, b),
           NEW x, x = [w EXCEPT !.tabs[t] = b]
    PROVE  Fair(x)
  <1>1. /\ DOMAIN x = {"dev", "tabs"} /\ x.dev = w.dev /\ DOMAIN x.tabs = DOMAIN w.tabs
        /\ x.tabs[t] = b /\ \A u \in DOMAIN w.tabs \ {t} : x.tabs[u] = w.tabs[u]
    BY DEF Fair, IsWindow
  <1> QED BY <1>1 DEF Fair, IsWindow

LEMMA SaveTabDoes ==
    ASSUME WordsFit, NEW t, NEW b, TabHas(t, b)
    PROVE  TabHas(t, SaveData(b, t)) /\ TabAgrees(t, SaveData(b, t))
  <1> DEFINE d == Write(TabForm[t], b.shown)
             c == SaveData(b, t)
  <1>1. t \in DOMAIN TabForm /\ Worded(TabForm[t]) /\ IsShown(TabForm[t], b.shown)
    BY TabFormFits
  <1>2. Describes(TabForm[t], d) /\ SteadyAgrees(TabForm[t], b.shown, d)
    BY <1>1, WriteDescribes, WrittenAgrees
  <1>3. c = [b EXCEPT !.current = d, !.saved = TRUE]
    BY DEF SaveData
  <1> HIDE DEF d, c
  <1>4. /\ DOMAIN c = {"shown", "saved", "current", "first"} /\ c.shown = b.shown
        /\ c.current = d /\ c.first = b.first
    BY <1>3 DEF TabHas
  <1>5. TabHas(t, c) /\ TabAgrees(t, c)
    BY <1>1, <1>2, <1>4 DEF TabHas, TabAgrees, TabFits
  <1> QED BY <1>5 DEF c

LEMMA CloseFair ==
    ASSUME EditorsFit, NEW w, Fair(w), NEW t, NEW ok
    PROVE  Fair(CloseDataEdit(w, t, ok))
  <1>1. CASE t = "Devices"
    <2> DEFINE c == D!CloseDataEdit(w.dev, ok)
               x == [w EXCEPT !.dev = c]
    <2>1. CloseDataEdit(w, t, ok) = x
      BY <1>1 DEF CloseDataEdit
    <2>2. DOMAIN x = {"dev", "tabs"} /\ x.dev = c /\ x.tabs = w.tabs
      BY DEF Fair, IsWindow
    <2>3. Good(c) /\ Kept(c)
      BY CloseDoes, CloseKept DEF Fair, Kept, EditorsFit, Closes
    <2> HIDE DEF c, x
    <2> QED BY <2>1, <2>2, <2>3 DEF Fair, IsWindow
  <1>2. CASE t # "Devices" /\ (t \notin DOMAIN w.tabs \/ w.tabs[t].saved)
    BY <1>2 DEF CloseDataEdit
  <1>3. CASE t # "Devices" /\ ~(t \notin DOMAIN w.tabs \/ w.tabs[t].saved) /\ ok
    <2> DEFINE b == SaveData(w.tabs[t], t)
    <2>1. TabHas(t, b) /\ TabAgrees(t, b)
      BY <1>3, SaveTabDoes DEF Fair, EditorsFit
    <2>2. CloseDataEdit(w, t, ok) = [w EXCEPT !.tabs[t] = b]
      BY <1>3 DEF CloseDataEdit
    <2> HIDE DEF b
    <2> QED BY <1>3, <2>1, <2>2, TabIsNow
  <1>4. CASE t # "Devices" /\ ~(t \notin DOMAIN w.tabs \/ w.tabs[t].saved) /\ ~ok
    <2>1. CloseDataEdit(w, t, ok) = RevertData(w, t) /\ FairBut(t, w)
      BY <1>4 DEF CloseDataEdit, Fair, FairBut
    <2> QED BY <1>4, <2>1, RevertFair
  <1> QED BY <1>1, <1>2, <1>3, <1>4

LEMMA VisitedFair ==
    ASSUME EditorsFit, NEW win, Fair(win), NEW n \in Nat, NEW seq, DOMAIN seq = 1 .. n, NEW ok
    PROVE  Fair(Visited(win, seq, ok))
  <1>1. PICK h : Visits(win, seq, ok, h) /\ h[n] = Visited(win, seq, ok)
    BY VisitSteps
  <1> DEFINE Wrong == {k \in Nat : k <= n /\ ~Fair(h[k])}
  <1>2. Wrong = {}
    <2> SUFFICES ASSUME Wrong # {} PROVE FALSE
      OBVIOUS
    <2>1. PICK m \in Wrong : \A k \in Wrong : m <= k
      BY LeastExists
    <2>2. m # 0
      BY <1>1, <2>1 DEF Visits
    <2>3. m \in DOMAIN seq /\ m - 1 \in Nat /\ m - 1 <= n /\ ~(m <= m - 1)
      BY <2>1, <2>2
    <2>4. Fair(h[m - 1])
      BY <2>1, <2>3
    <2>5. h[m] = CloseDataEdit(h[m - 1], seq[m], seq[m] \in ok)
      BY <1>1, <2>3 DEF Visits
    <2>6. Fair(h[m])
      BY <2>4, <2>5, CloseFair
    <2> QED BY <2>1, <2>6
  <1>3. Fair(h[n])
    BY <1>2
  <1> QED BY <1>1, <1>3

\* A tab as it is made.
LEMMA NewTabDoes ==
    ASSUME EditorsFit, NEW t, NEW d, TabFits(t, d)
    PROVE  TabHas(t, NewTab(t, d)) /\ TabAgrees(t, NewTab(t, d))
  <1> DEFINE s == ReadTab(t, First(TabForm[t]), d)
  <1>1. t \in DOMAIN TabForm /\ Describes(TabForm[t], d) /\ IsShown(TabForm[t], First(TabForm[t]))
    BY FirstIsShown DEF TabFits, EditorsFit, WordsFit
  <1>2. IsShown(TabForm[t], s) /\ SteadyAgrees(TabForm[t], s, d)
    BY <1>1, ReadTabFits DEF EditorsFit
  <1>3. NewTab(t, d) = [shown |-> s, saved |-> TRUE, current |-> d, first |-> d]
    BY DEF NewTab
  <1> HIDE DEF s
  <1> QED BY <1>2, <1>3 DEF TabHas, TabAgrees

\* The booting tab sets its fields anew.
LEMMA SetAllKeeps ==
    ASSUME ArchFits, NEW t \in Booting \cap DOMAIN TabForm, NEW s, IsShown(TabForm[t], s)
    PROVE  IsShown(TabForm[t], SetAll(SetByArch[t], s))
  <1> DEFINE pairs == SetByArch[t]
             trips == [i \in DOMAIN pairs |-> <<0, pairs[i][1], pairs[i][2]>>]
  <1>1. /\ IsList(pairs)
        /\ \A i \in DOMAIN pairs : pairs[i][1] \in Names(TabForm[t]) /\ pairs[i][2] # Absent
    BY DEF ArchFits
  <1> HIDE DEF pairs
  <1>2. Len(pairs) \in Nat /\ DOMAIN pairs = 1 .. Len(pairs)
    BY <1>1, ListOf DEF IsList
  <1>3. DOMAIN trips = DOMAIN pairs /\ \A i \in DOMAIN trips : trips[i][2] = pairs[i][1] /\ trips[i][3] = pairs[i][2]
    OBVIOUS
  <1>4. SetAll(pairs, s) = Apply(trips, s, 0)
    BY DEF SetAll
  <1> HIDE DEF trips
  <1>5. Sets(TabForm[t], trips)
    BY <1>1, <1>2, <1>3 DEF Sets
  <1>6. IsState(TabForm[t], SetAll(pairs, s))
    BY <1>4, <1>5, ShownIsState, ApplyKeeps
  <1> QED BY <1>6, UnguardedIsShown DEF pairs, ArchFits

LEMMA OpenedFair ==
    ASSUME EditorsFit, NEW desc, IsList(desc.list), DescFits(desc.list, desc.tabs)
    PROVE  Fair(Opened(desc))
  <1> DEFINE win == [dev |-> D!Detected(desc.list), tabs |-> [t \in DOMAIN desc.tabs |-> NewTab(t, desc.tabs[t])]]
             booting == Booting \cap DOMAIN win.tabs
             b == CHOOSE t \in booting : TRUE
  <1>1. Fair(win)
    <2>1. Good(win.dev) /\ Kept(win.dev)
      BY DetectedIsGood, DetectedKept DEF DescFits
    <2>2. \A t \in DOMAIN win.tabs : TabHas(t, win.tabs[t]) /\ TabAgrees(t, win.tabs[t])
      BY NewTabDoes DEF DescFits
    <2> QED BY <2>1, <2>2 DEF Fair, IsWindow
  <1>2. Opened(desc) = IF booting = {} THEN win ELSE InitMaxVCPU(win, b)
    BY DEF Opened
  <1> HIDE DEF win
  <1>3. ASSUME booting # {} PROVE Fair(InitMaxVCPU(win, b))
    <2>1. b \in Booting /\ b \in DOMAIN win.tabs
      BY <1>3
    <2> HIDE DEF b, booting
    <2> DEFINE s == SetAll(SetByArch[b], win.tabs[b].shown)
               c == [win.tabs[b] EXCEPT !.shown = s, !.saved = FALSE]
               x == [win EXCEPT !.tabs[b] = c]
    <2>2. TabHas(b, win.tabs[b])
      BY <1>1, <2>1 DEF Fair
    <2>3. IsShown(TabForm[b], s)
      BY <2>1, <2>2, TabFormFits, SetAllKeeps DEF EditorsFit
    <2>4. InitMaxVCPU(win, b) = ArchChanged(x, b)
      <3>1. [win EXCEPT !.tabs[b].shown = s, !.tabs[b].saved = FALSE] = x
        BY <1>1, <2>1 DEF Fair, IsWindow
      <3> QED BY <3>1 DEF InitMaxVCPU
    <2> HIDE DEF s
    <2>5. /\ DOMAIN c = {"shown", "saved", "current", "first"} /\ c.shown = s /\ ~c.saved
          /\ c.current = win.tabs[b].current /\ c.first = win.tabs[b].first
      BY <2>2 DEF TabHas
    <2> HIDE DEF c
    <2>6. TabHas(b, c) /\ TabAgrees(b, c)
      BY <2>2, <2>3, <2>5 DEF TabHas, TabAgrees
    <2>7. Fair(x) /\ x.tabs[b] = c
      <3>1. Fair(x)
        BY <1>1, <2>1, <2>6, TabIsNow
      <3>2. x.tabs[b] = c
        BY <1>1, <2>1 DEF Fair, IsWindow
      <3> QED BY <3>1, <3>2
    <2>8. b \in DOMAIN x.tabs
      BY <1>1, <2>1 DEF Fair, IsWindow
    <2> HIDE DEF x
    <2>9. FairBut(b, x)
      BY <2>7 DEF Fair, FairBut
    <2>10. ToldBut(b, x, ArchChanged(x, b))
      BY <2>9, ArchChangedFair
    <2>11. Fair(ArchChanged(x, b))
      BY <2>6, <2>7, <2>8, <2>10 DEF ToldBut, Fair, FairBut
    <2> QED BY <2>4, <2>11
  <1> QED BY <1>1, <1>2, <1>3

----------------------------------------------------------------------------
(* The steps of DomainEditor.                                              *)

\* The whole window as it should be, and what it was opened with.
DomainKept ==
    /\ WindowGood /\ TabKept /\ DescFits(xmlDesc.list, xmlDesc.tabs)
    /\ \A t \in Tabs : TabHas(t, tabs[t]) /\ TabAgrees(t, tabs[t])

LEMMA FairNow ==
    ASSUME DomainKept
    PROVE  Fair(Now) /\ \A t : FairBut(t, Now)
  <1>1. Good(D!Now) /\ Kept(D!Now)
    BY DEF DomainKept, WindowGood, TabGood, TabKept
  <1>2. \A t \in DOMAIN tabs : TabHas(t, tabs[t]) /\ TabAgrees(t, tabs[t])
    BY DEF DomainKept, Tabs
  <1> QED BY <1>1, <1>2, WindowIs DEF Fair, FairBut

\* The forms of the window are as they should be after it has become w.
FormsKept ==
    /\ TabKept /\ DescFits(xmlDesc.list, xmlDesc.tabs)
    /\ \A t \in Tabs : TabHas(t, tabs[t]) /\ TabAgrees(t, tabs[t])

LEMMA BecomesFair ==
    ASSUME NEW w, Fair(w), Become(w), StackFits(stack'), DescFits(xmlDesc.list, xmlDesc.tabs), xmlDesc' = xmlDesc
    PROVE  FormsKept'
  <1>1. DevicesFit(devices') /\ FormFits(panel'.form) /\ PanelAgrees(panel')
    BY DEF Fair, Become, D!Become, Kept, Has
  <1>2. TabKept'
    BY <1>1, KeptIs DEF TabKept
  <1>3. \A t \in DOMAIN tabs' : TabHas(t, tabs'[t]) /\ TabAgrees(t, tabs'[t])
    BY DEF Fair, Become
  <1>4. DescFits(xmlDesc.list, xmlDesc.tabs)'
    OBVIOUS
  <1>5. Tabs' = DOMAIN tabs'
    BY DEF Tabs
  <1> QED BY <1>2, <1>3, <1>4, <1>5 DEF FormsKept

LEMMA DevicesFair ==
    ASSUME WordsFit, DomainKept, Devices
    PROVE  FormsKept'
  <1>1. TabKept'
    BY TabKeepsForms DEF Devices, DomainKept, WindowGood
  <1>2. UNCHANGED <<tabs, xmlDesc>>
    BY DEF Devices
  <1> QED BY <1>1, <1>2 DEF DomainKept, FormsKept, Tabs

LEMMA EditTabFair ==
    ASSUME EditorsFit, DomainKept, NEW t \in Tabs, Edit(t)
    PROVE  FormsKept'
  <1> DEFINE form == TabForm[t]
             b == tabs[t]
  <1>1. PICK e \in Edits(form, b.shown) :
          LET r == Pick(b.shown, e[1], e[2])
              told == Told(form, b.shown, r)
              win == ShowIn(Now, t, r)
          IN Become([win EXCEPT !.tabs[t].saved = @ /\ ~told])
    BY DEF Edit
  <1> DEFINE r == Pick(b.shown, e[1], e[2])
             told == Told(form, b.shown, r)
             win == ShowIn(Now, t, r)
             c == [win.tabs[t] EXCEPT !.saved = @ /\ ~told]
             x == [win EXCEPT !.tabs[t].saved = @ /\ ~told]
  <1>2. Become(x)
    BY <1>1
  <1>3. TabHas(t, b) /\ TabAgrees(t, b) /\ Worded(form) /\ IsShown(form, b.shown)
    BY TabFormFits DEF DomainKept, EditorsFit
  <1>4. IsShown(form, r)
    BY <1>3, PickIsShown
  <1>5. ~told /\ b.saved => SteadyAgrees(form, r, b.current)
    BY <1>3, <1>4, QuietIsKept DEF TabAgrees
  <1> HIDE DEF told, r
  <1>6. ShowsIn(t, r, Now, win)
    BY <1>4, FairNow, ShowInFair, WindowIs DEF Tabs
  <1> HIDE DEF win
  <1>7. /\ FairBut(t, win) /\ DOMAIN win.tabs = DOMAIN tabs /\ win.tabs[t].shown = r
        /\ win.tabs[t].saved = b.saved /\ win.tabs[t].current = b.current /\ t \in DOMAIN tabs
    BY <1>6, WindowIs DEF ShowsIn, Tabs
  <1>8. TabHas(t, win.tabs[t])
    BY <1>7 DEF FairBut
  <1>9. TabHas(t, c) /\ TabAgrees(t, c)
    <2>1. /\ DOMAIN c = {"shown", "saved", "current", "first"} /\ c.shown = r
          /\ c.saved = (b.saved /\ ~told) /\ c.current = b.current /\ c.first = win.tabs[t].first
      BY <1>7, <1>8 DEF TabHas
    <2> HIDE DEF c
    <2> QED BY <1>5, <1>7, <1>8, <2>1 DEF TabHas, TabAgrees
  <1>10. /\ DOMAIN x = {"dev", "tabs"} /\ x.dev = win.dev /\ DOMAIN x.tabs = DOMAIN win.tabs
         /\ x.tabs[t] = c /\ \A u \in DOMAIN win.tabs \ {t} : x.tabs[u] = win.tabs[u]
    BY <1>7 DEF FairBut, IsWindow
  <1> HIDE DEF x, c
  <1>11. Fair(x)
    BY <1>7, <1>9, <1>10 DEF Fair, FairBut, IsWindow
  <1>12. StackFits(stack') /\ xmlDesc' = xmlDesc
    BY DEF Edit, DomainKept, TabKept
  <1> QED BY <1>2, <1>11, <1>12, BecomesFair DEF DomainKept

LEMMA SaveTabFair ==
    ASSUME WordsFit, DomainKept, NEW t \in Tabs, Save(t)
    PROVE  FormsKept'
  <1>1. UNCHANGED <<devices, panel, stack, xmlDesc>> /\ tabs' = [tabs EXCEPT ![t] = SaveData(tabs[t], t)]
    BY DEF Save, devVars
  <1>2. TabKept'
    BY <1>1, TabStaysKept DEF DomainKept
  <1> DEFINE b == SaveData(tabs[t], t)
  <1>3. TabHas(t, b) /\ TabAgrees(t, b)
    BY SaveTabDoes DEF DomainKept
  <1> HIDE DEF b
  <1>4. DOMAIN tabs' = DOMAIN tabs /\ tabs'[t] = b /\ \A u \in DOMAIN tabs \ {t} : tabs'[u] = tabs[u]
    BY <1>1 DEF b, Tabs
  <1>5. \A u \in DOMAIN tabs' : TabHas(u, tabs'[u]) /\ TabAgrees(u, tabs'[u])
    BY <1>3, <1>4 DEF DomainKept, Tabs
  <1>6. Tabs' = DOMAIN tabs' /\ DescFits(xmlDesc.list, xmlDesc.tabs)'
    BY <1>1 DEF Tabs, DomainKept
  <1> QED BY <1>2, <1>5, <1>6 DEF FormsKept

LEMMA RevertTabFair ==
    ASSUME EditorsFit, DomainKept, NEW t \in Tabs, Revert(t)
    PROVE  FormsKept'
  <1>1. Fair(RevertData(Now, t))
    BY FairNow, RevertFair, WindowIs DEF Tabs
  <1>2. Become(RevertData(Now, t)) /\ StackFits(stack') /\ xmlDesc' = xmlDesc
    BY DEF Revert, DomainKept, TabKept
  <1> QED BY <1>1, <1>2, BecomesFair DEF DomainKept

LEMMA ResetTabFair ==
    ASSUME EditorsFit, DomainKept, NEW t \in Tabs, Reset(t)
    PROVE  FormsKept'
  <1> DEFINE d == tabs[t].first
             w == [Now EXCEPT !.tabs[t].current = d]
  <1>1. TabHas(t, tabs[t]) /\ TabFits(t, d)
    BY DEF DomainKept, TabHas
  <1>2. FairBut(t, Now) /\ Now.tabs = tabs /\ t \in DOMAIN tabs
    BY FairNow, WindowIs DEF Tabs
  <1>3. Become(RevertData(w, t)) /\ StackFits(stack') /\ xmlDesc' = xmlDesc
    BY DEF Reset, DomainKept, TabKept
  <1> HIDE DEF d
  <1>4. /\ DOMAIN w = {"dev", "tabs"} /\ w.dev = Now.dev /\ DOMAIN w.tabs = DOMAIN tabs
        /\ w.tabs[t] = [tabs[t] EXCEPT !.current = d]
        /\ \A u \in DOMAIN tabs \ {t} : w.tabs[u] = tabs[u]
    BY <1>2 DEF FairBut, IsWindow
  <1> HIDE DEF w
  <1>5. TabHas(t, w.tabs[t])
    BY <1>1, <1>4 DEF TabHas
  <1>6. FairBut(t, w)
    BY <1>2, <1>4, <1>5 DEF FairBut, IsWindow
  <1>7. Fair(RevertData(w, t))
    BY <1>2, <1>4, <1>6, RevertFair
  <1> QED BY <1>3, <1>7, BecomesFair DEF DomainKept

LEMMA OkFair ==
    ASSUME EditorsFit, DomainKept, NEW ok, BuildXMLDescription(ok)
    PROVE  FormsKept'
  <1>1. PICK visited : /\ \E n \in Nat : DOMAIN visited = 1 .. n
                       /\ Become(Visited(Now, visited, ok))
    BY OrderVisited DEF EditorsFit, StartsFit
  <1>2. Fair(Visited(Now, visited, ok))
    BY <1>1, FairNow, VisitedFair
  <1>3. StackFits(stack') /\ xmlDesc' = xmlDesc
    BY DEF BuildXMLDescription, DomainKept, TabKept
  <1> QED BY <1>1, <1>2, <1>3, BecomesFair DEF DomainKept

LEMMA NewStackFits == StackFits(D!NewStack)
  BY DEF StackFits, D!NewStack, D!NoDevice

LEMMA RestartFair ==
    ASSUME EditorsFit, DomainKept, RestoreParameters
    PROVE  FormsKept'
  <1>1. Become(Opened(xmlDesc)) /\ xmlDesc' = xmlDesc /\ StackFits(stack')
    BY NewStackFits DEF RestoreParameters
  <1>2. Fair(Opened(xmlDesc))
    BY OpenedFair DEF DomainKept, WindowGood
  <1> QED BY <1>1, <1>2, BecomesFair DEF DomainKept

LEMMA DomainStep ==
    ASSUME EditorsFit, DomainKept, Next
    PROVE  FormsKept'
  <1>1. CASE Devices
    BY <1>1, DevicesFair DEF EditorsFit
  <1>2. ASSUME NEW t \in Tabs, Edit(t) PROVE FormsKept'
    BY <1>2, EditTabFair
  <1>3. ASSUME NEW t \in Tabs, Save(t) PROVE FormsKept'
    BY <1>3, SaveTabFair DEF EditorsFit
  <1>4. ASSUME NEW t \in Tabs, Revert(t) PROVE FormsKept'
    BY <1>4, RevertTabFair
  <1>5. ASSUME NEW t \in Tabs, Reset(t) PROVE FormsKept'
    BY <1>5, ResetTabFair
  <1>6. ASSUME NEW ok, BuildXMLDescription(ok) PROVE FormsKept'
    BY <1>6, OkFair
  <1>7. CASE RestoreParameters
    BY <1>7, RestartFair
  <1> QED BY <1>1, <1>2, <1>3, <1>4, <1>5, <1>6, <1>7 DEF Next

LEMMA DomainStays ==
    ASSUME DomainKept, UNCHANGED vars
    PROVE  FormsKept'
  <1>1. UNCHANGED <<devices, panel, stack, tabs, xmlDesc>>
    BY DEF vars, devVars
  <1>2. TabKept'
    BY <1>1, TabStaysKept DEF DomainKept
  <1> QED BY <1>1, <1>2 DEF DomainKept, FormsKept, Tabs

LEMMA DomainKeeps ==
    ASSUME EditorsFit, DomainKept, [Next]_vars
    PROVE  DomainKept'
  <1>1. WindowGood'
    BY WindowKeeps DEF DomainKept, EditorsFit
  <1>2. FormsKept'
    BY DomainStep, DomainStays
  <1> QED BY <1>1, <1>2 DEF DomainKept, FormsKept

LEMMA StartKept ==
    ASSUME EditorsFit, NEW s, IsList(s.list), s.restores \in Nat, DescFits(s.list, s.tabs), Start(s)
    PROVE  DomainKept
  <1> DEFINE w == Opened(s)
             e == w.dev
  <1>1. /\ devices = e.devices /\ current = e.current /\ panel = e.panel /\ past = e.past
        /\ tabs = w.tabs /\ stack = D!NewStack
    BY DEF Start
  <1>2. xmlDesc.list = s.list /\ xmlDesc.tabs = s.tabs
    BY DEF Start
  <1>3. Fair(w)
    BY OpenedFair
  <1> HIDE DEF w
  <1>4. DevicesFit(devices) /\ FormFits(panel.form) /\ PanelAgrees(panel)
    BY <1>1, <1>3 DEF Fair, Kept, Has
  <1>5. TabKept
    BY <1>1, <1>4, KeptIs, NewStackFits DEF TabKept
  <1>6. \A t \in DOMAIN tabs : TabHas(t, tabs[t]) /\ TabAgrees(t, tabs[t])
    BY <1>1, <1>3 DEF Fair
  <1>7. WindowGood
    BY StartGood
  <1> QED BY <1>2, <1>5, <1>6, <1>7 DEF DomainKept, Tabs

LEMMA InitKept ==
    ASSUME EditorsFit, Init \/ NoWindow
    PROVE  DomainKept
  <1>1. CASE Init
    BY <1>1, StartKept DEF Init, EditorsFit, StartsFit, DocsFit
  <1>2. CASE NoWindow
    <2> DEFINE s == [list |-> <<>>, tabs |-> [t \in {} |-> <<>>], edits |-> 0, ops |-> 0, restores |-> 0]
    <2>1. Start(s)
      BY <1>2 DEF NoWindow
    <2>2. IsList(s.list) /\ s.restores \in Nat /\ DescFits(s.list, s.tabs)
      BY DEF IsList, DescFits
    <2> HIDE DEF s
    <2> QED BY <2>1, <2>2, StartKept
  <1> QED BY <1>1, <1>2

----------------------------------------------------------------------------
(* The steps of CreationWindow.                                            *)

\* A window that creates something shows a form, and what it was opened with is a
\* description of that form.
CreationHas(w) ==
    /\ DOMAIN w = {"kind", "ready", "from", "shown", "edits"}
    /\ w.kind \in DOMAIN CreationForm /\ IsShown(CreationForm[w.kind], w.shown)
    /\ w.edits \in Nat
    /\ w.from # C!NoWindow => Describes(CreationForm[w.kind], w.from)
CreationAgrees(w) ==
    w.ready /\ w.from # C!NoWindow /\ w.edits = 0 => SteadyAgrees(CreationForm[w.kind], w.shown, w.from)
FileFits(x) == x.kind \in DOMAIN CreationForm => Describes(CreationForm[x.kind], x.doc)
CreationKept ==
    /\ window # C!NoWindow => CreationHas(window) /\ CreationAgrees(window)
    /\ FileFits(file)

LEMMA CreationFormFits ==
    ASSUME WordsFit, NEW k \in DOMAIN CreationForm
    PROVE  Worded(CreationForm[k]) /\ k # "none"
  BY DEF WordsFit

\* What is read is shown.
LEMMA CreationReads ==
    ASSUME WordsFit, NEW w, CreationHas(w), NEW r, r = C!ReadXMLDataDescription(w)
    PROVE  /\ CreationHas(r) /\ r.ready = w.ready /\ r.kind = w.kind /\ r.from = w.from
           /\ r.from # C!NoWindow => SteadyAgrees(CreationForm[r.kind], r.shown, r.from)
  <1> DEFINE form == CreationForm[w.kind]
             s == Read(form, w.shown, w.from)
  <1>1. Worded(form) /\ IsShown(form, w.shown)
    BY CreationFormFits DEF CreationHas
  <1>2. CASE w.from = C!NoWindow
    BY <1>2 DEF C!ReadXMLDataDescription, CreationHas
  <1>3. CASE w.from # C!NoWindow
    <2>1. Describes(form, w.from)
      BY <1>3 DEF CreationHas
    <2>2. IsShown(form, s) /\ SteadyAgrees(form, s, w.from)
      BY <1>1, <2>1, ReadIsKept
    <2>3. r = [w EXCEPT !.shown = C!Read(form, @, w.from)]
      BY <1>3 DEF C!ReadXMLDataDescription
    <2>4. r = [w EXCEPT !.shown = s]
      BY <2>3, SameRead
    <2> HIDE DEF s
    <2>5. /\ DOMAIN r = DOMAIN w /\ r.shown = s /\ r.kind = w.kind /\ r.ready = w.ready
          /\ r.from = w.from /\ r.edits = w.edits
      BY <2>4 DEF CreationHas
    <2> QED BY <2>2, <2>5 DEF CreationHas
  <1> QED BY <1>2, <1>3

LEMMA OpenKept ==
    ASSUME WordsFit, CreationKept, NEW w, CreationHas(w), w.ready \in BOOLEAN, C!Open(w)
    PROVE  CreationKept'
  <1>1. window' = (IF w.ready THEN C!ReadXMLDataDescription(w) ELSE w) /\ file' = file
    BY DEF C!Open
  <1>2. CASE w.ready
    <2> DEFINE r == C!ReadXMLDataDescription(w)
    <2>1. CreationHas(r) /\ CreationAgrees(r)
      BY CreationReads DEF CreationAgrees
    <2> HIDE DEF r
    <2>2. window' = r
      BY <1>1, <1>2 DEF r
    <2> QED BY <1>1, <2>1, <2>2 DEF CreationKept
  <1>3. CASE ~w.ready
    <2>1. window' = w /\ CreationAgrees(w)
      BY <1>1, <1>3 DEF CreationAgrees
    <2> QED BY <1>1, <2>1 DEF CreationKept
  <1> QED BY <1>2, <1>3

LEMMA NewWindowHas ==
    ASSUME WordsFit, NEW k \in DOMAIN CreationForm, NEW from, FileFits(from)
    PROVE  CreationHas(C!NewWindow(k, from)) /\ C!NewWindow(k, from).ready \in BOOLEAN
  <1> DEFINE form == CreationForm[k]
             w == C!NewWindow(k, from)
  <1>1. Worded(form)
    BY CreationFormFits
  <1>2. C!First(form) = First(form) /\ IsShown(form, First(form))
    BY <1>1, SameFirst, FirstIsShown
  <1>3. /\ DOMAIN w = {"kind", "ready", "from", "shown", "edits"} /\ w.kind = k /\ w.edits = 0
        /\ w.shown = C!First(form) /\ w.ready = (k # "volume")
        /\ w.from = IF from.kind = k THEN from.doc ELSE C!NoWindow
    BY DEF C!NewWindow
  <1> HIDE DEF w
  <1>4. w.from # C!NoWindow => Describes(form, w.from)
    BY <1>3 DEF FileFits
  <1>5. CreationHas(w) /\ w.ready \in BOOLEAN
    BY <1>2, <1>3, <1>4 DEF CreationHas
  <1> QED BY <1>5 DEF w

LEMMA CreateKept ==
    ASSUME WordsFit, CreationKept, NEW k \in DOMAIN CreationForm, C!Create(k) \/ C!OpenFile(k)
    PROVE  CreationKept'
  <1>1. FileFits(C!NoWindow)
    BY CreationFormFits DEF FileFits, C!NoWindow
  <1>2. CASE C!Create(k)
    BY <1>1, <1>2, NewWindowHas, OpenKept DEF C!Create
  <1>3. CASE C!OpenFile(k)
    BY <1>3, NewWindowHas, OpenKept DEF C!OpenFile, CreationKept
  <1> QED BY <1>2, <1>3

LEMMA InitDataKept ==
    ASSUME WordsFit, CreationKept, C!InitData
    PROVE  CreationKept'
  <1>1. CreationHas(window)
    BY DEF CreationKept, C!InitData, C!IsOpen
  <1> DEFINE r == C!ReadXMLDataDescription(window)
             x == [r EXCEPT !.ready = TRUE]
  <1>2. window' = x /\ file' = file
    BY DEF C!InitData
  <1>3. CreationHas(r) /\ (r.from # C!NoWindow => SteadyAgrees(CreationForm[r.kind], r.shown, r.from))
    BY <1>1, CreationReads
  <1> HIDE DEF r
  <1>4. /\ DOMAIN x = DOMAIN r /\ x.kind = r.kind /\ x.shown = r.shown /\ x.from = r.from
        /\ x.edits = r.edits
    BY <1>3 DEF CreationHas
  <1> HIDE DEF x
  <1>5. CreationHas(x) /\ CreationAgrees(x)
    BY <1>3, <1>4 DEF CreationHas, CreationAgrees
  <1> QED BY <1>2, <1>5 DEF CreationKept

LEMMA EditKept ==
    ASSUME WordsFit, CreationKept, C!Edit
    PROVE  CreationKept'
  <1> DEFINE form == CreationForm[window.kind]
             s == window.shown
  <1>1. CreationHas(window) /\ window.kind \in DOMAIN CreationForm
    BY DEF CreationKept, C!Edit, C!IsOpen, CreationHas
  <1>2. Worded(form) /\ IsShown(form, s)
    BY <1>1, CreationFormFits DEF CreationHas
  <1>3. PICK e \in C!Edits(form, s) :
            window' = [window EXCEPT !.shown = C!Pick(@, e[1], e[2]), !.edits = @ + 1]
    BY DEF C!Edit
  <1>4. e \in Edits(form, s)
    BY <1>3, SameEdits
  <1> DEFINE r == Pick(s, e[1], e[2])
  <1>5. IsShown(form, r)
    BY <1>2, <1>4, PickIsShown
  <1>6. window' = [window EXCEPT !.shown = r, !.edits = @ + 1]
    BY <1>3, SamePick
  <1> HIDE DEF r
  <1>7. /\ DOMAIN window' = DOMAIN window /\ window'.kind = window.kind /\ window'.shown = r
        /\ window'.from = window.from /\ window'.edits = window.edits + 1
    BY <1>1, <1>6 DEF CreationHas
  <1>8. CreationHas(window)' /\ CreationAgrees(window)'
    BY <1>1, <1>5, <1>7 DEF CreationHas, CreationAgrees
  <1>9. file' = file
    BY DEF C!Edit
  <1> QED BY <1>8, <1>9 DEF CreationKept

\* What goes into the file is a description.
LEMMA ChooseKept ==
    ASSUME WordsFit, CreationKept, C!Choose
    PROVE  CreationKept'
  <1> DEFINE form == CreationForm[window.kind]
             d == Write(form, window.shown)
  <1>1. Worded(form) /\ IsShown(form, window.shown)
    BY CreationFormFits DEF CreationKept, C!Choose, C!IsOpen, CreationHas
  <1>2. Describes(form, d)
    BY <1>1, WriteDescribes
  <1>3. file' = [kind |-> window.kind, doc |-> C!Write(form, window.shown)] /\ window' = C!NoWindow
    BY DEF C!Choose
  <1>4. file' = [kind |-> window.kind, doc |-> d]
    BY <1>3, SameWrite
  <1> HIDE DEF d
  <1>5. FileFits(file')
    BY <1>2, <1>4 DEF FileFits
  <1> QED BY <1>3, <1>5 DEF CreationKept

LEMMA ChooseBlindlyKept ==
    ASSUME WordsFit, DocsFit, CreationKept, C!ChooseBlindly
    PROVE  CreationKept'
  <1>1. window' = C!NoWindow
    BY DEF C!ChooseBlindly
  <1>2. file' = file \/ \E d \in Saved["volume"] : file' = [kind |-> "volume", doc |-> d]
    BY DEF C!ChooseBlindly
  <1>3. \A d \in Saved["volume"] : FileFits([kind |-> "volume", doc |-> d])
    BY DEF FileFits, DocsFit, C!FromFile
  <1> QED BY <1>1, <1>2, <1>3 DEF CreationKept

LEMMA CreationKeeps ==
    ASSUME EditorsFit, CreationKept, [C!Next]_creationVars
    PROVE  CreationKept'
  <1>1. CASE UNCHANGED creationVars
    BY <1>1 DEF creationVars, CreationKept
  <1>2. CASE C!Next
    <2>1. ASSUME NEW k \in DOMAIN CreationForm, C!Create(k) \/ C!OpenFile(k) PROVE CreationKept'
      BY <2>1, CreateKept DEF EditorsFit
    <2>2. CASE C!InitData
      BY <2>2, InitDataKept DEF EditorsFit
    <2>3. CASE C!Edit
      BY <2>3, EditKept DEF EditorsFit
    <2>4. CASE C!Choose
      BY <2>4, ChooseKept DEF EditorsFit
    <2>5. CASE C!ChooseBlindly
      BY <2>5, ChooseBlindlyKept DEF EditorsFit
    <2>6. CASE C!Cancel
      BY <2>6 DEF C!Cancel, CreationKept
    <2> QED BY <1>2, <2>1, <2>2, <2>3, <2>4, <2>5, <2>6 DEF C!Next
  <1> QED BY <1>1, <1>2

LEMMA CreationStarts ==
    ASSUME EditorsFit, C!Init \/ C!None
    PROVE  CreationKept
  <1>1. CASE C!Init
    <2>1. PICK k \in C!FromFile : \E d \in Saved[k] : file = [kind |-> k, doc |-> d]
      BY <1>1 DEF C!Init
    <2>2. PICK d \in Saved[k] : file = [kind |-> k, doc |-> d]
      BY <2>1
    <2>3. k \in DOMAIN CreationForm => Describes(CreationForm[k], d)
      BY <2>2 DEF EditorsFit, DocsFit
    <2>4. FileFits(file)
      BY <2>2, <2>3 DEF FileFits
    <2> QED BY <1>1, <2>4 DEF C!Init, CreationKept
  <1>2. CASE C!None
    <2>1. FileFits(file)
      BY <1>2, CreationFormFits DEF C!None, C!NoWindow, FileFits, EditorsFit
    <2> QED BY <1>2, <2>1 DEF C!None, CreationKept
  <1> QED BY <1>1, <1>2

----------------------------------------------------------------------------
(* What is shown is what is saved.                                         *)

\* The window of a domain or those that create, as they should be.
EditorsKept == DomainKept /\ CreationKept

LEMMA EditorsStart ==
    ASSUME EditorsFit, WindowsInit
    PROVE  EditorsKept
  BY InitKept, CreationStarts DEF WindowsInit, EditorsKept

LEMMA EditorsKeep ==
    ASSUME EditorsFit, EditorsKept, [WindowsNext]_windowVars
    PROVE  EditorsKept'
  <1>1. [Next]_vars
    BY DEF WindowsNext, windowVars, domainVars, vars, devVars
  <1>2. [C!Next]_creationVars
    BY DEF WindowsNext, windowVars
  <1> QED BY <1>1, <1>2, DomainKeeps, CreationKeeps DEF EditorsKept

LEMMA KeptIsSaved ==
    ASSUME EditorsKept
    PROVE  SteadyIsSaved
  <1>1. PanelShows /\ panel.saved /\ panel.form.read =>
            SteadyAgrees(FormOf[panel.form.kind], panel.form.shown, panel.form.current)
    BY KeptIs DEF EditorsKept, DomainKept, TabKept, Kept, PanelAgrees, PanelShows
  <1>2. \A t \in Tabs : tabs[t].saved => SteadyAgrees(TabForm[t], tabs[t].shown, tabs[t].current)
    BY DEF EditorsKept, DomainKept, TabAgrees
  <1>3. C!IsOpen => (window.ready /\ window.from # C!NoWindow /\ window.edits = 0 =>
            SteadyAgrees(CreationForm[window.kind], window.shown, window.from))
    BY DEF EditorsKept, CreationKept, CreationAgrees, C!IsOpen
  <1> QED BY <1>1, <1>2, <1>3 DEF SteadyIsSaved

\* Whatever the forms are, a form that says it is saved, of the panel or of a tab,
\* would write its steady fields as they are saved, and one that creates something and
\* was not touched as they were read (the dataChanged and saveDataDescription chains of
\* devices.cpp, _tab.cpp and create_pool.cpp): no reading, no other field and
\* no change that is not signalled alters one of them unnoticed.
THEOREM SteadyShownIsSaved ==
    ASSUME EditorsFit
    PROVE  WindowsSpec => []SteadyIsSaved
  <1>1. WindowsInit => EditorsKept
    BY EditorsStart
  <1>2. EditorsKept /\ [WindowsNext]_windowVars => EditorsKept'
    BY EditorsKeep
  <1>3. EditorsKept => SteadyIsSaved
    BY KeptIsSaved
  <1> QED BY <1>1, <1>2, <1>3, PTL DEF WindowsSpec

\* The forms that are shown have steady fields only.
AllSteady(form) == Names(form) \subseteq Steady(form)
FormsAreSteady ==
    /\ PanelShows => AllSteady(FormOf[panel.form.kind])
    /\ \A t \in Tabs : AllSteady(TabForm[t])
    /\ C!IsOpen => AllSteady(CreationForm[window.kind])

LEMMA AllSteadyAgrees ==
    ASSUME NEW form, AllSteady(form), NEW s, NEW d, SteadyAgrees(form, s, d)
    PROVE  D!Agrees(form, s, d) /\ Agrees(form, s, d) /\ C!Agrees(form, s, d)
  <1>1. \A n \in Names(form) : AgreesAt(form, s, d, n)
    BY DEF AllSteady, SteadyAgrees
  <1> QED BY <1>1, SameAgrees DEF Agrees

LEMMA AllSteadyIsSaved ==
    ASSUME SteadyIsSaved, FormsAreSteady
    PROVE  ShownIsSaved
  <1>1. D!ShownIsSaved
    <2> DEFINE form == FormOf[panel.form.kind]
    <2> SUFFICES ASSUME D!Open(panel), panel.saved, panel.form.read
                 PROVE  D!Agrees(form, panel.form.shown, panel.form.current)
      BY DEF D!ShownIsSaved
    <2>1. PanelShows
      BY DEF D!Open, PanelShows
    <2>2. AllSteady(form) /\ SteadyAgrees(form, panel.form.shown, panel.form.current)
      BY <2>1 DEF FormsAreSteady, SteadyIsSaved
    <2> QED BY <2>2, AllSteadyAgrees
  <1>2. ASSUME NEW t \in Tabs, tabs[t].saved PROVE Agrees(TabForm[t], tabs[t].shown, tabs[t].current)
    <2>1. AllSteady(TabForm[t]) /\ SteadyAgrees(TabForm[t], tabs[t].shown, tabs[t].current)
      BY <1>2 DEF FormsAreSteady, SteadyIsSaved
    <2> QED BY <2>1, AllSteadyAgrees
  <1>3. C!ShownIsSaved
    <2> DEFINE form == CreationForm[window.kind]
    <2> SUFFICES ASSUME C!IsOpen, window.ready, window.from # C!NoWindow, window.edits = 0
                 PROVE  C!Agrees(form, window.shown, window.from)
      BY DEF C!ShownIsSaved
    <2>1. AllSteady(form) /\ SteadyAgrees(form, window.shown, window.from)
      BY DEF FormsAreSteady, SteadyIsSaved
    <2> QED BY <2>1, AllSteadyAgrees
  <1> QED BY <1>1, <1>2, <1>3 DEF ShownIsSaved, DomainIsSaved

\* While all forms that are shown are of this sort, as those of 31 of the 47 kinds
\* are, what is shown is what is saved, to the last field.
THEOREM SteadyFormsAreSaved ==
    ASSUME EditorsFit
    PROVE  WindowsSpec => [](FormsAreSteady => ShownIsSaved)
  <1>1. SteadyIsSaved => (FormsAreSteady => ShownIsSaved)
    BY AllSteadyIsSaved
  <1>2. WindowsSpec => []SteadyIsSaved
    BY SteadyShownIsSaved
  <1> QED BY <1>1, <1>2, PTL

----------------------------------------------------------------------------
(* What is written is shown.                                               *)

LEMMA ShownAreVisible ==
    ASSUME NEW form, Worded(form), NEW s, IsShown(form, s), NEW is
    PROVE  AreVisible(form, s, is)
  BY CoveredIsVisible DEF AreVisible

LEMMA KeptIsVisible ==
    ASSUME EditorsFit, EditorsKept
    PROVE  CoveredIsShown
  <1>1. ASSUME PanelShows
        PROVE  AreVisible(FormOf[panel.form.kind], panel.form.shown, panel.form.current)
    <2>1. TabGood /\ TabKept /\ D!Open(panel)
      BY <1>1 DEF EditorsKept, DomainKept, WindowGood, PanelShows, D!Open
    <2>2. Worded(FormOf[panel.form.kind]) /\ IsShown(FormOf[panel.form.kind], panel.form.shown)
      BY <2>1, OpenPanel DEF EditorsFit
    <2> QED BY <2>2, ShownAreVisible
  <1>2. ASSUME NEW t \in Tabs PROVE AreVisible(TabForm[t], tabs[t].shown, tabs[t].current)
    <2>1. Worded(TabForm[t]) /\ IsShown(TabForm[t], tabs[t].shown)
      BY TabFormFits DEF EditorsKept, DomainKept, EditorsFit
    <2> QED BY <2>1, ShownAreVisible
  <1>3. ASSUME C!IsOpen PROVE AreVisible(CreationForm[window.kind], window.shown, CreatedFrom)
    <2>1. CreationHas(window)
      BY <1>3 DEF EditorsKept, CreationKept, C!IsOpen
    <2>2. Worded(CreationForm[window.kind]) /\ IsShown(CreationForm[window.kind], window.shown)
      BY <2>1, CreationFormFits DEF CreationHas, EditorsFit
    <2> QED BY <2>2, ShownAreVisible
  <1> QED BY <1>1, <1>2, <1>3 DEF CoveredIsShown

\* Whatever the forms are, a field that they hide is written only where another one,
\* which the user sees, lets it, if it is covered (setEnabled and setVisible of the
\* forms against the conditions of their getDataDocument): no reading of a description,
\* no choice that changes others, and no switch to and fro leaves something in a hidden
\* field that goes into the description.
THEOREM CoveredFieldsAreShown ==
    ASSUME EditorsFit
    PROVE  WindowsSpec => []CoveredIsShown
  <1>1. WindowsInit => EditorsKept
    BY EditorsStart
  <1>2. EditorsKept /\ [WindowsNext]_windowVars => EditorsKept'
    BY EditorsKeep
  <1>3. EditorsKept => CoveredIsShown
    BY KeptIsVisible
  <1> QED BY <1>1, <1>2, <1>3, PTL DEF WindowsSpec

\* The forms that are shown have covered fields only.
AllCovered(form) == Names(form) \subseteq Covered(form)
FormsAreCovered ==
    /\ PanelShows => AllCovered(FormOf[panel.form.kind])
    /\ \A t \in Tabs : AllCovered(TabForm[t])
    /\ C!IsOpen => AllCovered(CreationForm[window.kind])

LEMMA SameVisible ==
    ASSUME NEW form, NEW s, NEW is
    PROVE  /\ D!Visible(form, s, is) <=> \A n \in Names(form) : VisibleAt(form, s, is, n)
           /\ C!Visible(form, s, is) <=> \A n \in Names(form) : VisibleAt(form, s, is, n)
  BY Zenon DEF D!Visible, C!Visible, D!VisibleAt, C!VisibleAt, VisibleAt, D!Names, C!Names, Names,
               D!WriteField, C!WriteField, WriteField, D!Supplied, C!Supplied, Supplied,
               D!Hold, C!Hold, Hold, D!Absent, C!Absent, Absent

LEMMA AllCoveredIsVisible ==
    ASSUME NEW form, AllCovered(form), NEW s, NEW is, AreVisible(form, s, is)
    PROVE  D!Visible(form, s, is) /\ Visible(form, s, is) /\ C!Visible(form, s, is)
  <1>1. \A n \in Names(form) : VisibleAt(form, s, is, n)
    BY DEF AllCovered, AreVisible
  <1> QED BY <1>1, SameVisible DEF Visible

LEMMA AllCoveredIsShown ==
    ASSUME CoveredIsShown, FormsAreCovered
    PROVE  NothingHiddenIsWritten
  <1>1. D!NothingHiddenIsWritten
    <2> SUFFICES ASSUME D!Open(panel)
                 PROVE  D!Visible(FormOf[panel.form.kind], panel.form.shown, panel.form.current)
      BY DEF D!NothingHiddenIsWritten
    <2>1. PanelShows
      BY DEF D!Open, PanelShows
    <2> QED BY <2>1, AllCoveredIsVisible DEF FormsAreCovered, CoveredIsShown
  <1>2. \A t \in Tabs : Visible(TabForm[t], tabs[t].shown, tabs[t].current)
    BY AllCoveredIsVisible DEF FormsAreCovered, CoveredIsShown
  <1>3. C!NothingHiddenIsWritten
    <2> SUFFICES ASSUME C!IsOpen
                 PROVE  C!Visible(CreationForm[window.kind], window.shown, CreatedFrom)
      BY DEF C!NothingHiddenIsWritten, CreatedFrom
    <2> QED BY AllCoveredIsVisible DEF FormsAreCovered, CoveredIsShown
  <1> QED BY <1>1, <1>2, <1>3 DEF NothingHiddenIsWritten, NothingHiddenInDomain

\* While all forms that are shown are of this sort, as those of 46 of the 47 kinds
\* are, nothing that the user never saw is written, in any field.
THEOREM CoveredFormsHideNothing ==
    ASSUME EditorsFit
    PROVE  WindowsSpec => [](FormsAreCovered => NothingHiddenIsWritten)
  <1>1. CoveredIsShown => (FormsAreCovered => NothingHiddenIsWritten)
    BY AllCoveredIsShown
  <1>2. WindowsSpec => []CoveredIsShown
    BY CoveredFieldsAreShown
  <1> QED BY <1>1, <1>2, PTL
=============================================================================
