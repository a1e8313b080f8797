----------------------------- MODULE SteadyForms -----------------------------
(***************************************************************************)
(* What makes the fields of a form (module Forms) steady: they say what    *)
(* was read as long as nothing tells otherwise; and what makes them        *)
(* covered: they are shown when they are written.  These are conditions on *)
(* the text of a form, so that they can be evaluated for each of them.     *)
(***************************************************************************)
EXTENDS Forms

\* Changes of a field that are not signalled.
Quiet(f) == f.mute \cup f.silent

\* A form as Form makes it, in which no value is the absent one.
WordedField(f) ==
    /\ Absent \notin Values(f) \cup f.late \cup {f.none, f.vals[1]}
    /\ Absent \notin {p[2] : p \in f.reads} \cup {t[3] : t \in f.joins}
    /\ Len(f.sets) \in Nat /\ DOMAIN f.sets = 1 .. Len(f.sets)
    /\ Len(f.picks) \in Nat /\ DOMAIN f.picks = 1 .. Len(f.picks)
Worded(form) ==
    /\ form = Form(form.order)
    /\ Len(form.order) \in Nat /\ DOMAIN form.order = 1 .. Len(form.order)
    /\ \A i \in DOMAIN form.order : WordedField(form.order[i])
    \* What the fields set are fields, and they do not set the absent value.
    /\ \A i \in DOMAIN form.order :
          LET f == form.order[i]
              set == {f.sets[k] : k \in DOMAIN f.sets} \cup {f.picks[k] : k \in DOMAIN f.picks}
          IN \A t \in set : t[2] \in Names(form) /\ t[3] # Absent

\* What a form shows.
IsState(form, s) == DOMAIN s = Names(form) /\ \A n \in Names(form) : s[n] # Absent

\* A field with a name of its own, which neither it nor one read later sets: once it
\* is read, it stays as it is until all are.
Untouched(form, i) ==
    LET o == form.order
    IN /\ \A j \in DOMAIN o : o[j].name = o[i].name => j = i
       /\ \A j \in i .. Len(o) : \A k \in DOMAIN o[j].sets : o[j].sets[k][2] # o[i].name
\* The same of one that is written whenever it is there and not blank.
Undisturbed(form, i) ==
    LET f == form.order[i]
    IN /\ Untouched(form, i)
       /\ f.blank = {} \/ f.none \in f.blank
       /\ f.any = {} /\ f.stray = {}

\* A condition of field i on a field before it, which is there when field i is, and
\* signals its changes.  It does not tell the values that are not written apart.
\* (An inner field is never written.)
Relies(form, i, c) ==
    LET o == form.order
    IN \/ c = <<o[i].name, {}>>
       \/ \E j \in 1 .. i - 1 :
             /\ o[j].name = c[1] /\ o[j].when \subseteq o[i].when
             /\ Undisturbed(form, j) /\ Quiet(o[j]) = {}
             /\ \A b \in o[j].blank : b \in c[2] <=> o[j].none \in c[2]
             /\ \A x \in o[j].when : x[2] = {} \/ \E h \in 1 .. j - 1 : o[h].name = x[1]

\* A change that is not signalled is not one to a value that is not written.
SteadyAt(form, i) ==
    LET f == form.order[i]
    IN /\ Undisturbed(form, i)
       /\ \A c \in f.when : Relies(form, i, c)
       /\ Quiet(f) \cap f.blank = {} /\ (f.mute = {} \/ f.silent = {})
Steady(form) == {form.order[i].name : i \in {k \in DOMAIN form.order : SteadyAt(form, k)}}

----------------------------------------------------------------------------
(* Fields that may be hidden without being kept from being written: they,   *)
(* or others that keep them from it, are blank then.                        *)

\* Conditions for being shown that are none for being written.
Loose(f) == IF Len(f.vals) = 1 THEN {} ELSE f.seen \ f.when

\* While field m is blank, field n is not written.
Switches(form, m, n) ==
    m = n \/ \E c \in form.at[n].when : c[1] = m /\ c[2] \cap form.at[m].blank = {}

\* Field n after the slots of value v.
After(trips, v, n, was) ==
    LET to == {i \in DOMAIN trips : trips[i][1] = v /\ trips[i][2] = n}
    IN IF to = {} THEN was ELSE trips[Max(to)][3]

\* With value x of its field, condition c lets field m be written; or m is blank.
Allows(form, c, x)       == x \in c[2] \/ Supplied(form.at[c[1]], x)
Covers(form, c, m, x, y) == Allows(form, c, x) \/ y \in form.at[m].blank

\* What a part of the description is read as, and what is written of a value.
AsRead(f, v) ==
    IF v = Absent THEN f.none
    ELSE IF \E p \in f.reads : p[1] = v THEN (CHOOSE p \in f.reads : p[1] = v)[2] ELSE v
AsWritten(f, v) == IF v \in f.blank THEN Absent ELSE v

\* A field with a name of its own, which shows its values only.
Known(form, n) ==
    LET f == form.at[n]
    IN /\ \A i, j \in DOMAIN form.order : form.order[i].name = n /\ form.order[j].name = n => i = j
       /\ f.joins = {}
       /\ f.late \cup {f.none, f.vals[1]} \cup {p[2] : p \in f.reads} \subseteq Values(f)
       /\ \A i \in DOMAIN form.order :
             LET g == form.order[i]
             IN /\ \A k \in DOMAIN g.sets :
                      g.sets[k][2] = n =>
                          g.sets[k][3] \in Values(f) /\ \A l \in DOMAIN g.sets : Len(g.sets[l]) = 3
                /\ \A k \in DOMAIN g.picks : g.picks[k][2] = n => g.picks[k][3] \in Values(f)

\* A widget's state, which only slots change.
Idle(f) == <<f.name, {}>> \in f.when \cap f.seen /\ ~f.anyway /\ f.late = {}

\* Whatever is changed, by the user only where it is shown, m is blank unless c lets
\* it be written.
Causes(f) ==
    Values(f) \cup {f.sets[k][1] : k \in DOMAIN f.sets} \cup {f.picks[k][1] : k \in DOMAIN f.picks}
StaysCovered(form, c, m) ==
    \A i \in {k \in DOMAIN form.order : ~Idle(form.order[k])} :
        LET f == form.order[i]
            covers(x, y) == Covers(form, c, m, x, y)
        IN \A v \in Causes(f), x \in Values(form.at[c[1]]), y \in Values(form.at[m]) :
              covers(x, y) =>
                  /\ covers(After(f.picks, v, c[1], x), After(f.picks, v, m, y))
                  /\ (f.name = m => covers(x, v)) =>
                         covers(After(f.sets, v, c[1], IF f.name = c[1] THEN v ELSE x),
                                After(f.sets, v, m, IF f.name = m THEN v ELSE y))

\* Reading m makes c let it be written, or m is read after the field of c, which is
\* there when m is, and stays as it is read.
MakesItAllowed(form, c, m) ==
    \A v \in Values(form.at[m]), x \in Values(form.at[c[1]]) :
        Covers(form, c, m, After(form.at[m].sets, v, c[1], x), After(form.at[m].sets, v, m, v))
Follows(form, c, m, i, j) ==
    LET o == form.order
    IN /\ o[i].name = m /\ ~o[i].anyway
       /\ o[j].name = c[1] /\ Untouched(form, j)
       /\ ~o[j].keeps /\ ~o[j].lost /\ o[j].any = {}
       /\ o[j].when \subseteq o[i].when
       /\ \A x \in o[j].when :
             x[2] = {} \/ \E h \in 1 .. j - 1 : o[h].name = x[1] /\ Untouched(form, h)
       /\ \A v \in Values(o[j]) :
             Allows(form, c, v) => Allows(form, c, AsRead(o[j], AsWritten(o[j], v)))
ReadAfter(form, c, m) == \E i \in DOMAIN form.order : \E j \in 1 .. i - 1 : Follows(form, c, m, i, j)
ReadsCovered(form, c, m) ==
    LET f == form.at[m]
    IN \/ f.lost
       \/ /\ f.keeps \/ f.none \in f.blank
          /\ MakesItAllowed(form, c, m) \/ ReadAfter(form, c, m)

Guarded(form, c, m) ==
    LET f == form.at[m]
    IN /\ c[1] \in Names(form) /\ c[1] # m /\ Known(form, c[1]) /\ Known(form, m)
       /\ Covers(form, c, m, First(form)[c[1]], First(form)[m])
       /\ c \in f.seen \/ f.fixed
       /\ f.late \subseteq f.blank
       /\ StaysCovered(form, c, m) /\ ReadsCovered(form, c, m)
Guards(form) ==
    LET near(n) == {n} \cup {c[1] : c \in form.at[n].when}
    IN {g \in UNION {Loose(form.at[n]) \X near(n) : n \in Names(form)} :
           g[2] \in Names(form) /\ Guarded(form, g[1], g[2])}

\* Fields that are shown when they are written.
Covered(form) ==
    {n \in Names(form) :
        \A c \in Loose(form.at[n]) : \E m \in Names(form) : <<c, m>> \in Guards(form) /\ Switches(form, m, n)}

\* What a form shows when its guarded fields are blank unless they may be written.
ShownAt(form, c, m, s) ==
    /\ s[c[1]] \in Values(form.at[c[1]]) /\ s[m] \in Values(form.at[m])
    /\ Covers(form, c, m, s[c[1]], s[m])
IsShown(form, s) == IsState(form, s) /\ \A g \in Guards(form) : ShownAt(form, g[1], g[2], s)

----------------------------------------------------------------------------
(* Descriptions.                                                           *)

\* The form is known to alter this part, whatever it would write (Altered).
Odd(form, desc, n) ==
    LET f == form.at[n]
    IN \/ \E p \in f.reads : p[1] = desc[n]
       \/ desc[n] = Absent /\ (f.optional \/ f.keeps)
       \/ f.lost
       \/ \E t \in f.joins : t[2] = desc[n]

\* A condition that the description meets, or that is on a part which is altered.
Meets(form, desc, c) ==
    c[1] \in Names(form) /\ (IF desc[c[1]] = Absent THEN form.at[c[1]].none ELSE desc[c[1]]) \in c[2]
Uncertain(form, desc, c) == c[1] \in Names(form) /\ Odd(form, desc, c[1])

\* A description that has what the form would write, where its conditions are met,
\* and nothing else, as far as the steady fields go.
DescribesAt(form, desc, n) ==
    LET f == form.at[n]
    IN \/ Odd(form, desc, n)
       \/ IF desc[n] # Absent
          THEN desc[n] \notin f.blank /\ \A c \in f.when : Meets(form, desc, c) \/ Uncertain(form, desc, c)
          ELSE f.none \in f.blank \/ \E c \in f.when : ~Meets(form, desc, c) \/ Uncertain(form, desc, c)

DescribesSteady(form, desc) == \A n \in Steady(form) : DescribesAt(form, desc, n)

\* What it has of a guarded field, its condition lets be written.
HasKnown(f, v) == v \in Values(f) \cup {Absent} \cup {p[1] : p \in f.reads}
DisclosesAt(form, desc, c, m) ==
    LET f == form.at[m]
        g == form.at[c[1]]
    IN /\ HasKnown(g, desc[c[1]]) /\ HasKnown(f, desc[m])
       /\ \/ f.lost \/ MakesItAllowed(form, c, m)
          \/ desc[m] = Absent \/ AsRead(f, desc[m]) \in f.blank
          \/ Allows(form, c, AsRead(g, desc[c[1]]))
Describes(form, desc) ==
    DescribesSteady(form, desc) /\ \A g \in Guards(form) : DisclosesAt(form, desc, g[1], g[2])

\* Two forms with the same steady fields, written and read alike: one that creates
\* a device and the one that edits it.
AlikeAt(f, g) ==
    /\ f.when = g.when /\ f.blank = g.blank /\ f.none = g.none /\ f.reads = g.reads
    /\ f.optional = g.optional /\ f.keeps = g.keeps /\ f.lost = g.lost /\ f.joins = g.joins
Alike(form, other) ==
    /\ Names(form) = Names(other) /\ Steady(form) = Steady(other) /\ Guards(form) = {} /\ Guards(other) = {}
    /\ \A n \in Names(form) : AlikeAt(form.at[n], other.at[n])
=============================================================================
