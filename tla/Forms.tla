------------------------------- MODULE Forms -------------------------------
(***************************************************************************)
(* A language for the forms that edit a libvirt description.  A form is    *)
(* the sequence of its fields, in the order in which setDataDescription    *)
(* reads them; a description gives each field a value or leaves it out.    *)
(* One element or attribute of the description is one field; values are    *)
(* those that the code tells apart.                                        *)
(***************************************************************************)
EXTENDS Integers, Sequences, SequencesExt

Absent == "absent"

\* vals: what the widget can show, the constructor's value first; blank: values
\* that are not written; when: the conditions <<field, values>> for being
\* written and read; seen: those for being shown and enabled, able: those for being
\* enabled when it is shown all the same; none: the value
\* taken when the description leaves the field out; keeps: then it is left as it
\* is; optional: a description may leave it out though the form does not;
\* reads: <<value of a description, value shown>> where they differ; sets:
\* <<value, other field, its value>>, in order, what the slots of a change do,
\* with a fourth part: unless these conditions hold;
\* picks: what else a choice by the user sets, in a dialog for example;
\* mute: changes among these values are not signalled, silent: nor to these; fixed: the user cannot
\* change it; anyway: it is read although it would not be written; stray: the
\* conditions under which it is written and not read; any: it is written only if
\* one of these holds; lost: it is never read; joins: <<shown, read, then shown>>
\* of a list to which reading adds; late: the values, one or none, that the widget
\* sets itself a while after the description was read.
Field(name, vals) ==
    [name |-> name, vals |-> vals, blank |-> {}, when |-> {}, seen |-> {},
     none |-> vals[1], keeps |-> FALSE, optional |-> FALSE, reads |-> {},
     sets |-> <<>>, picks |-> <<>>, mute |-> {}, fixed |-> FALSE, stray |-> {},
     anyway |-> FALSE, silent |-> {}, any |-> {}, lost |-> FALSE, joins |-> {}, late |-> {}, able |-> {}]

Choice(name, vals)   == Field(name, vals)
ChoiceIf(name, vals) == [Field(name, vals) EXCEPT !.blank = {vals[1]}]
Text(name)           == Field(name, <<"", "a">>)
TextIf(name)         == ChoiceIf(name, <<"", "a">>)
Given(name, text)    == [Field(name, <<text, "a">>) EXCEPT !.none = ""]
Number(name)         == Field(name, <<"0", "1">>)
Preset(name, n)      == [Field(name, <<n, "1">>) EXCEPT !.none = "0"]
Check(name)          == ChoiceIf(name, <<"no", "yes">>)
YesNo(name)          == Field(name, <<"no", "yes">>)
\* What a description may have and the form leaves out.
Unknown(name)        == [Field(name, <<"">>) EXCEPT !.blank = {""}, !.reads = {<<"a", "">>}, !.lost = TRUE]
\* A widget's state that is not part of the description, as the page of a stack.
Inner(name, vals)    == [Field(name, vals) EXCEPT !.when = {<<name, {}>>}, !.seen = {<<name, {}>>}]

\* Modifiers.
Optional(f)       == [f EXCEPT !.optional = TRUE]
Keeps(f)          == [f EXCEPT !.keeps = TRUE]
KeepsOptional(f)  == [f EXCEPT !.keeps = TRUE, !.optional = TRUE]
Mute(f, values)   == [f EXCEPT !.mute = values]
\* A dialog fills it in too, which is not signalled.
Chosen(f, v)      == [f EXCEPT !.vals = Append(@, v), !.silent = {v}]
Reading(f, pairs) == [f EXCEPT !.reads = pairs]
Picking(f, trips) == [f EXCEPT !.picks = trips]
Setting(f, trips) == [f EXCEPT !.sets = trips]
Fixed(f)          == [f EXCEPT !.fixed = TRUE]
Stray(f, name, values) == [f EXCEPT !.stray = {<<name, values>>}]
Anyway(f)         == [f EXCEPT !.anyway = TRUE]
Missing(f, v)     == [f EXCEPT !.none = v, !.optional = TRUE]
Starting(f, v)    == [f EXCEPT !.vals = <<v>> \o SelectSeq(@, LAMBDA x : x # v)]
Lost(f)           == [f EXCEPT !.lost = TRUE]
IfAny(f, conds)   == [f EXCEPT !.any = conds]
Joining(f, trips) == [f EXCEPT !.joins = trips]
\* A list of things that reading adds to and the user changes one by one.
Growing(name, a, b) ==
    Joining(ChoiceIf(name, <<"", a, b>>), {<<a, a, b>>, <<a, b, b>>, <<b, a, b>>, <<b, b, b>>})
Late(f, v)        == [f EXCEPT !.late = {v}]
Blank(f)          == [f EXCEPT !.blank = {f.vals[1]}]
Able(f, name, values) == [f EXCEPT !.able = {<<name, values>>}]
Hidden(f)         == [f EXCEPT !.seen = {<<f.name, {}>>}]

\* The same <<field, value>> pairs for every value of f.
ForEach(f, pairs) ==
    FlattenSeq([i \in DOMAIN f.vals |->
        [j \in DOMAIN pairs |-> <<f.vals[i], pairs[j][1], pairs[j][2]>>]])
Clearing(f, pairs) == Setting(f, ForEach(f, pairs))

\* Fields that are there for some values of another field only.
Under(name, values, fields) ==
    [i \in DOMAIN fields |->
        [fields[i] EXCEPT !.when = @ \cup {<<name, values>>}, !.seen = @ \cup {<<name, values>>}]]
WrittenUnder(name, values, fields) ==
    [i \in DOMAIN fields |-> [fields[i] EXCEPT !.when = @ \cup {<<name, values>>}]]
ShownUnder(name, values, fields) ==
    [i \in DOMAIN fields |-> [fields[i] EXCEPT !.seen = @ \cup {<<name, values>>}]]

\* The same fields under longer names.
Prefixed(p, fields) ==
    LET conds(set) == {<<p \o c[1], c[2]>> : c \in set}
        steps(seq) == [j \in DOMAIN seq |-> [seq[j] EXCEPT ![2] = p \o @]]
    IN [i \in DOMAIN fields |->
           [fields[i] EXCEPT !.name = p \o @, !.when = conds(@), !.seen = conds(@),
                             !.stray = conds(@), !.any = conds(@), !.able = conds(@), !.sets = steps(@), !.picks = steps(@)]]

\* A form whose fields of these names are changed by op: what an editor adds to
\* the widget it extends.
Editing(form, names, op(_)) ==
    [i \in DOMAIN form |-> IF form[i].name \in names THEN op(form[i]) ELSE form[i]]

----------------------------------------------------------------------------
(* What the widgets do.                                                    *)

\* A form: its fields in order, and each by its name.
Form(fields) ==
    [order |-> fields,
     at |-> [n \in {fields[i].name : i \in DOMAIN fields} |->
                fields[CHOOSE i \in DOMAIN fields : fields[i].name = n]]]
Names(form)    == DOMAIN form.at
Values(f)      == {f.vals[i] : i \in DOMAIN f.vals}
Hold(conds, s) == \A c \in conds : s[c[1]] \in c[2]
IsInner(f)     == <<f.name, {}>> \in f.when

\* The widget as its constructor leaves it.
First(form) == [n \in Names(form) |-> form.at[n].vals[1]]

\* A field gets a value, from the user or from code; the slots run if it is new, and
\* what the last of them sets stays.
Apply(trips, s, v) ==
    LET runs == {i \in DOMAIN trips : trips[i][1] = v}
        to(n) == {i \in runs : trips[i][2] = n}
    IN IF runs = {} THEN s ELSE [n \in DOMAIN s |-> IF to(n) = {} THEN s[n] ELSE trips[Max(to(n))][3]]
\* Mutant: the slots are not connected.
ChangeAlone(s, f, v) == [s EXCEPT ![f.name] = v]
Change(s, f, v) ==
    LET runs == {i \in DOMAIN f.sets : Len(f.sets[i]) = 3 \/ ~Hold(f.sets[i][4], s)}
    IN IF s[f.name] = v THEN s ELSE Apply([i \in runs |-> f.sets[i]], [s EXCEPT ![f.name] = v], v)
Pick(s, f, v)   == Apply(f.picks, Change(s, f, v), v)

\* getDataDocument.
WriteField(f, s) ==
    IF /\ Hold(f.when, s)
       /\ f.any = {} \/ \E c \in f.any : s[c[1]] \in c[2]
       /\ s[f.name] \notin f.blank
    THEN s[f.name] ELSE Absent
Write(form, s)   == [n \in Names(form) |-> WriteField(form.at[n], s)]

\* What the widget shows for a value of the description.
Shows(f, s, v) ==
    IF \E t \in f.joins : t[1] = s[f.name] /\ t[2] = v
    THEN (CHOOSE t \in f.joins : t[1] = s[f.name] /\ t[2] = v)[3]
    ELSE IF \E p \in f.reads : p[1] = v THEN (CHOOSE p \in f.reads : p[1] = v)[2] ELSE v

\* setDataDescription: field by field, in their order.
\* Mutant: what the description leaves out stays as it was.
ReadFieldKeeps(s, f, desc) ==
    IF desc[f.name] # Absent /\ Hold(f.when, s) THEN Change(s, f, Shows(f, s, desc[f.name])) ELSE s
ReadField(s, f, desc) ==
    IF f.lost \/ ~(Hold(f.when, s) \/ f.anyway) THEN s
    ELSE IF desc[f.name] # Absent THEN Change(s, f, Shows(f, s, desc[f.name]))
    ELSE IF f.keeps THEN s ELSE Change(s, f, f.none)
Read(form, s, desc) ==
    LET upTo[i \in 0 .. Len(form.order)] ==
            IF i = 0 THEN s ELSE ReadField(upTo[i - 1], form.order[i], desc)
    IN upTo[Len(form.order)]

\* What a form's own timer does when it ends.  A form has at most one such field.
LateFields(form) == {f \in {form.at[n] : n \in Names(form)} : f.late # {}}
Settled(form, s) ==
    LET f == CHOOSE g \in LateFields(form) : TRUE
    IN IF LateFields(form) = {} THEN s ELSE Change(s, f, CHOOSE v \in f.late : TRUE)

\* The user's changes of what is shown and enabled.
Edits(form, s) ==
    UNION {{f} \X (Values(f) \ {s[f.name]}) :
        f \in {form.at[n] : n \in {m \in Names(form) : ~form.at[m].fixed /\ Hold(form.at[m].seen \cup form.at[m].able, s)}}}

\* Whether a form that goes from s to t signals it.
Told(form, s, t) ==
    \E n \in Names(form) : s[n] # t[n] /\ t[n] \notin form.at[n].silent /\ ~({s[n], t[n]} \subseteq form.at[n].mute)

----------------------------------------------------------------------------
(* What a form may do to a description.                                    *)

\* The parts of a description that a form is known to alter: values that it cannot
\* show, defaults that it makes explicit, what its reading does not clear or does
\* not look at, and changes that it does not signal.
Altered(f, is, would, shown) ==
    \/ \E p \in f.reads : p[1] = is
    \/ is = Absent /\ (f.optional \/ f.keeps)
    \/ {would, is} \subseteq f.mute \/ would \in f.silent
    \/ f.stray # {} /\ Hold(f.stray, shown)
    \/ f.lost
    \/ \E t \in f.joins : t[2] = is

\* What the form would write is the description, but for these and for what depends
\* on them.
AgreesAt(form, shown, is, n) ==
    LET would(m)   == WriteField(form.at[m], shown)
        altered(m) == Altered(form.at[m], is[m], would(m), shown)
    IN \/ would(n) = is[n]
       \/ altered(n)
       \/ \E c \in form.at[n].when \cup form.at[n].any : c[1] \in Names(form) /\ altered(c[1])
Agrees(form, shown, is) == \A n \in Names(form) : AgreesAt(form, shown, is, n)

\* What a form would write and could write otherwise, it shows, unless the
\* description has it, or may have had it: a value that the form supplies when the
\* description has none can hide what is there.
Supplied(f, v) == f.optional /\ v = f.none
VisibleAt(form, shown, is, n) ==
    LET f == form.at[n]
    IN \/ WriteField(f, shown) \in {Absent, is[n]}
       \/ Len(f.vals) = 1
       \/ \A c \in f.seen : shown[c[1]] \in c[2] \/ Supplied(form.at[c[1]], shown[c[1]])
Visible(form, shown, is) == \A n \in Names(form) : VisibleAt(form, shown, is, n)

----------------------------------------------------------------------------

\* The descriptions that a form may have to read: each value of each field, those
\* it cannot show included, where the conditions of the field hold.
Reached(form, f, v) ==
    LET fits(s, g, w) == \A c \in f.when \cup f.seen : c[1] = g.name => w \in c[2]
        meet(s, g) ==
            IF g.name = f.name \/ fits(s, g, s[g.name]) \/ {w \in Values(g) : fits(s, g, w)} = {} THEN s
            ELSE Pick(s, g, CHOOSE w \in Values(g) : fits(s, g, w))
    IN Pick(FoldLeft(meet, First(form), form.order), f, v)
DocsOf(form, f) ==
    LET plain == Write(form, Reached(form, f, f.vals[1]))
    IN {Write(form, Reached(form, f, v)) : v \in Values(f)}
       \cup {[plain EXCEPT ![f.name] = p[1]] : p \in f.reads}
       \cup (IF f.optional THEN {[plain EXCEPT ![f.name] = Absent]} ELSE {})
Docs(form) == {Write(form, First(form))} \cup UNION {DocsOf(form, form.at[n]) : n \in Names(form)}
=============================================================================
