---------------------------- MODULE MCTaskWarehouse ----------------------------
(* TLC instances of TaskWarehouse: two connections, two controls.          *)
EXTENDS TaskWarehouse

\* People who do not wait; and people who wait for every answer, with entities
\* that change meanwhile.
Hurry(n)     == [hurried |-> TRUE, tasks |-> n, changes |-> 0]
Patience(n)  == [hurried |-> FALSE, tasks |-> n, changes |-> 2]

BothPaces  == {Hurry(3), Patience(3)}
OnlyHurry  == {Hurry(4)}
=============================================================================
