----------------------------- MODULE TaskPromise -----------------------------
(***************************************************************************)
(* What a task is expected to be for the one who orders it: it is answered *)
(* at most once, it changes the hypervisor at most once and never after    *)
(* the answer, and the answer says whether it did.                         *)
(***************************************************************************)
CONSTANT Task

VARIABLES
    promise,   \* per task: "none", "ordered", "done" (changed), "yes", "no"
    loose      \* the tasks whose answer need not say what was done

vars == <<promise, loose>>

Init ==
    /\ promise = [t \in Task |-> "none"]
    /\ loose \in SUBSET Task

Move(t, from, to) ==
    /\ promise[t] = from
    /\ promise' = [promise EXCEPT ![t] = to]
    /\ UNCHANGED loose

Order(t)  == Move(t, "none", "ordered")
Refuse(t) == Move(t, "none", "no")
Change(t) == Move(t, "ordered", "done")

\* The order was not carried out, and the answer says so.
Fail(t) == Move(t, "ordered", "no")

\* The order was carried out, and the answer says so.
Succeed(t) == Move(t, "done", "yes")

\* A task that reads, or streams: "yes" may be said of what was not done.
SucceedLoosely(t) == t \in loose /\ Move(t, "ordered", "yes")

Next == \E t \in Task : \/ Order(t) \/ Refuse(t) \/ Change(t)
                        \/ Fail(t) \/ Succeed(t) \/ SucceedLoosely(t)

Spec == Init /\ [][Next]_vars
=============================================================================
