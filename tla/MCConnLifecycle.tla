-------------------------- MODULE MCConnLifecycle --------------------------
(* TLC instances of ConnLifecycle: one or two connections, any faults, and  *)
(* the memory of whether one has happened.                                  *)
EXTENDS ConnLifecycle, TLC

VARIABLE calm    \* no peer has closed and no close has failed so far

ConnSymmetry == Permutations(Conn)

Fault ==
    \E c \in Conn :
        \/ ptr[c] # "dead" /\ ptr'[c] = "dead"
        \/ ptr[c] # "null" /\ ptr'[c] = "null" /\ item'[c] = "FAILED"

MCInit == Init /\ calm = TRUE
MCNext == Next /\ calm' = (calm /\ ~Fault)
MCSpec == MCInit /\ [][MCNext]_<<vars, calm>>

\* As long as no peer has closed and no close has failed, what is on view is the
\* one live connection in the docks (conn_list_widget.cpp, mainwindow.cpp:940).
CalmViewConsistent == calm => ViewConsistent
=============================================================================
