------------------------------ MODULE ConnRows ------------------------------
(***************************************************************************)
(* What the connection list promises about one row: the order of the       *)
(* states a user can see.  ConnLifecycle implements it, with a thread, an  *)
(* event loop and the GUI all setting the row.                             *)
(***************************************************************************)
CONSTANT Conn
VARIABLE item

\* A connection is tried before it is opened or has failed, and after a
\* failure or an opened connection the row comes to rest at CLOSED before the
\* next attempt.  A row disappears only when its connection is not open.
Follows == { <<"absent", "CLOSED">>,
             <<"CLOSED", "CONNECT">>,
             <<"CONNECT", "RUNNING">>, <<"CONNECT", "FAILED">>,
             <<"RUNNING", "CLOSED">>,  <<"RUNNING", "FAILED">>,
             <<"FAILED", "CLOSED">>,
             <<"CLOSED", "absent">>, <<"FAILED", "absent">>, <<"CONNECT", "absent">> }

Init == item \in [Conn -> {"absent", "CLOSED"}]

Move(c) == \E state \in {f[2] : f \in Follows} :
              /\ <<item[c], state>> \in Follows
              /\ item' = [item EXCEPT ![c] = state]

Next == \E c \in Conn : Move(c)

Spec == Init /\ [][Next]_item
=============================================================================
