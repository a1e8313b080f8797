---------------------------- MODULE MCApplication ----------------------------
(* A TLC instance of Application: two connections whose servers ask for a   *)
(* name and a password.                                                     *)
EXTENDS Application, TLC

ConnSymmetry == Permutations(Conn)
NameAndPassword == {<<"Username", "Password">>, <<"Password">>}

\* hasty stays set, and the properties of the exit say nothing once it is.
InTime == ~hasty
=============================================================================
