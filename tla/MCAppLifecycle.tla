---------------------------- MODULE MCAppLifecycle ----------------------------
(* TLC instances of AppLifecycle, with one connection.                     *)
EXTENDS AppLifecycle
=============================================================================
