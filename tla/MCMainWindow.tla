---------------------------- MODULE MCMainWindow ----------------------------
(* A TLC instance of MainWindow: one listed connection; two connections      *)
(* with windows, one name a prefix of the other.                            *)
EXTENDS MainWindow

CONSTANTS a, b

OnePrefix == {<<a, b>>}
=============================================================================
