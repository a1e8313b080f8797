--------------------------- MODULE MCEntityControls ---------------------------
(* A TLC instance of EntityControls: all controls, one after another.       *)
EXTENDS EntityControls

EveryKind == DOMAIN Control
=============================================================================
