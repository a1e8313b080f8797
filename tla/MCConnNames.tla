------------------------------ MODULE MCConnNames ------------------------------
(***************************************************************************)
(* ConnNames with two identities, which is enough for one connection to    *)
(* take the name or the row of another; the values are in ConnNames.cfg.   *)
(***************************************************************************)
EXTENDS ConnNames
=============================================================================
