--------------------------- MODULE MCParamChannel ---------------------------
(* One parameter with two legal values, one name the table does not know. *)
EXTENDS ParamChannel

MCParamTable == [h_min |-> [min |-> 0, max |-> 1, init |-> 0]]
=============================================================================
