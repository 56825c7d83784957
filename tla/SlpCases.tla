------------------------------ MODULE SlpCases ------------------------------
(***************************************************************************)
(* The pure functions of OpenSLP are checked case by case: a case is a     *)
(* record of a function's inputs, with its kind, and verdict is what the   *)
(* function makes of them, <<>> until it is called.                        *)
(***************************************************************************)
VARIABLES case, verdict
=============================================================================
