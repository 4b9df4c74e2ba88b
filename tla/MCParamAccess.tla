--------------------------- MODULE MCParamAccess ---------------------------
(* One or two modules with one or two parameters of two or three values.   *)
EXTENDS ParamAccess

CONSTANTS m1, m2, p1, p2

MCDriven == {<<m1, p1>>}
MCRequests == {Low - 1, Low, High}
=============================================================================
