--------------------------- MODULE MCStructWatch ---------------------------
(* A controller, a module that is there from the start, with a cable from  *)
(* and to itself, and one more module and cable that may be added.         *)
EXTENDS StructWatch

MCInitialCables ==
  {[id |-> 10, out |-> 1, outPort |-> 0, in |-> 1, inPort |-> 0]}
=============================================================================
