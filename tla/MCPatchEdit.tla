---------------------------- MODULE MCPatchEdit ----------------------------
(* Small patches: a controller, a module that is there from the start and  *)
(* one that may be added; one output and one input on each of them, and a  *)
(* cable from the first module to itself.                                  *)
EXTENDS PatchEdit

MCInitialCables ==
  {[id |-> 10, out |-> 1, outPort |-> 0, in |-> 1, inPort |-> 0]}
=============================================================================
