---------------------------- MODULE MCOscServer ----------------------------
(* Small instances of OscServer: a single message, a two-message bundle    *)
(* and a bundle whose second element is malformed.                         *)
EXTENDS OscServer, TLC

CONSTANTS single, bundle, broken, a, b, c, d

MCBody == [p \in Packets |-> CASE p = single -> <<a>>
                               [] p = bundle -> <<b, c>>
                               [] p = broken -> <<d>>]
=============================================================================
