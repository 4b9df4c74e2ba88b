---------------------------- MODULE MCHttpServer ----------------------------
(* Two clients at most; a rebuild every second or third frame.             *)
EXTENDS HttpServer
=============================================================================
