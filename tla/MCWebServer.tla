---------------------------- MODULE MCWebServer ----------------------------
(* Instances of the web server small enough for TLC.                       *)
EXTENDS WebServer
=============================================================================
