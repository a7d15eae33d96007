---------------------------- MODULE MCWebServer ----------------------------
(***************************************************************************)
(* WebServer with two clients: enough descriptors for both, or too few.    *)
(***************************************************************************)
EXTENDS WebServer

CONSTANTS a, b
=============================================================================
