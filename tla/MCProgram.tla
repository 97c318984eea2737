------------------------------ MODULE MCProgram ------------------------------
(* SIGHUP, SIGINT and SIGTERM, each of which may come at any moment.         *)
EXTENDS Program
=============================================================================
