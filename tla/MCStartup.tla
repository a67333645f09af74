------------------------------ MODULE MCStartup ------------------------------
(* Model-checking instances of Startup; the cfg files give the constants.  *)
EXTENDS Startup
=============================================================================
