--------------------------- MODULE MCRlController ---------------------------
(* An instance of RlController for TLC *)
EXTENDS RlController
=============================================================================
