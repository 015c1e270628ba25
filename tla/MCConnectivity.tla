--------------------------- MODULE MCConnectivity ---------------------------
(* Instances of Connectivity for TLC.                                      *)
EXTENDS Connectivity
=============================================================================
